-------------------------- MODULE WorkspaceProofs ---------------------------
(***************************************************************************)
(* Theorems about module Workspace, for every set of commits, versions and *)
(* operations.                                                             *)
(***************************************************************************)
EXTENDS Workspace, TLAPS

(* The directories that update.json names.                                 *)
Staged  == update[updateTx.op]
Retired == previous[updateTx.op]

(* A tree that can be identified is the commit c.                          *)
Holds(t, c) == IsValid(t) => t.commit = c

Carries(c, v) == c \in Commit /\ VersionOf[c] = v

(* A sync is at or past the point where it replaces repo.                  *)
Swapping == updateTx.cmd = "sync" /\ updateTx.stage \in {"swap", "cleanup"}

-----------------------------------------------------------------------------
(* What update.json says.                                                  *)
TxInv ==
  /\ updateTx.cmd = "none" => updateTx = NoTx
  /\ updateTx.cmd # "none" =>
       /\ updateTx.op \in Op /\ updateTx.version \in Version
       /\ updateTx.stage \in {"clone", "verify", "swap", "cleanup"}
  /\ updateTx.cmd = "stage" =>
       /\ updateTx.stage \in {"clone", "verify"}
       /\ Carries(updateTx.base, updateTx.version)
       /\ updateTx.base # updateTx.target
  /\ updateTx.stage = "clone" =>
       /\ updateTx.target = None
       /\ updateTx.cmd = "sync" => updateTx.base = None
  /\ updateTx.stage \in {"verify", "swap", "cleanup"} =>
       Carries(updateTx.target, updateTx.version)

(* The directories: which there are, and what those of a swap hold.        *)
TreesInv ==
  /\ \A o \in Op : previous[o] # Missing => Swapping
  /\ Swapping =>
       /\ updateTx.base # updateTx.target
       /\ Holds(Staged, updateTx.target) /\ Holds(Retired, updateTx.base)
       /\ IsValid(repo) => repo.commit \in {updateTx.base, updateTx.target}
       /\ repo # Missing /\ Retired # Missing =>
            Staged = Missing /\ Holds(repo, updateTx.target)
       /\ IsValid(repo) /\ repo.commit = updateTx.target => Staged = Missing
  /\ updateTx.stage = "cleanup" =>
       repo # Missing /\ Staged = Missing /\ Holds(repo, updateTx.target)

(* environment.json is ready for what is active, unless a swap owes its    *)
(* invalidation.                                                           *)
Fresh(t) == env.status = "ready" => Holds(t, env.last)

EnvInv ==
  /\ env.status = "none" => env = NoEnvironment
  /\ env.status = "ready" => env = Ready(env.last)
  /\ ~Fresh(activeTree) =>
       Swapping /\ repo # Missing /\ activeTree.commit = updateTx.target

BackendInv ==
  /\ RunningIsReady
  /\ backend.at = "running" => backend.commit \in Commit
  /\ backend.at # "off" => pc = "idle" \/ job.cmd = "stage"

-----------------------------------------------------------------------------
(* The command, label by label.                                            *)
SyncLabels ==
  {"syncOpen", "syncCheck", "syncPlan", "syncVerified", "swap", "retire", "activate",
   "swapCleanup", "commitEnv", "dropPrevious", "removeTx", "removeMutation", "finish",
   "restore", "restoring"}
StageLabels == {"stageOpen", "stageWrite", "stageVerified"}
RecoveryLabels ==
  {"recover", "recDropUpdate", "recDropPrevious", "recRollback", "recActivate",
   "recWriteEnv", "recRemoveTx"}

JobInv ==
  /\ pc = "idle" => job = NoJob
  /\ pc # "idle" => job.op \in Op /\ job.version \in Version
  /\ pc \in SyncLabels => job.cmd = "sync"
  /\ pc \in StageLabels => job.cmd = "stage"

(* Who calls Recover, with which record.                                   *)
CallInv ==
  pc \in RecoveryLabels =>
    \/ /\ job.onSuccess = "syncOpen" /\ job.onFailure = "idle"
       /\ job.cmd = "sync" /\ ~job.discard
    \/ /\ job.onSuccess = "syncPlan" /\ job.onFailure = "finish"
       /\ job.cmd = "sync" /\ job.discard
       /\ updateTx.cmd = "stage" /\ Holds(repo, job.check)
    \/ /\ job.onSuccess = "restore" /\ job.onFailure = "finish"
       /\ job.cmd = "sync" /\ ~job.discard
       /\ updateTx.cmd = "sync" /\ updateTx.stage = "verify"
    \/ /\ job.onSuccess = "finish" /\ job.onFailure = "idle"
       /\ job.cmd = "sync" /\ ~job.discard /\ job.keep /\ Swapping
    \/ /\ job.onSuccess = "stageWrite" /\ job.onFailure = "idle"
       /\ job.cmd = "stage" /\ job.discard
       /\ updateTx.cmd = "stage" /\ Carries(job.check, job.version)
       /\ Holds(repo, job.check)
       /\ updateTx.stage = "verify" => updateTx.base # job.check
    \/ /\ job.onSuccess = "idle" /\ job.onFailure = "idle"
       /\ job.cmd = "stage" /\ job.discard
       /\ updateTx.cmd = "stage" /\ updateTx.stage = "clone"

RecoveryInv ==
  /\ pc \in RecoveryLabels \ {"recover"} => updateTx.cmd # "none"
  /\ pc = "recDropUpdate" => Retired = Missing /\ Fresh(repo)
  /\ pc = "recDropPrevious" =>
       /\ Swapping /\ repo # Missing /\ Staged = Missing
       /\ env.status = "broken" /\ Holds(repo, env.target)
  /\ pc = "recRollback" => Swapping /\ repo = Missing /\ IsValid(Retired)
  /\ pc = "recActivate" =>
       /\ Swapping /\ repo = Missing /\ Retired = Missing
       /\ IsValid(Staged) /\ Staged.commit = updateTx.target
  /\ pc = "recWriteEnv" =>
       /\ Swapping /\ repo # Missing /\ Staged = Missing
       /\ Holds(repo, updateTx.target)
  /\ pc = "recRemoveTx" => Staged = Missing /\ Retired = Missing /\ Fresh(repo)

StagedOnly == updateTx.cmd = "stage" /\ updateTx.stage = "verify"

SyncInv ==
  /\ pc \in {"syncOpen", "syncCheck"} => updateTx.cmd = "none" \/ StagedOnly
  /\ pc = "syncPlan" =>
       /\ Holds(repo, job.check)
       /\ updateTx.cmd = "none" \/ (StagedOnly /\ Prepared(job.check))
  /\ pc = "syncVerified" =>
       /\ Carries(job.got, job.version) /\ Holds(repo, job.check)
       /\ updateTx.op = job.op /\ updateTx.version = job.version
       /\ IsValid(Staged) /\ Staged.commit = job.got
       /\ \/ updateTx.cmd = "sync" /\ updateTx.stage = "clone"
          \/ /\ StagedOnly /\ updateTx.target = job.got
             /\ updateTx.base = job.check /\ job.check # job.got
  /\ pc \in {"restore", "restoring"} => updateTx.cmd = "none"
  /\ pc = "finish" /\ Swapping => job.keep \/ Staged # Missing

FetchInv ==
  pc = "fetch" =>
    /\ updateTx.op = job.op /\ updateTx.cmd = job.cmd
    /\ updateTx.stage = "clone" /\ updateTx.version = job.version
    /\ \/ job.cmd = "sync" /\ Holds(repo, job.check)
       \/ job.cmd = "stage" /\ updateTx.base = job.check

SwapInv ==
  /\ pc = "swap" =>
       /\ updateTx.cmd = "sync" /\ updateTx.stage = "verify"
       /\ updateTx.target = job.got /\ updateTx.base = job.check
       /\ updateTx.base # updateTx.target /\ Holds(repo, updateTx.base)
       /\ IsValid(Staged) /\ Staged.commit = updateTx.target
  /\ pc = "retire" =>
       /\ updateTx.cmd = "sync" /\ updateTx.stage = "swap"
       /\ updateTx.target = job.got
       /\ repo # Missing /\ Retired = Missing /\ Holds(repo, updateTx.base)
       /\ IsValid(Staged) /\ Staged.commit = updateTx.target
  /\ pc = "activate" =>
       /\ updateTx.cmd = "sync" /\ updateTx.stage = "swap"
       /\ updateTx.target = job.got
       /\ repo = Missing
       /\ IsValid(Staged) /\ Staged.commit = updateTx.target
  /\ pc \in {"swapCleanup", "commitEnv"} =>
       /\ Swapping /\ updateTx.target = job.got
       /\ repo # Missing /\ Staged = Missing /\ Holds(repo, updateTx.target)
  /\ pc \in {"dropPrevious", "removeTx"} =>
       /\ Swapping /\ repo # Missing /\ Staged = Missing
       /\ env.status = "broken" /\ Holds(repo, env.target)
  /\ pc = "removeTx" => Retired = Missing

StageInv ==
  /\ pc \in {"stageOpen", "stageWrite"} =>
       Carries(job.check, job.version) /\ Holds(repo, job.check)
  /\ pc = "stageWrite" => updateTx.cmd = "none"
  /\ pc = "stageVerified" =>
       /\ updateTx.cmd = "stage" /\ updateTx.stage = "clone"
       /\ updateTx.base = job.check /\ updateTx.version = job.version
       /\ Carries(job.got, job.version)

IndInv ==
  /\ TypeOK /\ EveryTreeIsNamed /\ TxInv /\ TreesInv
  /\ EnvInv /\ NeverWithoutARepository /\ BackendInv
  /\ JobInv /\ CallInv /\ RecoveryInv /\ SyncInv /\ FetchInv /\ SwapInv /\ StageInv

-----------------------------------------------------------------------------
(* Trees and records.                                                      *)

(* The trees that are no repository.                                       *)
LEMMA TreeKinds ==
  /\ Missing \in Tree /\ Unreadable \in Tree /\ Invalid \in Tree
  /\ Unreadable # Missing /\ Invalid # Missing /\ Unreadable.kind = "unreadable"
  /\ ~IsValid(Missing) /\ ~IsValid(Unreadable) /\ ~IsValid(Invalid)
BY DEF Tree, Missing, Unreadable, Invalid, IsValid

(* The trees of a commit.                                                  *)
LEMMA CommitTrees ==
  ASSUME NEW c \in Commit
  PROVE  /\ Valid(c) \in Tree /\ IsValid(Valid(c)) /\ Valid(c).commit = c
         /\ Holed(c) \in Tree /\ IsValid(Holed(c)) /\ Holed(c).commit = c
         /\ Valid(c) # Missing /\ Holed(c) # Missing
BY DEF Tree, Missing, Valid, Holed, IsValid

(* A repository has a commit.                                              *)
LEMMA ValidTree ==
  ASSUME NEW t \in Tree, IsValid(t)
  PROVE  t.commit \in Commit /\ t # Missing /\ t.kind # "unreadable"
<1>1. t \in [kind : {"valid"}, commit : Commit, whole : BOOLEAN]
  BY DEF Tree, IsValid
<1>2. t # Missing /\ t.kind # "unreadable"
  BY DEF Missing, IsValid
<1> QED BY <1>1, <1>2

(* A directory is missing, a repository, or left over from an unfinished   *)
(* step.                                                                   *)
LEMMA TreeShapes ==
  ASSUME NEW t \in Tree
  PROVE  t = Missing \/ IsValid(t) \/ Incomplete(t)
<1>1. CASE t \in [kind : {"missing", "unreadable", "invalid"}, commit : {None}, whole : {FALSE}]
  <2>1. t = [kind |-> t.kind, commit |-> None, whole |-> FALSE]
    BY <1>1
  <2>2. t.kind \in {"missing", "unreadable", "invalid"}
    BY <1>1
  <2> QED BY <2>1, <2>2 DEF Missing, Incomplete
<1>2. CASE t \in [kind : {"valid"}, commit : Commit, whole : BOOLEAN]
  BY <1>2 DEF IsValid
<1> QED BY <1>1, <1>2 DEF Tree

(* A deletion that stops halfway leaves a directory, but no other commit.  *)
LEMMA ErodedTree ==
  ASSUME NEW t \in Tree, NEW e \in Eroded(t)
  PROVE  /\ e \in Tree
         /\ t # Missing => e # Missing
         /\ t = Missing => e = Missing
         /\ IsValid(e) => IsValid(t) /\ e.commit = t.commit
<1>1. CASE t.kind = "valid"
  <2>1. t.commit \in Commit /\ IsValid(t) /\ t # Missing
    BY <1>1, ValidTree DEF IsValid
  <2>2. e \in {Holed(t.commit), Invalid, Unreadable}
    BY <1>1 DEF Eroded
  <2> QED BY <2>1, <2>2, TreeKinds, CommitTrees
<1>2. CASE t.kind = "invalid"
  <2>1. e = Unreadable
    BY <1>2 DEF Eroded
  <2>2. t # Missing
    BY <1>2 DEF Missing
  <2> QED BY <2>1, <2>2, TreeKinds
<1>3. CASE t.kind \notin {"valid", "invalid"}
  <2>1. e = t
    BY <1>3 DEF Eroded
  <2> QED BY <2>1
<1> QED BY <1>1, <1>2, <1>3

(* A clone that stops halfway leaves a directory.                          *)
LEMMA UnfinishedTree ==
  ASSUME NEW v, NEW t \in Unfinished(v)
  PROVE  t \in Tree /\ t # Missing
<1>1. CASE t \in {Unreadable, Invalid}
  BY <1>1, TreeKinds
<1>2. CASE \E c \in Commit : t = Holed(c)
  BY <1>2, CommitTrees
<1> QED BY <1>1, <1>2 DEF Unfinished

(* The commit a check finds is the one of the tree, or none.               *)
LEMMA HealthyTree ==
  ASSUME NEW t \in Tree
  PROVE  Healthy(t) \in Commit \cup {None} /\ Holds(t, Healthy(t))
BY ValidTree DEF Healthy, Holds

(* No commit, version or operation is None.                                *)
LEMMA VersionsOfCommits ==
  /\ \A c \in Commit : Carries(c, VersionOf[c]) /\ VersionOf[c] \in Version /\ c # None
  /\ \A v \in Version : v # None
  /\ \A o \in Op : o # None
BY WorkspaceAssumption DEF Carries

(* The records that stand for no transaction, no environment and no        *)
(* command.                                                                *)
LEMMA Records ==
  /\ NoTx \in UpdateTx /\ NoTx.cmd = "none" /\ NoTx.stage = "none" /\ NoTx.op = None
  /\ NoTx.target = None /\ NoTx.base = None
  /\ NoEnvironment \in Environment /\ NoEnvironment.status = "none"
  /\ NoJob \in Job
BY DEF UpdateTx, NoTx, Environment, NoEnvironment, Job, NoJob

(* The fields of update.json.                                              *)
LEMMA TxFields ==
  ASSUME NEW tx \in UpdateTx
  PROVE  /\ tx.op \in Op \cup {None} /\ tx.version \in Version \cup {None}
         /\ tx.target \in Commit \cup {None} /\ tx.base \in Commit \cup {None}
         /\ tx.cmd \in {"none", "stage", "sync"}
BY DEF UpdateTx

(* The fields of a command under way.                                      *)
LEMMA JobFields ==
  ASSUME NEW j \in Job
  PROVE  /\ j.op \in Op \cup {None} /\ j.version \in Version \cup {None}
         /\ j.check \in Commit \cup {None} /\ j.got \in Commit \cup {None}
         /\ j.last \in Commit \cup {None} /\ j.keep \in BOOLEAN /\ j.discard \in BOOLEAN
         /\ j.onSuccess \in {"idle", "syncOpen", "syncPlan", "restore", "finish", "stageWrite"}
         /\ j.onFailure \in {"idle", "finish"}
BY DEF Job

(* The environment a successful bootstrap records.                         *)
LEMMA ReadyFields ==
  ASSUME NEW c \in Commit
  PROVE  /\ Ready(c) \in Environment
         /\ Ready(c).status = "ready" /\ Ready(c).last = c
BY DEF Ready, Environment

(* The environment a swap or a failure records.                            *)
LEMMA BrokenFields ==
  ASSUME NEW last \in Commit \cup {None}, NEW c \in Commit \cup {None},
         NEW reason \in {"changed", "failed"}
  PROVE  /\ Broken(last, c, reason) \in Environment
         /\ Broken(last, c, reason).status = "broken"
         /\ Broken(last, c, reason).target = c
BY DEF Broken, Environment

(* The fields of environment.json.                                         *)
LEMMA EnvFields ==
  ASSUME NEW e \in Environment
  PROVE  /\ e.last \in Commit \cup {None} /\ e.target \in Commit \cup {None}
         /\ e.status \in {"none", "ready", "broken"}
BY DEF Environment

-----------------------------------------------------------------------------
(* The locals of the running command.                                      *)

SameJob(j) ==
  /\ job'.cmd = j.cmd /\ job'.op = j.op /\ job'.version = j.version
  /\ job'.check = j.check /\ job'.got = j.got

(* A command calls RecoverWorkspace and says where it goes on.             *)
LEMMA CallStep ==
  ASSUME NEW j \in Job, NEW discard \in BOOLEAN,
         NEW success \in {"idle", "syncOpen", "syncPlan", "restore", "finish", "stageWrite"},
         NEW failure \in {"idle", "finish"},
         CallRecover(j, discard, success, failure)
  PROVE  /\ pc' = "recover" /\ job' \in Job /\ SameJob(j) /\ job'.keep = j.keep
         /\ job'.discard = discard /\ job'.onSuccess = success /\ job'.onFailure = failure
BY ZenonT(40) DEF CallRecover, Job, SameJob

(* A command goes to its end, with or without its transaction.             *)
LEMMA FinishStep ==
  ASSUME job \in Job, \E keep \in BOOLEAN : Finish(keep)
  PROVE  pc' = "finish" /\ job' \in Job /\ SameJob(job)
BY DEF Finish, Job, SameJob

(* A command goes to its end and leaves its transaction to the recovery.   *)
LEMMA KeepStep ==
  ASSUME job \in Job, Finish(TRUE)
  PROVE  pc' = "finish" /\ job' \in Job /\ SameJob(job) /\ job'.keep
BY DEF Finish, Job, SameJob

(* A swap that failed in the middle calls the recovery.                    *)
LEMMA PartialStep ==
  ASSUME job \in Job, RecoverPartialSwap
  PROVE  /\ pc' = "recover" /\ job' \in Job /\ SameJob(job) /\ job'.keep /\ ~job'.discard
         /\ job'.onSuccess = "finish" /\ job'.onFailure = "idle"
<1> DEFINE j == [job EXCEPT !.keep = TRUE]
<1>1. j \in Job /\ j.keep /\ j.cmd = job.cmd /\ j.op = job.op /\ j.version = job.version
      /\ j.check = job.check /\ j.got = job.got
  BY DEF Job
<1>2. CallRecover(j, FALSE, "finish", "idle")
  BY DEF RecoverPartialSwap
<1> HIDE DEF j
<1> QED BY <1>1, <1>2, CallStep DEF SameJob

(* A command ends.                                                         *)
LEMMA ReturnStep ==
  ASSUME Return
  PROVE  pc' = "idle" /\ job' = NoJob /\ job' \in Job
BY Records DEF Return

(* RecoverWorkspace returns an error to its caller.                        *)
LEMMA RecoverFailsStep ==
  ASSUME job \in Job, RecoverFails
  PROVE  /\ job' \in Job
         /\ \/ job.onFailure = "idle" /\ pc' = "idle" /\ job' = NoJob
            \/ job.onFailure = "finish" /\ pc' = "finish" /\ SameJob(job)
BY ReturnStep, FinishStep, JobFields DEF RecoverFails

(* RecoverWorkspace has nothing left to do.                                *)
LEMMA RecoverReturnsStep ==
  ASSUME job \in Job, RecoverReturns
  PROVE  /\ job' \in Job
         /\ \/ job.onSuccess = "idle" /\ pc' = "idle" /\ job' = NoJob
            \/ job.onSuccess # "idle" /\ pc' = job.onSuccess /\ job' = job
BY ReturnStep DEF RecoverReturns, Goto

(* A command takes the lease.                                              *)
LEMMA SyncBegins ==
  ASSUME NEW v \in Version, NEW o \in Op, BeginSync(v, o)
  PROVE  /\ pc' = "recover" /\ job' \in Job /\ job'.cmd = "sync" /\ job'.op = o
         /\ job'.version = v /\ ~job'.discard
         /\ job'.onSuccess = "syncOpen" /\ job'.onFailure = "idle"
<1> DEFINE j == [NoJob EXCEPT !.cmd = "sync", !.op = o, !.version = v]
<1>1. j \in Job /\ j.cmd = "sync" /\ j.op = o /\ j.version = v
  BY Records DEF Job
<1>2. CallRecover(j, FALSE, "syncOpen", "idle")
  BY DEF BeginSync
<1> HIDE DEF j
<1> QED BY <1>1, <1>2, CallStep DEF SameJob

(* Stage knows the version and the revision it starts from.                *)
LEMMA StageBegins ==
  ASSUME repo \in Tree, NEW o \in Op, BeginStage(o)
  PROVE  /\ pc' = "stageOpen" /\ job' \in Job /\ job'.cmd = "stage" /\ job'.op = o
         /\ Carries(job'.check, job'.version) /\ job'.version \in Version
         /\ Holds(repo, job'.check)
<1>1. repo.commit \in Commit
  BY ValidTree DEF BeginStage
<1> DEFINE c == repo.commit
<1>2. c \in Commit /\ VersionOf[c] \in Version /\ Carries(c, VersionOf[c])
      /\ Holds(repo, c)
  BY <1>1, VersionsOfCommits DEF Holds
<1>3. job' = [NoJob EXCEPT !.cmd = "stage", !.op = o, !.check = c, !.version = VersionOf[c]]
  BY DEF BeginStage
<1>4. pc' = "stageOpen"
  BY DEF BeginStage, Goto
<1> HIDE DEF c
<1>5. job' \in Job /\ job'.cmd = "stage" /\ job'.op = o /\ job'.check = c
      /\ job'.version = VersionOf[c]
  BY <1>2, <1>3, Records DEF Job
<1> QED BY <1>2, <1>4, <1>5

(* The steps that compute locals or a record, without the computation.     *)
LEMMA SyncOpenStep ==
  ASSUME TypeOK, SyncOpen
  PROVE  /\ pc = "syncOpen" /\ job' \in Job /\ mutationTx' \in BOOLEAN
         /\ UNCHANGED <<repo, update, previous, updateTx, env, backend>>
         /\ \/ pc' = "syncCheck" /\ SameJob(job)
            \/ pc' = "idle" /\ job' = NoJob
            \/ pc' = "finish" /\ SameJob(job)
<1>1. job \in Job /\ env.last \in Commit \cup {None}
  BY EnvFields DEF TypeOK
<1>2. CASE mutationTx' = TRUE /\ Goto("syncCheck") /\ job' = [job EXCEPT !.last = env.last]
  <2>1. job' \in Job /\ SameJob(job)
    BY <1>1, <1>2 DEF Job, SameJob
  <2> QED BY <1>2, <2>1 DEF SyncOpen, Goto
<1>3. CASE Return
  BY <1>3, ReturnStep DEF SyncOpen, TypeOK
<1>4. CASE \E keep \in BOOLEAN : Finish(keep)
  BY <1>1, <1>4, FinishStep DEF SyncOpen, TypeOK
<1> QED BY <1>2, <1>3, <1>4 DEF SyncOpen

(* Sync checks the repository and lets a stale staged update be discarded. *)
LEMMA SyncCheckStep ==
  ASSUME TypeOK, SyncCheck
  PROVE  /\ pc = "syncCheck" /\ job' \in Job /\ UNCHANGED <<disk, backend>>
         /\ job'.cmd = job.cmd /\ job'.op = job.op /\ job'.version = job.version
         /\ job'.check = Healthy(repo) /\ Holds(repo, job'.check)
         /\ \/ pc' = "syncPlan" /\ (updateTx.cmd # "stage" \/ Prepared(job'.check))
            \/ /\ pc' = "recover" /\ updateTx.cmd = "stage"
               /\ job'.onSuccess = "syncPlan" /\ job'.onFailure = "finish" /\ job'.discard
<1>1. job \in Job /\ Healthy(repo) \in Commit \cup {None} /\ Holds(repo, Healthy(repo))
  BY HealthyTree DEF TypeOK
<1> DEFINE j == [job EXCEPT !.check = Healthy(repo)]
<1>2. j \in Job /\ j.cmd = job.cmd /\ j.op = job.op /\ j.version = job.version
      /\ j.check = Healthy(repo)
  BY <1>1 DEF Job
<1>3. \/ /\ updateTx.cmd # "stage" \/ Prepared(Healthy(repo))
         /\ Goto("syncPlan") /\ job' = j
      \/ updateTx.cmd = "stage" /\ CallRecover(j, TRUE, "syncPlan", "finish")
  BY DEF SyncCheck
<1> HIDE DEF j
<1>4. CASE job' = j /\ Goto("syncPlan") /\ (updateTx.cmd # "stage" \/ Prepared(Healthy(repo)))
  BY <1>1, <1>2, <1>4 DEF SyncCheck, Goto
<1>5. CASE updateTx.cmd = "stage" /\ CallRecover(j, TRUE, "syncPlan", "finish")
  BY <1>1, <1>2, <1>5, CallStep DEF SyncCheck, SameJob
<1> QED BY <1>3, <1>4, <1>5

(* Sync takes a staged update over, or fails and keeps it.                 *)
LEMMA UsePreparedStep ==
  ASSUME TypeOK, TxInv, UsePrepared
  PROVE  /\ pc = "syncPlan" /\ updateTx.cmd = "stage" /\ UNCHANGED <<disk, backend>>
         /\ job' \in Job /\ job'.cmd = job.cmd /\ job'.version = job.version
         /\ job'.check = job.check
         /\ \/ /\ pc' = "syncVerified" /\ IsPrepared(Staged)
               /\ job'.op = updateTx.op /\ job'.got = updateTx.target
            \/ pc' = "finish" /\ job'.keep /\ job'.op = job.op
<1>1. job \in Job /\ updateTx.op \in Op /\ updateTx.target \in Commit \cup {None}
  BY TxFields DEF TypeOK, TxInv, UsePrepared
<1>2. CASE /\ IsPrepared(Staged) /\ Goto("syncVerified")
           /\ job' = [job EXCEPT !.op = updateTx.op, !.got = updateTx.target]
  <2>1. job' \in Job /\ job'.cmd = job.cmd /\ job'.version = job.version
        /\ job'.check = job.check /\ job'.op = updateTx.op /\ job'.got = updateTx.target
    BY <1>1, <1>2 DEF Job
  <2> QED BY <1>2, <2>1 DEF UsePrepared, Goto
<1>3. CASE Finish(TRUE)
  BY <1>1, <1>3, KeepStep DEF UsePrepared, SameJob
<1> QED BY <1>2, <1>3 DEF UsePrepared, Staged

(* Sync records its transaction before it clones.                          *)
LEMMA BeginUpdateStep ==
  ASSUME TypeOK, JobInv, BeginUpdate
  PROVE  /\ pc = "syncPlan" /\ updateTx.cmd # "stage"
         /\ UNCHANGED <<repo, update, previous, mutationTx, env, backend>>
         /\ \/ updateTx' = updateTx
            \/ /\ updateTx' \in UpdateTx /\ updateTx'.cmd = "sync"
               /\ updateTx'.op = job.op /\ updateTx'.stage = "clone"
               /\ updateTx'.version = job.version
               /\ updateTx'.target = None /\ updateTx'.base = None
         /\ job' \in Job /\ SameJob(job)
         /\ \/ pc' = "fetch" /\ job' = job /\ updateTx'.cmd = "sync"
               /\ updateTx'.op = job.op /\ updateTx'.stage = "clone"
               /\ updateTx'.version = job.version
            \/ pc' = "finish"
<1>1. job \in Job /\ job.op \in Op /\ job.version \in Version /\ pc = "syncPlan"
  BY DEF TypeOK, JobInv, BeginUpdate
<1> DEFINE tx == [NoTx EXCEPT !.cmd = "sync", !.op = job.op, !.stage = "clone",
                              !.version = job.version]
<1>2. /\ tx \in UpdateTx
      /\ tx.cmd = "sync" /\ tx.op = job.op /\ tx.stage = "clone" /\ tx.version = job.version
      /\ tx.target = None /\ tx.base = None
  BY <1>1, Records DEF UpdateTx
<1>3. \/ updateTx' = tx /\ Goto("fetch") /\ UNCHANGED job
      \/ MayWriteTx(tx) /\ \E keep \in BOOLEAN : Finish(keep)
  BY DEF BeginUpdate
<1>4. /\ updateTx.cmd # "stage"
      /\ UNCHANGED <<repo, update, previous, mutationTx, env, backend>>
  BY DEF BeginUpdate
<1> HIDE DEF tx
<1>5. CASE updateTx' = tx /\ Goto("fetch") /\ UNCHANGED job
  BY <1>1, <1>2, <1>4, <1>5 DEF Goto, SameJob
<1>6. CASE MayWriteTx(tx) /\ \E keep \in BOOLEAN : Finish(keep)
  BY <1>1, <1>2, <1>4, <1>6, FinishStep DEF MayWriteTx
<1> QED BY <1>3, <1>5, <1>6

(* A clone has succeeded: its directory holds the commit of the version.   *)
LEMMA FetchSucceedsStep ==
  ASSUME TypeOK, FetchSucceeds
  PROVE  /\ pc = "fetch"
         /\ UNCHANGED <<repo, previous, updateTx, mutationTx, env, backend>>
         /\ job' \in Job /\ job'.cmd = job.cmd /\ job'.op = job.op
         /\ job'.version = job.version /\ job'.check = job.check
         /\ Carries(job'.got, job.version)
         /\ update' = [update EXCEPT ![job.op] = Valid(job'.got)]
         /\ pc' = IF job.cmd = "sync" THEN "syncVerified" ELSE "stageVerified"
<1>1. PICK c \in Commit : /\ VersionOf[c] = job.version
                          /\ update' = [update EXCEPT ![job.op] = Valid(c)]
                          /\ job' = [job EXCEPT !.got = c]
  BY DEF FetchSucceeds
<1>2. job' \in Job /\ job'.cmd = job.cmd /\ job'.op = job.op
      /\ job'.version = job.version /\ job'.check = job.check /\ job'.got = c
  BY <1>1 DEF TypeOK, Job
<1> QED BY <1>1, <1>2 DEF FetchSucceeds, Goto, Carries

(* Sync records the commit it has verified, or gives the update up.        *)
LEMMA SyncVerifiedStep ==
  ASSUME TypeOK, TxInv, SyncInv, SyncVerified
  PROVE  /\ pc = "syncVerified"
         /\ UNCHANGED <<repo, update, previous, mutationTx, env, backend>>
         /\ \/ updateTx' = updateTx
            \/ /\ updateTx' \in UpdateTx /\ updateTx'.cmd = "sync"
               /\ updateTx'.stage = "verify" /\ updateTx'.op = updateTx.op
               /\ updateTx'.version = updateTx.version
               /\ updateTx'.target = job.got /\ updateTx'.base = job.check
         /\ job' \in Job /\ SameJob(job)
         /\ \/ /\ updateTx'.cmd = "sync"
               /\ updateTx'.stage = "verify" /\ updateTx'.op = updateTx.op
               /\ updateTx'.target = job.got /\ updateTx'.base = job.check
               /\ \/ /\ pc' = "recover" /\ job.check = job.got /\ ~job'.discard
                     /\ job'.onSuccess = "restore" /\ job'.onFailure = "finish"
                  \/ pc' = "swap" /\ job' = job /\ job.check # job.got
            \/ pc' = "finish"
<1>1. /\ job \in Job /\ updateTx \in UpdateTx /\ job.got \in Commit
      /\ job.check \in Commit \cup {None} /\ updateTx.base \in Commit \cup {None}
  BY JobFields, TxFields DEF TypeOK, SyncInv, SyncVerified, Carries
<1> DEFINE b == IF job.check = None THEN updateTx.base ELSE job.check
<1>2. b = job.check
  BY DEF SyncInv, SyncVerified, TxInv
<1> DEFINE tx == [updateTx EXCEPT !.cmd = "sync", !.stage = "verify",
                                  !.target = job.got, !.base = b]
<1>3. \/ /\ updateTx' = tx
         /\ IF job.check = job.got
              THEN CallRecover(job, FALSE, "restore", "finish")
              ELSE Goto("swap") /\ UNCHANGED job
      \/ MayWriteTx(tx) /\ \E keep \in BOOLEAN : Finish(keep)
  BY DEF SyncVerified
<1>4. /\ pc = "syncVerified"
      /\ UNCHANGED <<repo, update, previous, mutationTx, env, backend>>
  BY DEF SyncVerified
<1> HIDE DEF b
<1>5. /\ tx \in UpdateTx
      /\ tx.cmd = "sync" /\ tx.op = updateTx.op /\ tx.stage = "verify"
      /\ tx.version = updateTx.version /\ tx.target = job.got /\ tx.base = job.check
  BY <1>1, <1>2 DEF UpdateTx
<1> HIDE DEF tx
<1>6. CASE updateTx' = tx /\ job.check = job.got /\ CallRecover(job, FALSE, "restore", "finish")
  BY <1>1, <1>4, <1>5, <1>6, CallStep
<1>7. CASE updateTx' = tx /\ job.check # job.got /\ Goto("swap") /\ UNCHANGED job
  BY <1>1, <1>4, <1>5, <1>7 DEF Goto, SameJob
<1>8. CASE MayWriteTx(tx) /\ \E keep \in BOOLEAN : Finish(keep)
  BY <1>1, <1>4, <1>5, <1>8, FinishStep DEF MayWriteTx
<1> QED BY <1>3, <1>6, <1>7, <1>8

(* The swap is recorded before the first rename.                           *)
LEMMA SwapRecordStep ==
  ASSUME TypeOK, SwapRecord
  PROVE  /\ pc = "swap" /\ UNCHANGED <<repo, update, previous, mutationTx, env, backend>>
         /\ \/ updateTx' = updateTx
            \/ /\ updateTx' \in UpdateTx /\ updateTx'.stage = "swap"
               /\ updateTx'.cmd = updateTx.cmd /\ updateTx'.op = updateTx.op
               /\ updateTx'.version = updateTx.version
               /\ updateTx'.target = updateTx.target /\ updateTx'.base = updateTx.base
         /\ job' \in Job /\ SameJob(job)
         /\ \/ /\ updateTx'.stage = "swap" /\ job' = job
               /\ updateTx'.cmd = updateTx.cmd /\ updateTx'.op = updateTx.op
               /\ updateTx'.target = updateTx.target /\ updateTx'.base = updateTx.base
               /\ pc' = IF repo = Missing THEN "activate" ELSE "retire"
            \/ pc' = "finish"
<1> DEFINE tx == [updateTx EXCEPT !.stage = "swap"]
<1>1. job \in Job /\ updateTx \in UpdateTx
  BY DEF TypeOK
<1>2. /\ tx \in UpdateTx
      /\ tx.cmd = updateTx.cmd /\ tx.op = updateTx.op /\ tx.stage = "swap"
      /\ tx.version = updateTx.version /\ tx.target = updateTx.target
      /\ tx.base = updateTx.base
  BY <1>1 DEF UpdateTx
<1>3. \/ /\ updateTx' = tx /\ UNCHANGED job
         /\ Goto(IF repo = Missing THEN "activate" ELSE "retire")
      \/ MayWriteTx(tx) /\ \E keep \in BOOLEAN : Finish(keep)
  BY DEF SwapRecord
<1>4. pc = "swap" /\ UNCHANGED <<repo, update, previous, mutationTx, env, backend>>
  BY DEF SwapRecord
<1> HIDE DEF tx
<1>5. CASE /\ updateTx' = tx /\ UNCHANGED job
           /\ Goto(IF repo = Missing THEN "activate" ELSE "retire")
  BY <1>1, <1>2, <1>4, <1>5 DEF Goto, SameJob
<1>6. CASE MayWriteTx(tx) /\ \E keep \in BOOLEAN : Finish(keep)
  BY <1>1, <1>2, <1>4, <1>6, FinishStep DEF MayWriteTx
<1> QED BY <1>3, <1>5, <1>6

(* The cleanup is recorded after the renames and the invalidation.         *)
LEMMA SwapCleanupStep ==
  ASSUME TypeOK, SwapCleanup
  PROVE  /\ pc = "swapCleanup"
         /\ UNCHANGED <<repo, update, previous, mutationTx, env, backend>>
         /\ \/ updateTx' = updateTx
            \/ /\ updateTx' \in UpdateTx /\ updateTx'.stage = "cleanup"
               /\ updateTx'.cmd = updateTx.cmd /\ updateTx'.op = updateTx.op
               /\ updateTx'.version = updateTx.version
               /\ updateTx'.target = updateTx.target /\ updateTx'.base = updateTx.base
         /\ job' \in Job
         /\ \/ /\ pc' = "commitEnv" /\ job' = job /\ updateTx'.stage = "cleanup"
               /\ updateTx'.cmd = updateTx.cmd /\ updateTx'.op = updateTx.op
               /\ updateTx'.target = updateTx.target
            \/ pc' = "idle" /\ job' = NoJob
<1> DEFINE tx == [updateTx EXCEPT !.stage = "cleanup"]
<1>1. job \in Job /\ updateTx \in UpdateTx
  BY DEF TypeOK
<1>2. /\ tx \in UpdateTx
      /\ tx.cmd = updateTx.cmd /\ tx.op = updateTx.op /\ tx.stage = "cleanup"
      /\ tx.version = updateTx.version /\ tx.target = updateTx.target
      /\ tx.base = updateTx.base
  BY <1>1 DEF UpdateTx
<1>3. \/ updateTx' = tx /\ Goto("commitEnv") /\ UNCHANGED job
      \/ MayWriteTx(tx) /\ Return
  BY DEF SwapCleanup
<1>4. pc = "swapCleanup" /\ UNCHANGED <<repo, update, previous, mutationTx, env, backend>>
  BY DEF SwapCleanup
<1> HIDE DEF tx
<1>5. CASE updateTx' = tx /\ Goto("commitEnv") /\ UNCHANGED job
  BY <1>1, <1>2, <1>4, <1>5 DEF Goto
<1>6. CASE MayWriteTx(tx) /\ Return
  BY <1>1, <1>2, <1>4, <1>6, ReturnStep DEF MayWriteTx
<1> QED BY <1>3, <1>5, <1>6

(* Stage records its transaction before it clones.                         *)
LEMMA StageWriteStep ==
  ASSUME TypeOK, JobInv, StageInv, StageWrite
  PROVE  /\ pc = "stageWrite"
         /\ UNCHANGED <<repo, update, previous, mutationTx, env, backend>>
         /\ \/ updateTx' = updateTx
            \/ /\ updateTx' \in UpdateTx /\ updateTx'.cmd = "stage"
               /\ updateTx'.op = job.op /\ updateTx'.stage = "clone"
               /\ updateTx'.version = job.version
               /\ updateTx'.target = None /\ updateTx'.base = job.check
         /\ job' \in Job
         /\ \/ pc' = "fetch" /\ job' = job /\ updateTx'.cmd = "stage"
               /\ updateTx'.op = job.op /\ updateTx'.stage = "clone"
               /\ updateTx'.version = job.version /\ updateTx'.base = job.check
            \/ pc' = "idle" /\ job' = NoJob
<1>1. job \in Job /\ job.op \in Op /\ job.version \in Version /\ pc = "stageWrite"
      /\ job.check \in Commit \cup {None}
  BY JobFields DEF TypeOK, JobInv, StageWrite
<1> DEFINE tx == [NoTx EXCEPT !.cmd = "stage", !.op = job.op, !.stage = "clone",
                              !.version = job.version, !.base = job.check]
<1>2. /\ tx \in UpdateTx
      /\ tx.cmd = "stage" /\ tx.op = job.op /\ tx.stage = "clone" /\ tx.version = job.version
      /\ tx.target = None /\ tx.base = job.check
  BY <1>1, Records DEF UpdateTx
<1>3. \/ updateTx' = tx /\ Goto("fetch") /\ UNCHANGED job
      \/ MayWriteTx(tx) /\ Return
  BY DEF StageWrite
<1>4. UNCHANGED <<repo, update, previous, mutationTx, env, backend>>
  BY DEF StageWrite
<1> HIDE DEF tx
<1>5. CASE updateTx' = tx /\ Goto("fetch") /\ UNCHANGED job
  BY <1>1, <1>2, <1>4, <1>5 DEF Goto
<1>6. CASE MayWriteTx(tx) /\ Return
  BY <1>1, <1>2, <1>4, <1>6, ReturnStep DEF MayWriteTx
<1> QED BY <1>3, <1>5, <1>6

(* Stage records the commit it has verified, or discards what it has       *)
(* cloned.                                                                 *)
LEMMA StageVerifiedStep ==
  ASSUME TypeOK, StageInv, StageVerified
  PROVE  /\ pc = "stageVerified"
         /\ UNCHANGED <<repo, update, previous, mutationTx, env, backend>>
         /\ job' \in Job
         /\ \/ /\ pc' = "recover" /\ updateTx' = updateTx /\ SameJob(job) /\ job'.discard
               /\ job'.onSuccess = "idle" /\ job'.onFailure = "idle"
            \/ /\ pc' = "idle" /\ job' = NoJob /\ job.got # job.check
               /\ \/ updateTx' = updateTx
                  \/ /\ updateTx' \in UpdateTx /\ updateTx'.stage = "verify"
                     /\ updateTx'.cmd = updateTx.cmd /\ updateTx'.op = updateTx.op
                     /\ updateTx'.version = updateTx.version
                     /\ updateTx'.target = job.got /\ updateTx'.base = updateTx.base
<1> DEFINE tx == [updateTx EXCEPT !.stage = "verify", !.target = job.got]
<1>1. job \in Job /\ updateTx \in UpdateTx /\ job.got \in Commit
  BY DEF TypeOK, StageInv, StageVerified, Carries
<1>2. /\ tx \in UpdateTx
      /\ tx.cmd = updateTx.cmd /\ tx.op = updateTx.op /\ tx.stage = "verify"
      /\ tx.version = updateTx.version /\ tx.target = job.got
      /\ tx.base = updateTx.base
  BY <1>1 DEF UpdateTx
<1>3. \/ CallRecover(job, TRUE, "idle", "idle") /\ UNCHANGED updateTx
      \/ job.got # job.check /\ MayWriteTx(tx) /\ Return
  BY DEF StageVerified
<1>4. pc = "stageVerified" /\ UNCHANGED <<repo, update, previous, mutationTx, env, backend>>
  BY DEF StageVerified
<1> HIDE DEF tx
<1>5. CASE CallRecover(job, TRUE, "idle", "idle") /\ UNCHANGED updateTx
  BY <1>1, <1>2, <1>4, <1>5, CallStep
<1>6. CASE job.got # job.check /\ MayWriteTx(tx) /\ Return
  BY <1>1, <1>2, <1>4, <1>6, ReturnStep DEF MayWriteTx
<1> QED BY <1>3, <1>5, <1>6

-----------------------------------------------------------------------------
(* The plan of a recovery.                                                 *)

(* When the recovery plans nothing there is no transaction to recover.     *)
LEMMA PlanNothing ==
  ASSUME NEW discard \in BOOLEAN, PlanNow(discard) = "nothing"
  PROVE  updateTx.cmd = "none" \/ (StagedOnly /\ ~discard)
BY DEF PlanNow, Plan, StagePlan, SwapPlan, StagedOnly

(* When the recovery completes a swap the new repository is in its place.  *)
LEMMA PlanComplete ==
  ASSUME TypeOK, TxInv, NEW discard \in BOOLEAN, PlanNow(discard) = "complete"
  PROVE  Swapping /\ IsTarget(updateTx, repo) /\ Staged = Missing
BY DEF PlanNow, Plan, StagePlan, SwapPlan, Swapping, Staged, TypeOK, UpdateTx

(* When the recovery rolls a swap back the old repository is still there.  *)
LEMMA PlanRollback ==
  ASSUME TypeOK, TxInv, NEW discard \in BOOLEAN, PlanNow(discard) = "rollback"
  PROVE  Swapping /\ repo = Missing /\ IsValid(Retired)
BY DEF PlanNow, Plan, StagePlan, SwapPlan, Swapping, Retired, TypeOK, UpdateTx

(* When the recovery activates an update no repository is left to restore. *)
LEMMA PlanActivate ==
  ASSUME TypeOK, TxInv, NEW discard \in BOOLEAN, PlanNow(discard) = "activate"
  PROVE  /\ Swapping /\ repo = Missing /\ Retired = Missing
         /\ IsTarget(updateTx, Staged)
BY DEF PlanNow, Plan, StagePlan, SwapPlan, Swapping, Staged, Retired, TypeOK, UpdateTx

(* When the recovery drops an update the repository is not the one of the  *)
(* update.                                                                 *)
LEMMA PlanDrop ==
  ASSUME TypeOK, TxInv, NEW discard \in BOOLEAN, PlanNow(discard) = "dropUpdate"
  PROVE  /\ updateTx.cmd # "none"
         /\ Swapping => Retired = Missing /\ repo # Missing /\ ~IsTarget(updateTx, repo)
BY DEF PlanNow, Plan, SwapPlan, Swapping, Retired

(* The target of a swap is the commit the record names.                    *)
LEMMA TargetTree ==
  ASSUME TxInv, Swapping, NEW t
  PROVE  IsTarget(updateTx, t) <=> IsValid(t) /\ t.commit = updateTx.target
BY VersionsOfCommits DEF TxInv, Swapping, IsTarget, OfVersion, Carries

(* What the recovery has established when it takes one of its ways.        *)
LEMMA ClassifyStep ==
  ASSUME IndInv, Classify
  PROVE  /\ pc = "recover" /\ UNCHANGED <<disk, backend>> /\ job' \in Job
         /\ \/ /\ updateTx.cmd = "none" \/ (StagedOnly /\ ~job.discard)
               /\ \/ job.onSuccess = "idle" /\ pc' = "idle" /\ job' = NoJob
                  \/ job.onSuccess # "idle" /\ pc' = job.onSuccess /\ job' = job
            \/ /\ pc' = "recDropUpdate" /\ job' = job
               /\ updateTx.cmd # "none" /\ Retired = Missing /\ Fresh(repo)
            \/ /\ pc' = "recWriteEnv" /\ job' = job /\ Swapping
               /\ repo # Missing /\ Staged = Missing /\ Holds(repo, updateTx.target)
            \/ /\ pc' = "recRollback" /\ job' = job
               /\ Swapping /\ repo = Missing /\ IsValid(Retired)
            \/ /\ pc' = "recActivate" /\ job' = job
               /\ Swapping /\ repo = Missing /\ Retired = Missing
               /\ IsValid(Staged) /\ Staged.commit = updateTx.target
            \/ pc' = "idle" /\ job' = NoJob
            \/ /\ pc' = "finish" /\ SameJob(job)
               /\ job.onFailure = "finish"
<1>1. TypeOK /\ TxInv /\ TreesInv /\ EnvInv /\ job \in Job /\ job.discard \in BOOLEAN
  BY JobFields DEF IndInv, TypeOK
<1>2. pc = "recover" /\ UNCHANGED <<disk, backend>>
  BY DEF Classify
<1>3. CASE PlanNow(job.discard) = "nothing" /\ RecoverReturns
  BY <1>1, <1>2, <1>3, PlanNothing, RecoverReturnsStep
<1>4. CASE IF job.onFailure = "idle" THEN Return ELSE Finish(TRUE)
  BY <1>1, <1>2, <1>4, ReturnStep, KeepStep, JobFields
<1>5. CASE PlanNow(job.discard) = "dropUpdate" /\ Goto("recDropUpdate") /\ UNCHANGED job
  <2>1. updateTx.cmd # "none"
    BY <1>1, <1>5, PlanDrop
  <2>2. Retired = Missing
    <3>1. CASE Swapping
      BY <1>1, <1>5, <3>1, PlanDrop
    <3>2. CASE ~Swapping
      BY <1>1, <2>1, <3>2 DEF TreesInv, TxInv, Retired
    <3> QED BY <3>1, <3>2
  <2>3. Fresh(repo)
    <3>1. CASE Swapping
      <4>1. repo # Missing /\ ~(IsValid(repo) /\ repo.commit = updateTx.target)
        BY <1>1, <1>5, <3>1, PlanDrop, TargetTree
      <4> QED BY <1>1, <4>1 DEF EnvInv, activeTree, Fresh, Holds
    <3>2. CASE ~Swapping
      BY <1>1, <3>2, TreeKinds DEF EnvInv, activeTree, Fresh, Holds
    <3> QED BY <3>1, <3>2
  <2> QED BY <1>1, <1>2, <1>5, <2>1, <2>2, <2>3 DEF Goto
<1>6. CASE PlanNow(job.discard) = "complete" /\ Goto("recWriteEnv") /\ UNCHANGED job
  <2>1. Swapping /\ IsTarget(updateTx, repo) /\ Staged = Missing
    BY <1>1, <1>6, PlanComplete
  <2>2. repo # Missing /\ Holds(repo, updateTx.target)
    BY <1>1, <2>1, TargetTree, TreeKinds DEF Holds
  <2> QED BY <1>1, <1>2, <1>6, <2>1, <2>2 DEF Goto
<1>7. CASE PlanNow(job.discard) = "rollback" /\ Goto("recRollback") /\ UNCHANGED job
  BY <1>1, <1>2, <1>7, PlanRollback DEF Goto
<1>8. CASE PlanNow(job.discard) = "activate" /\ Goto("recActivate") /\ UNCHANGED job
  <2>1. Swapping /\ repo = Missing /\ Retired = Missing /\ IsTarget(updateTx, Staged)
    BY <1>1, <1>8, PlanActivate
  <2> QED BY <1>1, <1>2, <1>8, <2>1, TargetTree DEF Goto
<1>9. CASE RecoverFails
  BY <1>1, <1>2, <1>9, RecoverFailsStep
<1> QED BY <1>3, <1>4, <1>5, <1>6, <1>7, <1>8, <1>9 DEF Classify

(* Which actions write which part of the disk.                             *)
LEMMA Writers ==
  ASSUME IndInv, Next
  PROVE  /\ UNCHANGED repo \/ RecRollback \/ RecActivate \/ Retire \/ Activate \/ Restoring
            \/ Damage
         /\ UNCHANGED update \/ RecDropUpdate \/ RecActivate \/ FetchWrites \/ FetchSucceeds
            \/ FetchFails \/ Activate \/ Cleanup
         /\ UNCHANGED previous \/ RecDropPrevious \/ RecRollback \/ Retire \/ DropPrevious
         /\ UNCHANGED updateTx \/ BeginUpdate \/ SyncVerified \/ FinishPreSwap \/
            RecRemoveTx \/ SwapRecord \/ SwapCleanup \/ RemoveTx \/ StageWrite \/
            StageVerified
         /\ UNCHANGED env \/ RecActivate \/ RecWriteEnv \/ CommitEnvironment \/ Restore \/
            PrepareSucceeds \/ PrepareFails
         /\ UNCHANGED backend \/ BackendCheck \/ BackendSpawn \/ BackendStop
<1>1. CASE \E v \in Version, o \in Op : BeginSync(v, o)
  <2>1. PICK v \in Version, o \in Op : BeginSync(v, o)
    BY <1>1
  <2>2. /\ pc' = "recover" /\ job' \in Job /\ job'.cmd = "sync" /\ job'.op = o
             /\ job'.version = v /\ ~job'.discard
             /\ job'.onSuccess = "syncOpen" /\ job'.onFailure = "idle"
    BY <2>1, SyncBegins
  <2> HIDE <1>1
  <2> QED BY <2>1, <2>2 DEF BeginSync
<1>2. CASE SyncOpen
  BY <1>2, SyncOpenStep DEF IndInv
<1>3. CASE SyncCheck
  BY <1>3, SyncCheckStep DEF disk, IndInv
<1>4. CASE SyncFails
  BY <1>4 DEF SyncFails, disk
<1>5. CASE UsePrepared
  BY <1>5, UsePreparedStep DEF disk, IndInv
<1>6. CASE KeepCurrent
  BY <1>6 DEF KeepCurrent, disk
<1>7. CASE BeginUpdate
  BY <1>7, BeginUpdateStep DEF IndInv
<1>8. CASE SyncVerified
  BY <1>8, SyncVerifiedStep DEF IndInv
<1>9. CASE FinishPreSwap
  BY <1>9 DEF FinishPreSwap
<1>10. CASE Classify
  BY <1>10, ClassifyStep DEF disk
<1>11. CASE RecDropUpdate
  BY <1>11 DEF RecDropUpdate
<1>12. CASE RecDropPrevious
  BY <1>12 DEF RecDropPrevious
<1>13. CASE RecRollback
  BY <1>13 DEF RecRollback
<1>14. CASE RecActivate
  BY <1>14 DEF RecActivate
<1>15. CASE RecWriteEnv
  BY <1>15 DEF RecWriteEnv
<1>16. CASE RecRemoveTx
  BY <1>16 DEF RecRemoveTx
<1>17. CASE FetchWrites
  BY <1>17 DEF FetchWrites, disk
<1>18. CASE FetchSucceeds
  BY <1>18, FetchSucceedsStep DEF IndInv
<1>19. CASE FetchFails
  BY <1>19, FinishStep, CallStep DEF FetchFails, disk
<1>20. CASE SwapRecord
  BY <1>20, SwapRecordStep DEF IndInv
<1>21. CASE Retire
  BY <1>21 DEF Retire
<1>22. CASE Activate
  BY <1>22 DEF Activate
<1>23. CASE SwapCleanup
  BY <1>23, SwapCleanupStep DEF IndInv
<1>24. CASE CommitEnvironment
  BY <1>24 DEF CommitEnvironment
<1>25. CASE DropPrevious
  BY <1>25 DEF DropPrevious
<1>26. CASE RemoveTx
  BY <1>26 DEF RemoveTx
<1>27. CASE RemoveMutation
  BY <1>27 DEF RemoveMutation
<1>28. CASE Restore
  BY <1>28 DEF Restore
<1>29. CASE Restoring
  BY <1>29 DEF Restoring
<1>30. CASE \E o \in Op : BeginStage(o)
  <2>1. PICK o \in Op : BeginStage(o)
    BY <1>30
  <2>2. /\ pc' = "stageOpen" /\ job' \in Job /\ job'.cmd = "stage" /\ job'.op = o
             /\ Carries(job'.check, job'.version) /\ job'.version \in Version
             /\ Holds(repo, job'.check)
    BY <2>1, StageBegins DEF IndInv, TypeOK
  <2> HIDE <1>30
  <2> QED BY <2>1, <2>2 DEF BeginStage, disk
<1>31. CASE StageOpen
  BY <1>31 DEF StageOpen, disk
<1>32. CASE StageWrite
  BY <1>32, StageWriteStep DEF IndInv
<1>33. CASE StageVerified
  BY <1>33, StageVerifiedStep DEF IndInv
<1>34. CASE PrepareSucceeds
  BY <1>34 DEF PrepareSucceeds
<1>35. CASE PrepareFails
  BY <1>35 DEF PrepareFails
<1>36. CASE Cleanup
  BY <1>36 DEF Cleanup, disk
<1>37. CASE BackendCheck
  BY <1>37 DEF BackendCheck, disk
<1>38. CASE BackendSpawn
  BY <1>38 DEF BackendSpawn, disk
<1>39. CASE BackendStop
  BY <1>39 DEF BackendStop, disk
<1>40. CASE Crash
  BY <1>40 DEF Crash, disk
<1>41. CASE Damage
  BY <1>41 DEF Damage
<1> QED
  BY <1>1, <1>2, <1>3, <1>4, <1>5, <1>6, <1>7, <1>8, <1>9, <1>10, <1>11, <1>12, <1>13, <1>14,
     <1>15, <1>16, <1>17, <1>18, <1>19, <1>20, <1>21, <1>22, <1>23, <1>24, <1>25, <1>26, <1>27,
     <1>28, <1>29, <1>30, <1>31, <1>32, <1>33, <1>34, <1>35, <1>36, <1>37, <1>38, <1>39, <1>40,
     <1>41 DEF Next, Sync, Recover, Fetch, Swap, Stage

(* Which actions lead to which part of a command.                          *)
LEMMA Arrivals ==
  ASSUME IndInv, Next
  PROVE  /\ pc' \in RecoveryLabels =>
              (\E v \in Version, o \in Op : BeginSync(v, o)) \/ SyncCheck \/ SyncVerified \/
              Classify \/ RecDropUpdate \/ RecDropPrevious \/ RecRollback \/ RecActivate \/
              RecWriteEnv \/ FetchFails \/ Retire \/ Activate \/ StageOpen \/ StageVerified \/
              BackendSpawn \/ BackendStop \/ Damage
         /\ pc' \in {"syncOpen", "syncCheck", "syncPlan", "syncVerified", "restore", "restoring",
              "finish"} =>
              SyncOpen \/ SyncCheck \/ SyncFails \/ UsePrepared \/ KeepCurrent \/ BeginUpdate
              \/ SyncVerified \/ Classify \/ RecDropUpdate \/ RecDropPrevious \/ RecRollback
              \/ RecActivate \/ RecWriteEnv \/ RecRemoveTx \/ FetchSucceeds \/ FetchFails \/
              SwapRecord \/ Retire \/ Activate \/ Restore \/ Restoring \/ BackendSpawn \/
              BackendStop \/ Damage
         /\ pc' \in {"fetch"} =>
              BeginUpdate \/ FetchWrites \/ StageWrite \/ BackendSpawn \/ BackendStop \/
              Damage
         /\ pc' \in {"swap", "retire", "activate", "swapCleanup", "commitEnv", "dropPrevious",
              "removeTx"} =>
              SyncVerified \/ SwapRecord \/ Retire \/ Activate \/ SwapCleanup \/
              CommitEnvironment \/ DropPrevious \/ BackendSpawn \/ BackendStop \/ Damage
         /\ pc' \in StageLabels =>
              Classify \/ RecRemoveTx \/ FetchSucceeds \/ (\E o \in Op : BeginStage(o)) \/
              StageOpen \/ BackendSpawn \/ BackendStop \/ Damage
<1>1. CASE \E v \in Version, o \in Op : BeginSync(v, o)
  <2>1. PICK v \in Version, o \in Op : BeginSync(v, o)
    BY <1>1
  <2>2. /\ pc' = "recover" /\ job' \in Job /\ job'.cmd = "sync" /\ job'.op = o
             /\ job'.version = v /\ ~job'.discard
             /\ job'.onSuccess = "syncOpen" /\ job'.onFailure = "idle"
    BY <2>1, SyncBegins
  <2> HIDE <1>1
  <2> QED BY <2>1, <2>2 DEF BeginSync, Unused, IndInv, TypeOK, RecoveryLabels, StageLabels
<1>2. CASE SyncOpen
  BY <1>2, SyncOpenStep DEF IndInv, RecoveryLabels, StageLabels
<1>3. CASE SyncCheck
  BY <1>3, SyncCheckStep DEF IndInv, StageLabels
<1>4. CASE SyncFails
  BY <1>4, FinishStep DEF SyncFails, IndInv, TypeOK, RecoveryLabels, StageLabels
<1>5. CASE UsePrepared
  BY <1>5, UsePreparedStep DEF IndInv, RecoveryLabels, StageLabels
<1>6. CASE KeepCurrent
  BY <1>6 DEF KeepCurrent, Goto, RecoveryLabels, StageLabels
<1>7. CASE BeginUpdate
  BY <1>7, BeginUpdateStep DEF IndInv, RecoveryLabels, StageLabels
<1>8. CASE SyncVerified
  BY <1>8, SyncVerifiedStep DEF IndInv, StageLabels
<1>9. CASE FinishPreSwap
  BY <1>9, ReturnStep DEF FinishPreSwap, RecoveryLabels, StageLabels
<1>10. CASE Classify
  BY <1>10, ClassifyStep, JobFields
<1>11. CASE RecDropUpdate
  BY <1>11, RecoverFailsStep DEF RecDropUpdate, DropTree, Goto, IndInv, TypeOK, StageLabels
<1>12. CASE RecDropPrevious
  BY <1>12, RecoverFailsStep DEF RecDropPrevious, DropTree, Goto, IndInv, TypeOK, StageLabels
<1>13. CASE RecRollback
  BY <1>13, RecoverFailsStep DEF RecRollback, Goto, IndInv, TypeOK, StageLabels
<1>14. CASE RecActivate
  BY <1>14, RecoverFailsStep DEF RecActivate, Goto, IndInv, TypeOK, StageLabels
<1>15. CASE RecWriteEnv
  BY <1>15, RecoverFailsStep DEF RecWriteEnv, Goto, IndInv, TypeOK, StageLabels
<1>16. CASE RecRemoveTx
  BY <1>16, RecoverReturnsStep, RecoverFailsStep, JobFields
     DEF RecRemoveTx, IndInv, TypeOK, RecoveryLabels
<1>17. CASE FetchWrites
  BY <1>17 DEF FetchWrites, IndInv, TypeOK, RecoveryLabels, StageLabels
<1>18. CASE FetchSucceeds
  BY <1>18, FetchSucceedsStep DEF IndInv, RecoveryLabels
<1>19. CASE FetchFails
  BY <1>19, FinishStep, CallStep DEF FetchFails, IndInv, TypeOK, RecoveryLabels, StageLabels
<1>20. CASE SwapRecord
  BY <1>20, SwapRecordStep DEF IndInv, RecoveryLabels, StageLabels
<1>21. CASE Retire
  BY <1>21, PartialStep, FinishStep DEF Retire, Goto, IndInv, TypeOK, StageLabels
<1>22. CASE Activate
  BY <1>22, ReturnStep, FinishStep, PartialStep DEF Activate, Goto, IndInv, TypeOK, StageLabels
<1>23. CASE SwapCleanup
  BY <1>23, SwapCleanupStep DEF IndInv, RecoveryLabels, StageLabels
<1>24. CASE CommitEnvironment
  BY <1>24, ReturnStep DEF CommitEnvironment, Goto, RecoveryLabels, StageLabels
<1>25. CASE DropPrevious
  BY <1>25, ReturnStep DEF DropPrevious, Goto, RecoveryLabels, StageLabels
<1>26. CASE RemoveTx
  BY <1>26, ReturnStep DEF RemoveTx, Goto, RecoveryLabels, StageLabels
<1>27. CASE RemoveMutation
  BY <1>27, ReturnStep DEF RemoveMutation, RecoveryLabels, StageLabels
<1>28. CASE Restore
  BY <1>28, FinishStep DEF Restore, Goto, IndInv, TypeOK, RecoveryLabels, StageLabels
<1>29. CASE Restoring
  BY <1>29, FinishStep DEF Restoring, Goto, IndInv, TypeOK, RecoveryLabels, StageLabels
<1>30. CASE \E o \in Op : BeginStage(o)
  <2>1. PICK o \in Op : BeginStage(o)
    BY <1>30
  <2>2. /\ pc' = "stageOpen" /\ job' \in Job /\ job'.cmd = "stage" /\ job'.op = o
             /\ Carries(job'.check, job'.version) /\ job'.version \in Version
             /\ Holds(repo, job'.check)
    BY <2>1, StageBegins DEF IndInv, TypeOK
  <2> HIDE <1>30
  <2> QED BY <2>1, <2>2 DEF BeginStage, Unused, IndInv, TypeOK, RecoveryLabels, StageLabels
<1>31. CASE StageOpen
  BY <1>31, CallStep, ReturnStep DEF StageOpen, Goto, IndInv, TypeOK, RecoveryLabels, StageLabels
<1>32. CASE StageWrite
  BY <1>32, StageWriteStep DEF IndInv, RecoveryLabels, StageLabels
<1>33. CASE StageVerified
  BY <1>33, StageVerifiedStep DEF IndInv, StageLabels
<1>34. CASE PrepareSucceeds
  BY <1>34 DEF PrepareSucceeds, RecoveryLabels, StageLabels
<1>35. CASE PrepareFails
  BY <1>35 DEF PrepareFails, RecoveryLabels, StageLabels
<1>36. CASE Cleanup
  BY <1>36 DEF Cleanup, RecoveryLabels, StageLabels
<1>37. CASE BackendCheck
  BY <1>37 DEF BackendCheck, RecoveryLabels, StageLabels
<1>38. CASE BackendSpawn
  BY <1>38 DEF BackendSpawn
<1>39. CASE BackendStop
  BY <1>39 DEF BackendStop
<1>40. CASE Crash
  BY <1>40, ReturnStep DEF Crash, RecoveryLabels, StageLabels
<1>41. CASE Damage
  BY <1>41 DEF Damage
<1> QED
  BY <1>1, <1>2, <1>3, <1>4, <1>5, <1>6, <1>7, <1>8, <1>9, <1>10, <1>11, <1>12, <1>13, <1>14,
     <1>15, <1>16, <1>17, <1>18, <1>19, <1>20, <1>21, <1>22, <1>23, <1>24, <1>25, <1>26, <1>27,
     <1>28, <1>29, <1>30, <1>31, <1>32, <1>33, <1>34, <1>35, <1>36, <1>37, <1>38, <1>39, <1>40,
     <1>41 DEF Next, Sync, Recover, Fetch, Swap, Stage

(* Every step keeps the types.                                             *)
LEMMA TypesKept ==
  ASSUME IndInv, Next
  PROVE  TypeOK'
<1>1. CASE \E v \in Version, o \in Op : BeginSync(v, o)
  <2>1. PICK v \in Version, o \in Op : BeginSync(v, o)
    BY <1>1
  <2>2. /\ pc' = "recover" /\ job' \in Job /\ job'.cmd = "sync" /\ job'.op = o
             /\ job'.version = v /\ ~job'.discard
             /\ job'.onSuccess = "syncOpen" /\ job'.onFailure = "idle"
    BY <2>1, SyncBegins
  <2> HIDE <1>1
  <2> QED BY <2>1, <2>2, EnvFields DEF BeginSync, Unused, IndInv, TypeOK, disk
<1>2. CASE SyncOpen
  BY <1>2, SyncOpenStep DEF IndInv, TypeOK
<1>3. CASE SyncCheck
  BY <1>3, SyncCheckStep DEF IndInv, TypeOK, disk
<1>4. CASE SyncFails
  BY <1>4, FinishStep DEF SyncFails, IndInv, TypeOK, disk
<1>5. CASE UsePrepared
  BY <1>5, UsePreparedStep DEF IndInv, TypeOK, disk, Swapping
<1>6. CASE KeepCurrent
  BY <1>6 DEF KeepCurrent, Goto, IndInv, TypeOK, disk
<1>7. CASE BeginUpdate
  BY <1>7, BeginUpdateStep DEF IndInv, TypeOK
<1>8. CASE SyncVerified
  BY <1>8, SyncVerifiedStep DEF IndInv, TypeOK
<1>9. CASE FinishPreSwap
  BY <1>9, ReturnStep, Records DEF FinishPreSwap, MayWriteTx, IndInv, TypeOK, Swapping
<1>10. CASE Classify
  BY <1>10, ClassifyStep, JobFields DEF IndInv, TypeOK, disk
<1>11. CASE RecDropUpdate
  BY <1>11, RecoverFailsStep, ErodedTree, TreeKinds
     DEF RecDropUpdate, DropTree, Goto, IndInv, TypeOK, Swapping
<1>12. CASE RecDropPrevious
  BY <1>12, RecoverFailsStep, ErodedTree, TreeKinds
     DEF RecDropPrevious, DropTree, Goto, IndInv, TypeOK, Swapping
<1>13. CASE RecRollback
  BY <1>13, RecoverFailsStep DEF RecRollback, Goto, IndInv, TypeOK, TxInv, RecoveryInv, Swapping
<1>14. CASE RecActivate
  <2>1. Broken(env.last, updateTx.target, "changed") \in Environment
    BY EnvFields, TxFields, JobFields, BrokenFields DEF IndInv, TypeOK
  <2> QED
    BY <1>14, <2>1, RecoverFailsStep
       DEF RecActivate, Goto, IndInv, TypeOK, RecoveryInv, Swapping, TxInv
<1>15. CASE RecWriteEnv
  <2>1. Broken(env.last, updateTx.target, "changed") \in Environment
    BY EnvFields, TxFields, JobFields, BrokenFields DEF IndInv, TypeOK
  <2> QED BY <1>15, <2>1, RecoverFailsStep DEF RecWriteEnv, Goto, IndInv, TypeOK
<1>16. CASE RecRemoveTx
  BY <1>16, RecoverReturnsStep, RecoverFailsStep, Records, JobFields
     DEF RecRemoveTx, MayWriteTx, IndInv, TypeOK
<1>17. CASE FetchWrites
  BY <1>17, UnfinishedTree DEF FetchWrites, IndInv, TypeOK, JobInv
<1>18. CASE FetchSucceeds
  BY <1>18, FetchSucceedsStep, CommitTrees DEF IndInv, TypeOK, Carries
<1>19. CASE FetchFails
  BY <1>19, FinishStep, CallStep, TreeKinds DEF FetchFails, IndInv, TypeOK, disk, JobInv
<1>20. CASE SwapRecord
  BY <1>20, SwapRecordStep DEF IndInv, TypeOK
<1>21. CASE Retire
  BY <1>21, PartialStep, FinishStep, TreeKinds DEF Retire, Goto, IndInv, TypeOK, Swapping
<1>22. CASE Activate
  BY <1>22, ReturnStep, FinishStep, PartialStep
     DEF Activate, Goto, IndInv, TypeOK, TxInv, SwapInv, Swapping
<1>23. CASE SwapCleanup
  BY <1>23, SwapCleanupStep DEF IndInv, TypeOK
<1>24. CASE CommitEnvironment
  <2>1. Broken(job.last, job.got, "changed") \in Environment
    BY EnvFields, TxFields, JobFields, BrokenFields DEF IndInv, TypeOK
  <2> QED BY <1>24, <2>1, ReturnStep DEF CommitEnvironment, Goto, IndInv, TypeOK
<1>25. CASE DropPrevious
  BY <1>25, ReturnStep, ErodedTree, TreeKinds DEF DropPrevious, Goto, IndInv, TypeOK, Swapping
<1>26. CASE RemoveTx
  BY <1>26, ReturnStep, Records DEF RemoveTx, Goto, MayWriteTx, IndInv, TypeOK
<1>27. CASE RemoveMutation
  BY <1>27, ReturnStep DEF RemoveMutation, IndInv, TypeOK
<1>28. CASE Restore
  <2>1. Broken(job.last, job.check, "changed") \in Environment
    BY EnvFields, TxFields, JobFields, BrokenFields DEF IndInv, TypeOK
  <2> QED BY <1>28, <2>1, FinishStep DEF Restore, Goto, IndInv, TypeOK
<1>29. CASE Restoring
  BY <1>29, FinishStep, ValidTree, CommitTrees DEF Restoring, Goto, IndInv, TypeOK
<1>30. CASE \E o \in Op : BeginStage(o)
  <2>1. PICK o \in Op : BeginStage(o)
    BY <1>30
  <2>2. /\ pc' = "stageOpen" /\ job' \in Job /\ job'.cmd = "stage" /\ job'.op = o
             /\ Carries(job'.check, job'.version) /\ job'.version \in Version
             /\ Holds(repo, job'.check)
    BY <2>1, StageBegins DEF IndInv, TypeOK
  <2> HIDE <1>30
  <2> QED BY <2>1, <2>2 DEF BeginStage, IndInv, TypeOK, disk
<1>31. CASE StageOpen
  BY <1>31, CallStep, ReturnStep DEF StageOpen, Goto, IndInv, TypeOK, disk
<1>32. CASE StageWrite
  BY <1>32, StageWriteStep DEF IndInv, TypeOK
<1>33. CASE StageVerified
  BY <1>33, StageVerifiedStep DEF IndInv, TypeOK
<1>34. CASE PrepareSucceeds
  BY <1>34, ReadyFields, ValidTree DEF PrepareSucceeds, IndInv, TypeOK
<1>35. CASE PrepareFails
  <2>1. PICK c \in {Healthy(repo), ActiveRevision} \ {None} : env' = Broken(env.last, c, "failed")
    BY <1>35 DEF PrepareFails
  <2>2. c \in Commit \cup {None}
    BY <2>1, HealthyTree, EnvFields DEF IndInv, TypeOK, ActiveRevision
  <2>3. env' \in Environment
    BY <2>1, <2>2, EnvFields, BrokenFields DEF IndInv, TypeOK
  <2> QED BY <1>35, <2>3 DEF PrepareFails, IndInv, TypeOK
<1>36. CASE Cleanup
  BY <1>36, ErodedTree, TreeKinds DEF Cleanup, IndInv, TypeOK, TxInv, Swapping
<1>37. CASE BackendCheck
  BY <1>37 DEF BackendCheck, IndInv, TypeOK, disk
<1>38. CASE BackendSpawn
  BY <1>38 DEF BackendSpawn, IndInv, TypeOK, disk
<1>39. CASE BackendStop
  BY <1>39 DEF BackendStop, IndInv, TypeOK, disk
<1>40. CASE Crash
  BY <1>40, ReturnStep DEF Crash, IndInv, TypeOK, disk
<1>41. CASE Damage
  BY <1>41, ValidTree, CommitTrees, TreeKinds DEF Damage, IndInv, TypeOK
<1> QED
  BY <1>1, <1>2, <1>3, <1>4, <1>5, <1>6, <1>7, <1>8, <1>9, <1>10, <1>11, <1>12, <1>13, <1>14,
     <1>15, <1>16, <1>17, <1>18, <1>19, <1>20, <1>21, <1>22, <1>23, <1>24, <1>25, <1>26, <1>27,
     <1>28, <1>29, <1>30, <1>31, <1>32, <1>33, <1>34, <1>35, <1>36, <1>37, <1>38, <1>39, <1>40,
     <1>41 DEF Next, Sync, Recover, Fetch, Swap, Stage

(* A directory of an operation appears with its transaction and goes       *)
(* before it.                                                              *)
LEMMA NamedKept ==
  ASSUME IndInv, Next
  PROVE  EveryTreeIsNamed'
<1>1. CASE BeginUpdate
  BY <1>1, BeginUpdateStep DEF IndInv, EveryTreeIsNamed, Swapping, SyncInv, StagedOnly
<1>2. CASE SyncVerified
  BY <1>2, SyncVerifiedStep DEF IndInv, EveryTreeIsNamed, Swapping
<1>3. CASE FinishPreSwap
  BY <1>3 DEF FinishPreSwap, IndInv, EveryTreeIsNamed, TreesInv, Swapping, Staged, SyncInv, Preserve
<1>4. CASE RecDropUpdate
  BY <1>4, ErodedTree DEF RecDropUpdate, DropTree, IndInv, EveryTreeIsNamed, TypeOK, Swapping
<1>5. CASE RecDropPrevious
  BY <1>5, Records, VersionsOfCommits
     DEF RecDropPrevious, DropTree, IndInv, EveryTreeIsNamed, TypeOK, TxInv, Swapping
<1>6. CASE RecRollback
  BY <1>6 DEF RecRollback, IndInv, EveryTreeIsNamed, TypeOK, Swapping
<1>7. CASE RecActivate
  BY <1>7 DEF RecActivate, IndInv, EveryTreeIsNamed, TypeOK, Swapping
<1>8. CASE RecRemoveTx
  BY <1>8 DEF RecRemoveTx, IndInv, EveryTreeIsNamed, Swapping, Staged, Retired, RecoveryInv
<1>9. CASE FetchWrites
  BY <1>9 DEF FetchWrites, IndInv, EveryTreeIsNamed, Swapping, FetchInv
<1>10. CASE FetchSucceeds
  BY <1>10, FetchSucceedsStep DEF IndInv, EveryTreeIsNamed, TypeOK, Swapping, FetchInv
<1>11. CASE FetchFails
  BY <1>11 DEF FetchFails, IndInv, EveryTreeIsNamed, TypeOK, Swapping
<1>12. CASE SwapRecord
  BY <1>12, SwapRecordStep DEF IndInv, EveryTreeIsNamed, Swapping
<1>13. CASE Retire
  BY <1>13 DEF Retire, IndInv, EveryTreeIsNamed, TypeOK, Swapping, SwapInv
<1>14. CASE Activate
  BY <1>14 DEF Activate, IndInv, EveryTreeIsNamed, TypeOK, Swapping
<1>15. CASE SwapCleanup
  BY <1>15, SwapCleanupStep DEF IndInv, EveryTreeIsNamed, Swapping
<1>16. CASE DropPrevious
  BY <1>16 DEF DropPrevious, IndInv, EveryTreeIsNamed, TypeOK, Swapping, SwapInv
<1>17. CASE RemoveTx
  BY <1>17 DEF RemoveTx, IndInv, EveryTreeIsNamed, Swapping, Staged, Retired, SwapInv
<1>18. CASE StageWrite
  BY <1>18, StageWriteStep DEF IndInv, EveryTreeIsNamed, Swapping, StageInv
<1>19. CASE StageVerified
  BY <1>19, StageVerifiedStep DEF IndInv, EveryTreeIsNamed, Swapping
<1>20. CASE Cleanup
  BY <1>20 DEF Cleanup, IndInv, EveryTreeIsNamed, Swapping
<1>21. CASE UNCHANGED <<update, previous, updateTx>>
  BY <1>21 DEF IndInv, EveryTreeIsNamed, Swapping
<1> QED
  BY <1>1, <1>2, <1>3, <1>4, <1>5, <1>6, <1>7, <1>8, <1>9, <1>10, <1>11, <1>12, <1>13, <1>14,
     <1>15, <1>16, <1>17, <1>18, <1>19, <1>20, <1>21, Writers

(* The stages of update.json and what is known at each of them.            *)
LEMMA TxKept ==
  ASSUME IndInv, Next
  PROVE  TxInv'
<1>1. CASE BeginUpdate
  BY <1>1, BeginUpdateStep DEF IndInv, TxInv, JobInv, Swapping
<1>2. CASE SyncVerified
  BY <1>2, SyncVerifiedStep DEF IndInv, TxInv, JobInv, SyncInv, Swapping
<1>3. CASE FinishPreSwap
  BY <1>3, Records DEF FinishPreSwap, MayWriteTx, IndInv, TxInv
<1>4. CASE RecRemoveTx
  BY <1>4, Records DEF RecRemoveTx, MayWriteTx, IndInv, TxInv
<1>5. CASE SwapRecord
  BY <1>5, SwapRecordStep DEF IndInv, TxInv, SwapInv, Swapping
<1>6. CASE SwapCleanup
  BY <1>6, SwapCleanupStep DEF IndInv, TxInv, SwapInv, Swapping
<1>7. CASE RemoveTx
  BY <1>7, Records DEF RemoveTx, MayWriteTx, IndInv, TxInv
<1>8. CASE StageWrite
  BY <1>8, StageWriteStep, VersionsOfCommits DEF IndInv, TxInv, Carries, JobInv, StageInv, Swapping
<1>9. CASE StageVerified
  BY <1>9, StageVerifiedStep DEF IndInv, TxInv, StageInv, Swapping
<1>10. CASE UNCHANGED <<updateTx>>
  BY <1>10 DEF IndInv, TxInv
<1> QED BY <1>1, <1>2, <1>3, <1>4, <1>5, <1>6, <1>7, <1>8, <1>9, <1>10, Writers

(* The directories at the stages of a swap.                                *)
LEMMA TreesKept ==
  ASSUME IndInv, Next
  PROVE  TreesInv'
<1>1. CASE BeginUpdate
  BY <1>1, BeginUpdateStep DEF IndInv, TreesInv, Swapping, Staged, SyncInv, StagedOnly
<1>2. CASE SyncVerified
  BY <1>2, SyncVerifiedStep DEF IndInv, TreesInv, Swapping, SyncInv, StagedOnly
<1>3. CASE FinishPreSwap
  BY <1>3, Records
     DEF FinishPreSwap, MayWriteTx, IndInv, TreesInv, Swapping, Staged, Retired, SyncInv,
         Preserve
<1>4. CASE RecDropUpdate
  BY <1>4, TreeKinds, ErodedTree
     DEF RecDropUpdate, DropTree, IndInv, TypeOK, TreesInv, Holds, Swapping, Staged, Retired
<1>5. CASE RecDropPrevious
  BY <1>5, ErodedTree, ValidTree
     DEF RecDropPrevious, DropTree, IndInv, TypeOK, TreesInv, Holds, Swapping, Staged, Retired
<1>6. CASE RecRollback
  BY <1>6, TreeKinds
     DEF RecRollback, IndInv, TypeOK, TreesInv, Holds, Swapping, Staged, Retired, RecoveryInv,
         EveryTreeIsNamed
<1>7. CASE RecActivate
  BY <1>7, TreeKinds
     DEF RecActivate, IndInv, TypeOK, TxInv, TreesInv, Holds, Swapping, Staged, Retired,
         RecoveryInv
<1>8. CASE RecRemoveTx
  BY <1>8, Records
     DEF RecRemoveTx, MayWriteTx, IndInv, TreesInv, Swapping, Staged, Retired, RecoveryInv,
         EveryTreeIsNamed
<1>9. CASE FetchWrites
  BY <1>9 DEF FetchWrites, IndInv, TreesInv, Swapping, FetchInv
<1>10. CASE FetchSucceeds
  BY <1>10, FetchSucceedsStep DEF IndInv, TreesInv, Swapping, FetchInv
<1>11. CASE FetchFails
  BY <1>11 DEF FetchFails, IndInv, TreesInv, Swapping, FetchInv
<1>12. CASE SwapRecord
  BY <1>12, SwapRecordStep, TreeKinds
     DEF IndInv, TxInv, TreesInv, Holds, Swapping, Staged, Retired, SwapInv
<1>13. CASE Retire
  BY <1>13 DEF Retire, IndInv, TypeOK, TreesInv, Holds, Swapping, Staged, Retired, SwapInv
<1>14. CASE Activate
  BY <1>14, TreeKinds
     DEF Activate, IndInv, TypeOK, TreesInv, Holds, Swapping, Staged, Retired, SwapInv,
         EveryTreeIsNamed
<1>15. CASE SwapCleanup
  BY <1>15, SwapCleanupStep DEF IndInv, TreesInv, Swapping, Staged, Retired, SwapInv
<1>16. CASE DropPrevious
  BY <1>16, ErodedTree, ValidTree
     DEF DropPrevious, IndInv, TypeOK, TreesInv, Holds, Swapping, Staged, Retired
<1>17. CASE RemoveTx
  BY <1>17, Records
     DEF RemoveTx, MayWriteTx, IndInv, TreesInv, Swapping, Staged, Retired, SwapInv,
         EveryTreeIsNamed
<1>18. CASE Restoring
  BY <1>18, ValidTree, CommitTrees
     DEF Restoring, IndInv, TypeOK, TreesInv, Holds, Swapping, Staged, SyncInv
<1>19. CASE StageWrite
  BY <1>19, StageWriteStep DEF IndInv, TreesInv, Swapping, Staged, StageInv
<1>20. CASE StageVerified
  BY <1>20, StageVerifiedStep DEF IndInv, TreesInv, Swapping, StageInv
<1>21. CASE Cleanup
  BY <1>21, TreeKinds, ErodedTree
     DEF Cleanup, IndInv, TypeOK, TreesInv, Holds, Swapping, Staged, Retired
<1>22. CASE Damage
  BY <1>22, TreeKinds, ValidTree, CommitTrees
     DEF Damage, IndInv, TypeOK, TreesInv, Holds, Swapping, Staged, Retired
<1>23. CASE UNCHANGED <<repo, update, previous, updateTx>>
  BY <1>23 DEF IndInv, TreesInv, Swapping, Staged, Retired
<1> QED
  BY <1>1, <1>2, <1>3, <1>4, <1>5, <1>6, <1>7, <1>8, <1>9, <1>10, <1>11, <1>12, <1>13, <1>14,
     <1>15, <1>16, <1>17, <1>18, <1>19, <1>20, <1>21, <1>22, <1>23, Writers

(* A ready environment belongs to the repository in place, or an owner is  *)
(* on the way.                                                             *)
LEMMA EnvKept ==
  ASSUME IndInv, Next
  PROVE  EnvInv' /\ NeverWithoutARepository'
<1>1. CASE BeginUpdate
  BY <1>1, BeginUpdateStep
     DEF IndInv, EnvInv, NeverWithoutARepository, activeTree, Fresh, Swapping, SyncInv,
         StagedOnly
<1>2. CASE SyncVerified
  BY <1>2, SyncVerifiedStep
     DEF IndInv, EnvInv, NeverWithoutARepository, activeTree, Fresh, Swapping, SyncInv,
         StagedOnly
<1>3. CASE FinishPreSwap
  BY <1>3
     DEF FinishPreSwap, IndInv, EnvInv, NeverWithoutARepository, activeTree, Fresh, Swapping,
         Staged, SyncInv, Preserve
<1>4. CASE RecDropPrevious
  BY <1>4 DEF RecDropPrevious, IndInv, EnvInv, NeverWithoutARepository, Fresh, Swapping, RecoveryInv
<1>5. CASE RecRollback
  BY <1>5
     DEF RecRollback, IndInv, EnvInv, NeverWithoutARepository, activeTree, Fresh, Swapping,
         RecoveryInv
<1>6. CASE RecActivate
  <2>1. env' = env \/ env'.status = "broken"
    BY <1>6 DEF RecActivate, Broken
  <2> QED
    BY <1>6, <2>1, TreeKinds
       DEF RecActivate, IndInv, EnvInv, NeverWithoutARepository, activeTree, Fresh, Swapping,
           Staged, RecoveryInv
<1>7. CASE RecWriteEnv
  <2>1. env' = env \/ env'.status = "broken"
    BY <1>7 DEF RecWriteEnv, Broken
  <2> QED
    BY <1>7, <2>1
       DEF RecWriteEnv, IndInv, EnvInv, NeverWithoutARepository, activeTree, Fresh, Swapping,
           RecoveryInv
<1>8. CASE RecRemoveTx
  BY <1>8
     DEF RecRemoveTx, IndInv, EnvInv, NeverWithoutARepository, activeTree, Fresh, Swapping,
         Retired, RecoveryInv
<1>9. CASE SwapRecord
  BY <1>9, SwapRecordStep DEF IndInv, EnvInv, NeverWithoutARepository, activeTree, Fresh, Swapping
<1>10. CASE Retire
  BY <1>10
     DEF Retire, IndInv, TypeOK, TreesInv, EnvInv, NeverWithoutARepository, activeTree, Fresh,
         Holds, Swapping, Staged, Retired, SwapInv, EveryTreeIsNamed
<1>11. CASE Activate
  BY <1>11
     DEF Activate, IndInv, EnvInv, NeverWithoutARepository, activeTree, Fresh, Swapping, Staged,
         SwapInv
<1>12. CASE SwapCleanup
  BY <1>12, SwapCleanupStep
     DEF IndInv, EnvInv, NeverWithoutARepository, activeTree, Fresh, Swapping, SwapInv
<1>13. CASE CommitEnvironment
  <2>1. env' = env \/ env'.status = "broken"
    BY <1>13 DEF CommitEnvironment, Broken
  <2> QED
    BY <1>13, <2>1
       DEF CommitEnvironment, IndInv, EnvInv, NeverWithoutARepository, activeTree, Fresh,
           Swapping, SwapInv
<1>14. CASE DropPrevious
  BY <1>14 DEF DropPrevious, IndInv, EnvInv, NeverWithoutARepository, Fresh, Swapping, SwapInv
<1>15. CASE RemoveTx
  BY <1>15 DEF RemoveTx, IndInv, EnvInv, NeverWithoutARepository, Fresh, Swapping, SwapInv
<1>16. CASE Restore
  <2>1. env' = env \/ env'.status = "broken"
    BY <1>16 DEF Restore, Broken
  <2> QED
    BY <1>16, <2>1, ValidTree
       DEF Restore, IndInv, TypeOK, EnvInv, NeverWithoutARepository, activeTree, Fresh, Swapping
<1>17. CASE Restoring
  BY <1>17, ValidTree, CommitTrees
     DEF Restoring, IndInv, TypeOK, EnvInv, NeverWithoutARepository, activeTree, Fresh, Holds,
         Swapping
<1>18. CASE StageWrite
  BY <1>18, StageWriteStep
     DEF IndInv, EnvInv, NeverWithoutARepository, activeTree, Fresh, Swapping, StageInv
<1>19. CASE StageVerified
  BY <1>19, StageVerifiedStep
     DEF IndInv, EnvInv, NeverWithoutARepository, activeTree, Fresh, Swapping, StageInv
<1>20. CASE PrepareSucceeds
  BY <1>20, ReadyFields, ValidTree
     DEF PrepareSucceeds, IndInv, TypeOK, EnvInv, NeverWithoutARepository, activeTree, Fresh,
         Holds, Swapping
<1>21. CASE PrepareFails
  <2>1. env'.status = "broken" /\ UNCHANGED <<repo, update, previous, updateTx>>
    BY <1>21 DEF PrepareFails, Broken
  <2>2. repo # Missing \/ env.status # "none"
    BY <1>21, TreeKinds DEF PrepareFails, Healthy, ActiveRevision, IndInv, EnvInv, NoEnvironment
  <2> QED BY <2>1, <2>2 DEF IndInv, EnvInv, NeverWithoutARepository, Fresh, Swapping
<1>22. CASE Damage
  BY <1>22, TreeKinds, ValidTree, CommitTrees
     DEF Damage, IndInv, TypeOK, EnvInv, NeverWithoutARepository, activeTree, Fresh, Holds,
         Swapping
<1>23. CASE UNCHANGED <<repo, previous, updateTx, env>>
  BY <1>23 DEF IndInv, EnvInv, NeverWithoutARepository, activeTree, Fresh, Swapping
<1> QED
  BY <1>1, <1>2, <1>3, <1>4, <1>5, <1>6, <1>7, <1>8, <1>9, <1>10, <1>11, <1>12, <1>13, <1>14,
     <1>15, <1>16, <1>17, <1>18, <1>19, <1>20, <1>21, <1>22, <1>23, Writers

(* A backend runs on an environment that was ready.                        *)
LEMMA BackendKept ==
  ASSUME IndInv, Next
  PROVE  BackendInv'
<1>1. CASE \E v \in Version, o \in Op : BeginSync(v, o)
  <2>1. PICK v \in Version, o \in Op : BeginSync(v, o)
    BY <1>1
  <2>2. /\ pc' = "recover" /\ job' \in Job /\ job'.cmd = "sync" /\ job'.op = o
             /\ job'.version = v /\ ~job'.discard
             /\ job'.onSuccess = "syncOpen" /\ job'.onFailure = "idle"
    BY <2>1, SyncBegins
  <2> HIDE <1>1
  <2> QED BY <2>1, <2>2 DEF BeginSync, BackendInv, RunningIsReady
<1>2. CASE SyncOpen
  BY <1>2, SyncOpenStep DEF IndInv, BackendInv, RunningIsReady, SameJob
<1>3. CASE SyncCheck
  BY <1>3, SyncCheckStep DEF IndInv, BackendInv, RunningIsReady, disk
<1>4. CASE SyncFails
  BY <1>4 DEF SyncFails, IndInv, BackendInv, RunningIsReady, JobInv, SyncLabels
<1>5. CASE UsePrepared
  BY <1>5, UsePreparedStep DEF IndInv, BackendInv, RunningIsReady, disk
<1>6. CASE KeepCurrent
  BY <1>6 DEF KeepCurrent, IndInv, BackendInv, RunningIsReady, JobInv, SyncLabels
<1>7. CASE BeginUpdate
  BY <1>7, BeginUpdateStep DEF IndInv, BackendInv, RunningIsReady, SameJob
<1>8. CASE SyncVerified
  BY <1>8, SyncVerifiedStep DEF IndInv, BackendInv, RunningIsReady, SameJob
<1>9. CASE FinishPreSwap
  BY <1>9 DEF FinishPreSwap, IndInv, BackendInv, RunningIsReady, JobInv, SyncLabels
<1>10. CASE Classify
  BY <1>10, ClassifyStep DEF IndInv, BackendInv, RunningIsReady, disk, SameJob
<1>11. CASE RecDropUpdate
  BY <1>11, RecoverFailsStep
     DEF RecDropUpdate, DropTree, IndInv, TypeOK, BackendInv, RunningIsReady, CallInv,
         RecoveryLabels
<1>12. CASE RecDropPrevious
  BY <1>12, RecoverFailsStep
     DEF RecDropPrevious, DropTree, IndInv, TypeOK, BackendInv, RunningIsReady, CallInv,
         RecoveryLabels
<1>13. CASE RecRollback
  BY <1>13
     DEF RecRollback, IndInv, BackendInv, RunningIsReady, CallInv, RecoveryInv, RecoveryLabels,
         Swapping
<1>14. CASE RecActivate
  BY <1>14
     DEF RecActivate, IndInv, BackendInv, RunningIsReady, CallInv, RecoveryInv, RecoveryLabels,
         Swapping
<1>15. CASE RecWriteEnv
  BY <1>15
     DEF RecWriteEnv, IndInv, BackendInv, RunningIsReady, CallInv, RecoveryInv, RecoveryLabels,
         Swapping
<1>16. CASE RecRemoveTx
  BY <1>16, RecoverReturnsStep, RecoverFailsStep
     DEF RecRemoveTx, IndInv, TypeOK, BackendInv, RunningIsReady, CallInv, RecoveryLabels
<1>17. CASE FetchWrites
  BY <1>17 DEF FetchWrites, IndInv, BackendInv, RunningIsReady
<1>18. CASE FetchSucceeds
  BY <1>18, FetchSucceedsStep DEF IndInv, BackendInv, RunningIsReady
<1>19. CASE FetchFails
  BY <1>19, FinishStep, CallStep
     DEF FetchFails, IndInv, TypeOK, BackendInv, RunningIsReady, disk, CallInv, JobInv,
         SyncLabels, StageLabels, RecoveryLabels, SameJob, FetchInv
<1>20. CASE SwapRecord
  BY <1>20, SwapRecordStep DEF IndInv, BackendInv, RunningIsReady, SameJob
<1>21. CASE Retire
  BY <1>21 DEF Retire, IndInv, BackendInv, RunningIsReady, JobInv, SyncLabels, Swapping
<1>22. CASE Activate
  BY <1>22 DEF Activate, IndInv, BackendInv, RunningIsReady, JobInv, SyncLabels, Swapping
<1>23. CASE SwapCleanup
  BY <1>23, SwapCleanupStep DEF IndInv, BackendInv, RunningIsReady
<1>24. CASE CommitEnvironment
  BY <1>24 DEF CommitEnvironment, IndInv, BackendInv, RunningIsReady, JobInv, SyncLabels, Swapping
<1>25. CASE DropPrevious
  BY <1>25, ReturnStep DEF DropPrevious, IndInv, BackendInv, RunningIsReady
<1>26. CASE RemoveTx
  BY <1>26, ReturnStep DEF RemoveTx, IndInv, BackendInv, RunningIsReady
<1>27. CASE RemoveMutation
  BY <1>27, ReturnStep DEF RemoveMutation, IndInv, BackendInv, RunningIsReady
<1>28. CASE Restore
  BY <1>28 DEF Restore, IndInv, BackendInv, RunningIsReady, JobInv, SyncLabels, Swapping
<1>29. CASE Restoring
  BY <1>29 DEF Restoring, IndInv, BackendInv, RunningIsReady, JobInv, SyncLabels, Swapping
<1>30. CASE \E o \in Op : BeginStage(o)
  <2>1. PICK o \in Op : BeginStage(o)
    BY <1>30
  <2>2. /\ pc' = "stageOpen" /\ job' \in Job /\ job'.cmd = "stage" /\ job'.op = o
             /\ Carries(job'.check, job'.version) /\ job'.version \in Version
             /\ Holds(repo, job'.check)
    BY <2>1, StageBegins DEF IndInv, TypeOK
  <2> HIDE <1>30
  <2> QED BY <2>1, <2>2 DEF BeginStage, IndInv, BackendInv, RunningIsReady, disk
<1>31. CASE StageOpen
  BY <1>31, CallStep, ReturnStep
     DEF StageOpen, Goto, IndInv, TypeOK, BackendInv, RunningIsReady, disk, CallInv, JobInv,
         SyncLabels, StageLabels, RecoveryLabels, SameJob
<1>32. CASE StageWrite
  BY <1>32, StageWriteStep DEF IndInv, BackendInv, RunningIsReady
<1>33. CASE StageVerified
  BY <1>33, StageVerifiedStep DEF IndInv, BackendInv, RunningIsReady, SameJob
<1>34. CASE PrepareSucceeds
  BY <1>34 DEF PrepareSucceeds, BackendInv, RunningIsReady
<1>35. CASE PrepareFails
  BY <1>35 DEF PrepareFails, BackendInv, RunningIsReady
<1>36. CASE Cleanup
  BY <1>36 DEF Cleanup, BackendInv, RunningIsReady
<1>37. CASE BackendCheck
  BY <1>37 DEF BackendCheck, BackendInv, RunningIsReady
<1>38. CASE BackendSpawn
  BY <1>38, ValidTree DEF BackendSpawn, Startable, IndInv, TypeOK, BackendInv, RunningIsReady, disk
<1>39. CASE BackendStop
  BY <1>39 DEF BackendStop, BackendInv, RunningIsReady
<1>40. CASE Crash
  BY <1>40, ReturnStep DEF Crash, IndInv, BackendInv, RunningIsReady, disk
<1>41. CASE Damage
  BY <1>41, CommitTrees, TreeKinds DEF Damage, IndInv, BackendInv, RunningIsReady
<1> QED
  BY <1>1, <1>2, <1>3, <1>4, <1>5, <1>6, <1>7, <1>8, <1>9, <1>10, <1>11, <1>12, <1>13, <1>14,
     <1>15, <1>16, <1>17, <1>18, <1>19, <1>20, <1>21, <1>22, <1>23, <1>24, <1>25, <1>26, <1>27,
     <1>28, <1>29, <1>30, <1>31, <1>32, <1>33, <1>34, <1>35, <1>36, <1>37, <1>38, <1>39, <1>40,
     <1>41 DEF Next, Sync, Recover, Fetch, Swap, Stage

(* What a command has learned stays true until it uses it.                 *)
LEMMA JobKept ==
  ASSUME IndInv, Next
  PROVE  JobInv'
<1>1. CASE \E v \in Version, o \in Op : BeginSync(v, o)
  <2>1. PICK v \in Version, o \in Op : BeginSync(v, o)
    BY <1>1
  <2>2. /\ pc' = "recover" /\ job' \in Job /\ job'.cmd = "sync" /\ job'.op = o
             /\ job'.version = v /\ ~job'.discard
             /\ job'.onSuccess = "syncOpen" /\ job'.onFailure = "idle"
    BY <2>1, SyncBegins
  <2> HIDE <1>1
  <2> QED BY <2>1, <2>2 DEF JobInv, StageLabels
<1>2. CASE SyncOpen
  BY <1>2, SyncOpenStep DEF IndInv, JobInv, SyncLabels, StageLabels, SameJob
<1>3. CASE SyncCheck
  BY <1>3, SyncCheckStep DEF IndInv, JobInv, SyncLabels, StageLabels
<1>4. CASE SyncFails
  BY <1>4, FinishStep DEF SyncFails, IndInv, TypeOK, JobInv, SyncLabels, StageLabels, SameJob
<1>5. CASE UsePrepared
  BY <1>5, UsePreparedStep DEF IndInv, JobInv, SyncLabels, StageLabels, TxInv
<1>6. CASE KeepCurrent
  BY <1>6 DEF KeepCurrent, Goto, IndInv, JobInv, SyncLabels, StageLabels
<1>7. CASE BeginUpdate
  BY <1>7, BeginUpdateStep DEF IndInv, JobInv, SyncLabels, StageLabels, SameJob
<1>8. CASE SyncVerified
  BY <1>8, SyncVerifiedStep DEF IndInv, JobInv, SyncLabels, StageLabels, SameJob
<1>9. CASE FinishPreSwap
  BY <1>9, ReturnStep DEF FinishPreSwap, JobInv, SyncLabels, StageLabels
<1>10. CASE Classify
  <2>1. /\ pc = "recover" /\ job.op \in Op /\ job.version \in Version
        /\ job.onSuccess \in {"syncOpen", "syncPlan", "restore", "finish"} => job.cmd = "sync"
        /\ job.onSuccess = "stageWrite" => job.cmd = "stage"
        /\ job.onFailure = "finish" => job.cmd = "sync"
    BY <1>10, ClassifyStep DEF IndInv, JobInv, CallInv, RecoveryLabels
  <2>2. job.onSuccess \in {"idle", "syncOpen", "syncPlan", "restore", "finish", "stageWrite"}
    BY JobFields DEF IndInv, TypeOK
  <2> QED BY <1>10, <2>1, <2>2, ClassifyStep DEF JobInv, SyncLabels, StageLabels, SameJob
<1>11. CASE RecDropUpdate
  BY <1>11, RecoverFailsStep
     DEF RecDropUpdate, DropTree, Goto, IndInv, TypeOK, JobInv, SyncLabels, StageLabels, SameJob,
         CallInv, RecoveryLabels
<1>12. CASE RecDropPrevious
  BY <1>12, RecoverFailsStep
     DEF RecDropPrevious, DropTree, Goto, IndInv, TypeOK, JobInv, SyncLabels, StageLabels,
         SameJob, CallInv, RecoveryLabels
<1>13. CASE RecRollback
  BY <1>13, RecoverFailsStep
     DEF RecRollback, Goto, IndInv, TypeOK, JobInv, SyncLabels, StageLabels, SameJob, CallInv,
         RecoveryLabels
<1>14. CASE RecActivate
  BY <1>14, RecoverFailsStep
     DEF RecActivate, Goto, IndInv, TypeOK, JobInv, SyncLabels, StageLabels, SameJob, CallInv,
         RecoveryLabels
<1>15. CASE RecWriteEnv
  BY <1>15, RecoverFailsStep
     DEF RecWriteEnv, Goto, IndInv, TypeOK, JobInv, SyncLabels, StageLabels, SameJob, CallInv,
         RecoveryLabels
<1>16. CASE RecRemoveTx
  BY <1>16, RecoverReturnsStep, RecoverFailsStep
     DEF RecRemoveTx, IndInv, TypeOK, JobInv, SyncLabels, StageLabels, SameJob, CallInv,
         RecoveryLabels
<1>17. CASE FetchWrites
  BY <1>17 DEF FetchWrites, IndInv, JobInv
<1>18. CASE FetchSucceeds
  BY <1>18, FetchSucceedsStep DEF IndInv, JobInv, SyncLabels, StageLabels, FetchInv
<1>19. CASE FetchFails
  <2>1. pc = "fetch" /\ job \in Job /\ job.op \in Op /\ job.version \in Version
    BY <1>19 DEF FetchFails, IndInv, TypeOK, JobInv
  <2>2. CASE job.cmd = "sync"
    BY <1>19, <2>1, <2>2, FinishStep DEF FetchFails, JobInv, StageLabels, SameJob
  <2>3. CASE job.cmd # "sync"
    BY <1>19, <2>1, <2>3, CallStep DEF FetchFails, JobInv, SyncLabels, StageLabels, SameJob
  <2> QED BY <2>2, <2>3
<1>20. CASE SwapRecord
  BY <1>20, SwapRecordStep DEF IndInv, JobInv, SyncLabels, StageLabels, SameJob
<1>21. CASE Retire
  BY <1>21, PartialStep, FinishStep
     DEF Retire, Goto, IndInv, TypeOK, JobInv, SyncLabels, StageLabels, SameJob
<1>22. CASE Activate
  BY <1>22, ReturnStep, FinishStep, PartialStep
     DEF Activate, Goto, IndInv, TypeOK, JobInv, SyncLabels, StageLabels, SameJob
<1>23. CASE SwapCleanup
  BY <1>23, SwapCleanupStep DEF IndInv, JobInv, SyncLabels, StageLabels
<1>24. CASE CommitEnvironment
  BY <1>24, ReturnStep DEF CommitEnvironment, Goto, IndInv, JobInv, SyncLabels, StageLabels
<1>25. CASE DropPrevious
  BY <1>25, ReturnStep DEF DropPrevious, Goto, IndInv, JobInv, SyncLabels, StageLabels
<1>26. CASE RemoveTx
  BY <1>26, ReturnStep DEF RemoveTx, Goto, IndInv, JobInv, SyncLabels, StageLabels
<1>27. CASE RemoveMutation
  BY <1>27, ReturnStep DEF RemoveMutation, JobInv, SyncLabels, StageLabels
<1>28. CASE Restore
  BY <1>28, FinishStep DEF Restore, Goto, IndInv, TypeOK, JobInv, SyncLabels, StageLabels, SameJob
<1>29. CASE Restoring
  BY <1>29, FinishStep DEF Restoring, Goto, IndInv, TypeOK, JobInv, SyncLabels, StageLabels, SameJob
<1>30. CASE \E o \in Op : BeginStage(o)
  <2>1. PICK o \in Op : BeginStage(o)
    BY <1>30
  <2>2. /\ pc' = "stageOpen" /\ job' \in Job /\ job'.cmd = "stage" /\ job'.op = o
             /\ Carries(job'.check, job'.version) /\ job'.version \in Version
             /\ Holds(repo, job'.check)
    BY <2>1, StageBegins DEF IndInv, TypeOK
  <2> HIDE <1>30
  <2> QED BY <2>1, <2>2 DEF JobInv, SyncLabels
<1>31. CASE StageOpen
  BY ZenonT(40), <1>31, CallStep, ReturnStep, Records, JobFields
     DEF StageOpen, Goto, IndInv, TypeOK, JobInv, SyncLabels, StageLabels, SameJob, disk,
         CallInv, RecoveryLabels, FetchInv, SyncInv, SwapInv, TxInv
<1>32. CASE StageWrite
  BY <1>32, StageWriteStep DEF IndInv, JobInv, SyncLabels, StageLabels
<1>33. CASE StageVerified
  BY <1>33, StageVerifiedStep DEF IndInv, JobInv, SyncLabels, StageLabels, SameJob
<1>34. CASE PrepareSucceeds
  BY <1>34 DEF PrepareSucceeds, IndInv, JobInv
<1>35. CASE PrepareFails
  BY <1>35 DEF PrepareFails, IndInv, JobInv
<1>36. CASE Cleanup
  BY <1>36 DEF Cleanup, IndInv, JobInv
<1>37. CASE BackendCheck
  BY <1>37 DEF BackendCheck, IndInv, JobInv
<1>38. CASE BackendSpawn
  BY <1>38 DEF BackendSpawn, IndInv, JobInv
<1>39. CASE BackendStop
  BY <1>39 DEF BackendStop, IndInv, JobInv
<1>40. CASE Crash
  BY <1>40, ReturnStep DEF Crash, JobInv, SyncLabels, StageLabels
<1>41. CASE Damage
  BY <1>41 DEF Damage, IndInv, JobInv
<1> QED
  BY <1>1, <1>2, <1>3, <1>4, <1>5, <1>6, <1>7, <1>8, <1>9, <1>10, <1>11, <1>12, <1>13, <1>14,
     <1>15, <1>16, <1>17, <1>18, <1>19, <1>20, <1>21, <1>22, <1>23, <1>24, <1>25, <1>26, <1>27,
     <1>28, <1>29, <1>30, <1>31, <1>32, <1>33, <1>34, <1>35, <1>36, <1>37, <1>38, <1>39, <1>40,
     <1>41 DEF Next, Sync, Recover, Fetch, Swap, Stage

(* Who has called the recovery, and where it returns to.                   *)
LEMMA CallKept ==
  ASSUME IndInv, Next
  PROVE  CallInv'
<1>1. CASE \E v \in Version, o \in Op : BeginSync(v, o)
  <2>1. PICK v \in Version, o \in Op : BeginSync(v, o)
    BY <1>1
  <2>2. /\ pc' = "recover" /\ job' \in Job /\ job'.cmd = "sync" /\ job'.op = o
             /\ job'.version = v /\ ~job'.discard
             /\ job'.onSuccess = "syncOpen" /\ job'.onFailure = "idle"
    BY <2>1, SyncBegins
  <2> HIDE <1>1
  <2> QED BY <2>1, <2>2 DEF CallInv, Swapping
<1>2. CASE SyncCheck
  BY <1>2, SyncCheckStep DEF IndInv, CallInv, RecoveryLabels, Swapping, disk, SyncLabels, JobInv
<1>3. CASE SyncVerified
  BY <1>3, SyncVerifiedStep
     DEF IndInv, CallInv, RecoveryLabels, Swapping, SameJob, SyncLabels, JobInv
<1>4. CASE Classify
  <2>1. UNCHANGED <<disk, backend>>
    BY <1>4 DEF Classify
  <2>2. CASE pc' \in RecoveryLabels /\ UNCHANGED job
    BY <1>4, <2>1, <2>2 DEF Classify, IndInv, CallInv, RecoveryLabels, Swapping, disk
  <2>3. CASE pc' \notin RecoveryLabels
    BY <2>3 DEF CallInv
  <2>4. (pc' \in RecoveryLabels /\ UNCHANGED job) \/ pc' \notin RecoveryLabels
    BY <1>4, RecoverReturnsStep, ReturnStep, RecoverFailsStep, KeepStep, JobFields
       DEF Classify, Goto, RecoveryLabels, IndInv, TypeOK
  <2> QED BY <2>2, <2>3, <2>4
<1>5. CASE RecDropUpdate
  BY <1>5, RecoverFailsStep
     DEF RecDropUpdate, DropTree, IndInv, TypeOK, CallInv, RecoveryLabels, Swapping
<1>6. CASE RecDropPrevious
  BY <1>6, RecoverFailsStep
     DEF RecDropPrevious, DropTree, IndInv, TypeOK, CallInv, RecoveryLabels, Swapping
<1>7. CASE RecRollback
  BY <1>7, RecoverFailsStep
     DEF RecRollback, IndInv, TypeOK, CallInv, RecoveryLabels, Swapping, RecoveryInv
<1>8. CASE RecActivate
  BY <1>8, RecoverFailsStep
     DEF RecActivate, IndInv, TypeOK, CallInv, RecoveryLabels, Swapping, RecoveryInv
<1>9. CASE RecWriteEnv
  BY <1>9, RecoverFailsStep DEF RecWriteEnv, IndInv, TypeOK, CallInv, RecoveryLabels, Swapping
<1>10. CASE FetchFails
  BY <1>10, FinishStep, CallStep
     DEF FetchFails, IndInv, TypeOK, TxInv, CallInv, RecoveryLabels, Holds, Swapping, SameJob,
         disk, Carries, SwapInv, RecoveryInv, SyncInv, SyncLabels, StageLabels, JobInv, FetchInv,
         StageInv
<1>11. CASE Retire
  BY <1>11, PartialStep, FinishStep
     DEF Retire, Goto, IndInv, TypeOK, CallInv, RecoveryLabels, Swapping, SameJob, SwapInv,
         SyncLabels, JobInv
<1>12. CASE Activate
  BY <1>12, ReturnStep, FinishStep, PartialStep
     DEF Activate, Goto, IndInv, TypeOK, CallInv, RecoveryLabels, Swapping, SameJob, SwapInv,
         SyncLabels, JobInv
<1>13. CASE StageOpen
  <2>1. CASE pc' \notin RecoveryLabels
    BY <2>1 DEF CallInv
  <2>2. CASE pc' \in RecoveryLabels
    <3>1. CallRecover(job, TRUE, "stageWrite", "idle")
      BY <1>13, <2>2, ReturnStep DEF StageOpen, Goto, RecoveryLabels
    <3>2. /\ updateTx.cmd = "stage" /\ ~StagedFromHere(updateTx) /\ pc = "stageOpen"
          /\ UNCHANGED <<repo, update, previous, updateTx>>
      BY <1>13, <2>2, ReturnStep DEF StageOpen, Goto, RecoveryLabels, disk
    <3>3. updateTx.stage = "verify" => updateTx.base # job.check
      BY <3>2 DEF IndInv, TxInv, StageInv, StagedFromHere, Carries
    <3>4. /\ job'.onSuccess = "stageWrite" /\ job'.onFailure = "idle"
          /\ job'.discard /\ SameJob(job)
      BY <3>1, CallStep DEF IndInv, TypeOK
    <3> QED BY <3>2, <3>3, <3>4
            DEF IndInv, CallInv, StageInv, JobInv, StageLabels, SameJob, Carries, Holds
  <2> QED BY <2>1, <2>2
<1>14. CASE StageVerified
  BY <1>14, StageVerifiedStep
     DEF IndInv, CallInv, RecoveryLabels, Swapping, SameJob, StageLabels, JobInv, StageInv
<1>15. CASE BackendSpawn
  BY <1>15 DEF BackendSpawn, IndInv, CallInv, Swapping, disk
<1>16. CASE BackendStop
  BY <1>16 DEF BackendStop, IndInv, CallInv, Swapping, disk
<1>17. CASE Damage
  BY <1>17, TreeKinds, CommitTrees, ValidTree DEF Damage, IndInv, TypeOK, CallInv, Holds, Swapping
<1>18. CASE pc' \notin RecoveryLabels
  BY <1>18 DEF CallInv
<1> QED
  BY <1>1, <1>2, <1>3, <1>4, <1>5, <1>6, <1>7, <1>8, <1>9, <1>10, <1>11, <1>12, <1>13, <1>14,
     <1>15, <1>16, <1>17, <1>18, Arrivals

(* What the recovery has classified stays true until it acts on it.        *)
LEMMA RecoveryKept ==
  ASSUME IndInv, Next
  PROVE  RecoveryInv'
<1>1. CASE \E v \in Version, o \in Op : BeginSync(v, o)
  <2>1. PICK v \in Version, o \in Op : BeginSync(v, o)
    BY <1>1
  <2>2. /\ pc' = "recover" /\ job' \in Job /\ job'.cmd = "sync" /\ job'.op = o
             /\ job'.version = v /\ ~job'.discard
             /\ job'.onSuccess = "syncOpen" /\ job'.onFailure = "idle"
    BY <2>1, SyncBegins
  <2> HIDE <1>1
  <2> QED BY <2>1, <2>2 DEF RecoveryInv, Swapping
<1>2. CASE SyncCheck
  BY <1>2, SyncCheckStep DEF IndInv, RecoveryInv, RecoveryLabels, Swapping
<1>3. CASE SyncVerified
  BY <1>3, SyncVerifiedStep DEF IndInv, RecoveryInv, RecoveryLabels, Swapping
<1>4. CASE Classify
  BY <1>4, ClassifyStep
     DEF IndInv, RecoveryInv, RecoveryLabels, Fresh, disk, Swapping, Staged, Retired, CallInv
<1>5. CASE RecDropUpdate
  BY <1>5, RecoverFailsStep
     DEF RecDropUpdate, DropTree, Goto, IndInv, TypeOK, TxInv, RecoveryInv, RecoveryLabels,
         Fresh, Swapping, Staged, Retired
<1>6. CASE RecDropPrevious
  BY <1>6, RecoverFailsStep
     DEF RecDropPrevious, DropTree, Goto, IndInv, TypeOK, TxInv, RecoveryInv, Fresh, Swapping,
         Staged, Retired
<1>7. CASE RecRollback
  BY <1>7, RecoverFailsStep
     DEF RecRollback, Goto, IndInv, TypeOK, TxInv, RecoveryInv, Fresh, Swapping, Retired,
         activeTree, EnvInv
<1>8. CASE RecActivate
  <2>1. env' = env \/ env'.status = "broken"
    BY <1>8 DEF RecActivate, Broken
  <2> QED
    BY <1>8, <2>1, RecoverFailsStep, TreeKinds
       DEF RecActivate, Goto, IndInv, TypeOK, TxInv, RecoveryInv, Holds, Swapping, Staged
<1>9. CASE RecWriteEnv
  <2>1. Broken(env.last, updateTx.target, "changed").status = "broken"
        /\ Broken(env.last, updateTx.target, "changed").target = updateTx.target
    BY DEF Broken
  <2> QED
    BY <1>9, <2>1, RecoverFailsStep
       DEF RecWriteEnv, Goto, IndInv, TypeOK, RecoveryInv, Swapping, Staged
<1>10. CASE FetchFails
  BY <1>10, FinishStep, CallStep, TreeKinds, ErodedTree, UnfinishedTree, ValidTree, JobFields
     DEF FetchFails, IndInv, TypeOK, TxInv, RecoveryInv, RecoveryLabels, Fresh, disk, Holds,
         Swapping, Staged, Retired, CallInv, TreesInv, activeTree, EnvInv,
         NeverWithoutARepository, JobInv
<1>11. CASE Retire
  BY <1>11, PartialStep, FinishStep
     DEF Retire, Goto, IndInv, TypeOK, RecoveryInv, RecoveryLabels, Swapping
<1>12. CASE Activate
  BY <1>12, ReturnStep, FinishStep, PartialStep
     DEF Activate, Goto, IndInv, TypeOK, RecoveryInv, RecoveryLabels, Swapping
<1>13. CASE StageOpen
  BY <1>13, CallStep, ReturnStep
     DEF StageOpen, Goto, IndInv, TypeOK, TxInv, RecoveryInv, RecoveryLabels, Fresh, disk, Holds,
         Swapping, Staged, Retired, JobInv
<1>14. CASE StageVerified
  BY <1>14, StageVerifiedStep DEF IndInv, RecoveryInv, RecoveryLabels, Swapping
<1>15. CASE BackendSpawn
  BY <1>15 DEF BackendSpawn, IndInv, RecoveryInv, Fresh, disk, Swapping, Staged, Retired
<1>16. CASE BackendStop
  BY <1>16 DEF BackendStop, IndInv, RecoveryInv, Fresh, disk, Swapping, Staged, Retired
<1>17. CASE Damage
  BY <1>17, ValidTree, CommitTrees, TreeKinds
     DEF Damage, IndInv, TypeOK, RecoveryInv, Fresh, Holds, Swapping, Staged, Retired
<1>18. CASE pc' \notin RecoveryLabels
  BY <1>18 DEF RecoveryInv, RecoveryLabels
<1> QED
  BY <1>1, <1>2, <1>3, <1>4, <1>5, <1>6, <1>7, <1>8, <1>9, <1>10, <1>11, <1>12, <1>13, <1>14,
     <1>15, <1>16, <1>17, <1>18, Arrivals

(* What Sync knows at each of its steps.                                   *)
LEMMA SyncKept ==
  ASSUME IndInv, Next
  PROVE  SyncInv'
<1>1. CASE SyncOpen
  BY <1>1, SyncOpenStep DEF IndInv, SyncInv, StagedOnly, Swapping
<1>2. CASE SyncCheck
  BY <1>2, SyncCheckStep DEF IndInv, SyncInv, StagedOnly, Prepared, disk, Swapping
<1>3. CASE SyncFails
  BY <1>3, FinishStep DEF SyncFails, IndInv, TypeOK, SyncInv, StagedOnly, disk, Swapping
<1>4. CASE UsePrepared
  BY <1>4, UsePreparedStep
     DEF IndInv, TxInv, SyncInv, StagedOnly, Prepared, disk, Swapping, Staged, IsPrepared,
         OfVersion
<1>5. CASE KeepCurrent
  BY <1>5 DEF KeepCurrent, Goto, IndInv, SyncInv, StagedOnly, disk, Swapping
<1>6. CASE BeginUpdate
  BY <1>6, BeginUpdateStep DEF IndInv, SyncInv, StagedOnly, Swapping
<1>7. CASE SyncVerified
  BY <1>7, SyncVerifiedStep DEF IndInv, SyncInv, StagedOnly, Swapping
<1>8. CASE Classify
  BY <1>8, ClassifyStep DEF IndInv, SyncInv, StagedOnly, disk, Swapping, CallInv, RecoveryLabels
<1>9. CASE RecDropUpdate
  BY <1>9, RecoverFailsStep
     DEF RecDropUpdate, DropTree, Goto, IndInv, TypeOK, SyncInv, Swapping, CallInv,
         RecoveryLabels
<1>10. CASE RecDropPrevious
  BY <1>10, RecoverFailsStep
     DEF RecDropPrevious, DropTree, Goto, IndInv, TypeOK, SyncInv, Swapping, CallInv,
         RecoveryLabels
<1>11. CASE RecRollback
  BY <1>11, RecoverFailsStep
     DEF RecRollback, Goto, IndInv, TypeOK, SyncInv, Swapping, CallInv, RecoveryLabels
<1>12. CASE RecActivate
  BY <1>12, RecoverFailsStep
     DEF RecActivate, Goto, IndInv, TypeOK, SyncInv, Swapping, CallInv, RecoveryLabels
<1>13. CASE RecWriteEnv
  BY <1>13, RecoverFailsStep
     DEF RecWriteEnv, Goto, IndInv, TypeOK, SyncInv, Swapping, CallInv, RecoveryLabels
<1>14. CASE RecRemoveTx
  BY <1>14, RecoverReturnsStep, RecoverFailsStep, Records
     DEF RecRemoveTx, MayWriteTx, IndInv, TypeOK, SyncInv, Swapping, CallInv, RecoveryLabels
<1>15. CASE FetchSucceeds
  BY <1>15, FetchSucceedsStep, CommitTrees
     DEF IndInv, TypeOK, TxInv, SyncInv, Carries, Swapping, Staged, FetchInv
<1>16. CASE FetchFails
  BY <1>16, FinishStep, CallStep, CommitTrees, UnfinishedTree
     DEF FetchFails, IndInv, TypeOK, TxInv, SyncInv, StagedOnly, Prepared, VersionAt, SameJob,
         Carries, disk, Holds, Swapping, Staged, Retired, JobInv, SyncLabels, FetchInv
<1>17. CASE SwapRecord
  BY <1>17, SwapRecordStep, TreeKinds DEF IndInv, SyncInv, Swapping, Staged, SwapInv
<1>18. CASE Retire
  BY <1>18, PartialStep, FinishStep, TreeKinds
     DEF Retire, Goto, IndInv, TypeOK, SyncInv, Swapping, Staged, SwapInv
<1>19. CASE Activate
  BY <1>19, ReturnStep, FinishStep, PartialStep, ValidTree
     DEF Activate, Goto, IndInv, TypeOK, SyncInv, Swapping, Staged, SwapInv
<1>20. CASE Restore
  BY <1>20, FinishStep DEF Restore, Goto, IndInv, TypeOK, SyncInv, Swapping
<1>21. CASE Restoring
  BY <1>21, FinishStep DEF Restoring, Goto, IndInv, TypeOK, SyncInv, Swapping
<1>22. CASE BackendSpawn
  BY <1>22 DEF BackendSpawn, IndInv, SyncInv, StagedOnly, Prepared, disk, Swapping, Staged
<1>23. CASE BackendStop
  BY <1>23 DEF BackendStop, IndInv, SyncInv, StagedOnly, Prepared, disk, Swapping, Staged
<1>24. CASE Damage
  BY <1>24, ValidTree, CommitTrees, TreeKinds
     DEF Damage, IndInv, TypeOK, SyncInv, StagedOnly, Prepared, Holds, Swapping, Staged
<1>25. CASE pc' \notin {"syncOpen", "syncCheck", "syncPlan", "syncVerified", "restore", "restoring", "finish"}
  BY <1>25 DEF SyncInv
<1> QED
  BY <1>1, <1>2, <1>3, <1>4, <1>5, <1>6, <1>7, <1>8, <1>9, <1>10, <1>11, <1>12, <1>13, <1>14,
     <1>15, <1>16, <1>17, <1>18, <1>19, <1>20, <1>21, <1>22, <1>23, <1>24, <1>25, Arrivals

(* A clone runs in the directory its transaction names.                    *)
LEMMA FetchKept ==
  ASSUME IndInv, Next
  PROVE  FetchInv'
<1>1. CASE BeginUpdate
  BY <1>1, BeginUpdateStep DEF IndInv, FetchInv, JobInv, SyncLabels, SyncInv
<1>2. CASE FetchWrites
  BY <1>2 DEF FetchWrites, IndInv, FetchInv
<1>3. CASE StageWrite
  BY <1>3, StageWriteStep DEF IndInv, FetchInv, JobInv, StageLabels
<1>4. CASE BackendSpawn
  BY <1>4 DEF BackendSpawn, IndInv, FetchInv, disk
<1>5. CASE BackendStop
  BY <1>5 DEF BackendStop, IndInv, FetchInv, disk
<1>6. CASE Damage
  BY <1>6, ValidTree, CommitTrees, TreeKinds DEF Damage, IndInv, TypeOK, FetchInv, Holds
<1>7. CASE pc' \notin {"fetch"}
  BY <1>7 DEF FetchInv
<1> QED BY <1>1, <1>2, <1>3, <1>4, <1>5, <1>6, <1>7, Arrivals

(* What is on the disk at each step of a swap.                             *)
LEMMA SwapKept ==
  ASSUME IndInv, Next
  PROVE  SwapInv'
<1>1. CASE SyncVerified
  BY <1>1, SyncVerifiedStep DEF IndInv, SwapInv, Swapping, Staged, SyncInv
<1>2. CASE SwapRecord
  BY <1>2, SwapRecordStep DEF IndInv, TxInv, SwapInv, Swapping, Staged, Retired, TreesInv
<1>3. CASE Retire
  BY <1>3, PartialStep, FinishStep DEF Retire, Goto, IndInv, TypeOK, SwapInv, Swapping, Staged
<1>4. CASE Activate
  BY <1>4, ReturnStep, FinishStep, PartialStep, ValidTree
     DEF Activate, Goto, IndInv, TypeOK, TxInv, SwapInv, Swapping, Staged, TreesInv
<1>5. CASE SwapCleanup
  BY <1>5, SwapCleanupStep DEF IndInv, SwapInv, Swapping, Staged
<1>6. CASE CommitEnvironment
  <2>1. Broken(job.last, job.got, "changed").status = "broken"
        /\ Broken(job.last, job.got, "changed").target = job.got
    BY DEF Broken
  <2> QED BY <1>6, <2>1, ReturnStep DEF CommitEnvironment, Goto, IndInv, SwapInv, Swapping, Staged
<1>7. CASE DropPrevious
  BY <1>7, ReturnStep
     DEF DropPrevious, Goto, IndInv, TypeOK, TxInv, SwapInv, Swapping, Staged, Retired
<1>8. CASE BackendSpawn
  BY <1>8 DEF BackendSpawn, IndInv, SwapInv, disk, Swapping, Staged, Retired
<1>9. CASE BackendStop
  BY <1>9 DEF BackendStop, IndInv, SwapInv, disk, Swapping, Staged, Retired
<1>10. CASE Damage
  BY <1>10, ValidTree, CommitTrees, TreeKinds
     DEF Damage, IndInv, TypeOK, SwapInv, Holds, Swapping, Staged, Retired
<1>11. CASE pc' \notin {"swap", "retire", "activate", "swapCleanup", "commitEnv", "dropPrevious", "removeTx"}
  BY <1>11 DEF SwapInv
<1> QED BY <1>1, <1>2, <1>3, <1>4, <1>5, <1>6, <1>7, <1>8, <1>9, <1>10, <1>11, Arrivals

(* What Stage knows at each of its steps.                                  *)
LEMMA StageKept ==
  ASSUME IndInv, Next
  PROVE  StageInv'
<1>1. CASE Classify
  BY <1>1, ClassifyStep DEF IndInv, StageInv, CallInv, RecoveryLabels
<1>2. CASE RecRemoveTx
  BY <1>2, RecoverReturnsStep, RecoverFailsStep, Records
     DEF RecRemoveTx, IndInv, TypeOK, StageInv, CallInv, RecoveryLabels, Swapping
<1>3. CASE FetchSucceeds
  BY <1>3, FetchSucceedsStep DEF IndInv, StageInv, FetchInv
<1>4. CASE \E o \in Op : BeginStage(o)
  <2>1. PICK o \in Op : BeginStage(o)
    BY <1>4
  <2>2. /\ pc' = "stageOpen" /\ job' \in Job /\ job'.cmd = "stage" /\ job'.op = o
             /\ Carries(job'.check, job'.version) /\ job'.version \in Version
             /\ Holds(repo, job'.check)
    BY <2>1, StageBegins DEF IndInv, TypeOK
  <2> HIDE <1>4
  <2> QED BY <2>1, <2>2 DEF BeginStage, StageInv, disk
<1>5. CASE StageOpen
  BY <1>5, CallStep, ReturnStep
     DEF StageOpen, Goto, IndInv, TypeOK, StageInv, SameJob, Carries, Holds, disk
<1>6. CASE BackendSpawn
  BY <1>6 DEF BackendSpawn, IndInv, StageInv, disk
<1>7. CASE BackendStop
  BY <1>7 DEF BackendStop, IndInv, StageInv, disk
<1>8. CASE Damage
  BY <1>8, ValidTree, CommitTrees, TreeKinds DEF Damage, IndInv, TypeOK, StageInv, Holds
<1>9. CASE pc' \notin StageLabels
  BY <1>9 DEF StageInv, StageLabels
<1> QED BY <1>1, <1>2, <1>3, <1>4, <1>5, <1>6, <1>7, <1>8, <1>9, Arrivals

-----------------------------------------------------------------------------
(* The invariant.                                                          *)

(* The workspace begins without a repository and without a transaction.    *)
LEMMA InitialStep == Init => IndInv
<1> SUFFICES ASSUME Init
             PROVE  IndInv
  OBVIOUS
<1>1. /\ repo = Missing /\ updateTx = NoTx /\ env = NoEnvironment
      /\ pc = "idle" /\ job = NoJob /\ backend = [at |-> "off", commit |-> None]
      /\ \A o \in Op : update[o] = Missing /\ previous[o] = Missing
      /\ update = [o \in Op |-> Missing] /\ previous = [o \in Op |-> Missing]
      /\ mutationTx = FALSE
  BY DEF Init
<1>2. TypeOK
  BY <1>1, TreeKinds, Records DEF TypeOK
<1>3. EveryTreeIsNamed /\ TxInv /\ TreesInv
  BY <1>1, Records DEF EveryTreeIsNamed, TxInv, TreesInv, Swapping
<1>4. EnvInv /\ NeverWithoutARepository
  BY <1>1, Records DEF EnvInv, NeverWithoutARepository, Fresh
<1>5. BackendInv
  BY <1>1 DEF BackendInv, RunningIsReady
<1>6. JobInv /\ CallInv /\ RecoveryInv /\ SyncInv /\ FetchInv /\ SwapInv /\ StageInv
  BY <1>1 DEF JobInv, CallInv, RecoveryInv, SyncInv, FetchInv, SwapInv, StageInv,
              SyncLabels, StageLabels, RecoveryLabels
<1> QED BY <1>2, <1>3, <1>4, <1>5, <1>6 DEF IndInv

(* The invariant depends on the variables only.                            *)
LEMMA StutteringStep ==
  ASSUME IndInv, UNCHANGED vars
  PROVE  IndInv'
<1>1. UNCHANGED <<repo, update, previous, updateTx, mutationTx, env, pc, job, backend>>
  BY DEF vars, disk
<1>2. TypeOK' /\ EveryTreeIsNamed' /\ TxInv' /\ TreesInv'
  BY <1>1 DEF IndInv, TypeOK, EveryTreeIsNamed, TxInv, TreesInv, Swapping, Holds, Staged,
              Retired, Carries
<1>3. EnvInv' /\ NeverWithoutARepository' /\ BackendInv'
  BY <1>1 DEF IndInv, EnvInv, NeverWithoutARepository, BackendInv, RunningIsReady, activeTree,
              Fresh, Swapping, Holds
<1>4. JobInv' /\ CallInv'
  BY <1>1 DEF IndInv, JobInv, CallInv, Swapping
<1>5. RecoveryInv' /\ SyncInv'
  BY <1>1 DEF IndInv, RecoveryInv, SyncInv, StagedOnly, Prepared, Fresh, Swapping, Holds,
              Staged, Retired, Carries
<1>6. FetchInv' /\ SwapInv' /\ StageInv'
  BY <1>1 DEF IndInv, FetchInv, SwapInv, StageInv, Swapping, Staged, Retired
<1> QED BY <1>2, <1>3, <1>4, <1>5, <1>6 DEF IndInv

(* IndInv is inductive.                                                    *)
LEMMA InductiveStep ==
  ASSUME IndInv, [Next]_vars
  PROVE  IndInv'
<1>1. CASE Next
  <2>1. TypeOK' /\ EveryTreeIsNamed' /\ TxInv' /\ TreesInv'
    BY <1>1, TypesKept, NamedKept, TxKept, TreesKept
  <2>2. EnvInv' /\ NeverWithoutARepository' /\ BackendInv'
    BY <1>1, EnvKept, BackendKept
  <2>3. JobInv' /\ CallInv' /\ RecoveryInv' /\ SyncInv' /\ FetchInv' /\ SwapInv' /\ StageInv'
    BY <1>1, JobKept, CallKept, RecoveryKept, SyncKept, FetchKept, SwapKept, StageKept
  <2> QED BY <2>1, <2>2, <2>3 DEF IndInv
<1>2. CASE UNCHANGED vars
  BY <1>2, StutteringStep
<1> QED BY <1>1, <1>2

(* The invariant of the workspace: what update.json, the directories and   *)
(* environment.json are at every label of the command that runs.           *)
THEOREM WorkspaceInvariant == Spec => []IndInv
BY InitialStep, InductiveStep, PTL DEF Spec

(* finishRecovery, preserveUpdateTransaction: every directory next to repo *)
(* is named by update.json.                                                *)
THEOREM NoDirectoryIsOrphaned == Spec => []EveryTreeIsNamed
<1>1. IndInv => EveryTreeIsNamed
  BY DEF IndInv
<1> QED BY <1>1, WorkspaceInvariant, PTL

(* Swap, recoverSwap: an installed repository is in repo, or in the        *)
(* directory from which a recovery puts it back.                           *)
THEOREM RepositoryIsKept == Spec => []NeverWithoutARepository
<1>1. IndInv => NeverWithoutARepository
  BY DEF IndInv
<1> QED BY <1>1, WorkspaceInvariant, PTL

(* commitEnvironment, applyEnvironment: a stale "ready" is always covered  *)
(* by the record of the swap that owes its invalidation.                   *)
THEOREM StaleReadyIsOwed == Spec => []StaleReadyIsCovered
<1>1. IndInv => StaleReadyIsCovered
  <2> SUFFICES ASSUME IndInv, env.status = "ready", IsValid(repo), env.last # repo.commit
               PROVE  updateTx.cmd = "sync" /\ updateTx.stage \in {"swap", "cleanup"}
    BY DEF StaleReadyIsCovered
  <2>1. repo # Missing
    BY TreeKinds
  <2>2. activeTree = repo
    BY <2>1 DEF activeTree
  <2> QED BY <2>2 DEF IndInv, EnvInv, Fresh, Holds, Swapping
<1> QED BY <1>1, WorkspaceInvariant, PTL

(* validateEnvironmentReady, checkRepository, recheckRevision: the backend *)
(* runs on the revision the environment is ready for.                      *)
THEOREM BackendRunsOnReady == Spec => []RunningIsReady
<1>1. IndInv => RunningIsReady
  BY DEF IndInv, BackendInv
<1> QED BY <1>1, WorkspaceInvariant, PTL

(* recoverSwap: a swap that was cut off and whose directories are whole    *)
(* always has a plan.                                                      *)
LEMMA SwapHasAPlan == IndInv => SwapIsRecoverable
<1> SUFFICES ASSUME IndInv, updateTx.stage \in {"swap", "cleanup"}, SwapIsIntact, SwapHasATree
             PROVE  PlanNow(FALSE) \notin {"nothing", "ambiguous"}
  BY DEF SwapIsRecoverable
<1> DEFINE u == update[updateTx.op]
           p == previous[updateTx.op]
<1>1. Swapping /\ updateTx.op \in Op /\ updateTx.target \in Commit
  BY Records DEF IndInv, TxInv, Swapping, TypeOK, UpdateTx, Carries
<1>2. u \in Tree /\ p \in Tree /\ repo \in Tree /\ u = Staged /\ p = Retired
  BY <1>1 DEF IndInv, TypeOK, Staged, Retired
<1>3. /\ updateTx.base # updateTx.target /\ Holds(u, updateTx.target)
      /\ Holds(p, updateTx.base)
      /\ IsValid(repo) => repo.commit \in {updateTx.base, updateTx.target}
      /\ repo # Missing /\ p # Missing => u = Missing /\ Holds(repo, updateTx.target)
      /\ IsValid(repo) /\ repo.commit = updateTx.target => u = Missing
      /\ updateTx.stage = "cleanup" =>
           repo # Missing /\ u = Missing /\ Holds(repo, updateTx.target)
  BY <1>1, <1>2 DEF IndInv, TreesInv
<1>4. /\ ~Incomplete(repo) /\ ~Incomplete(u)
      /\ Incomplete(p) => updateTx.stage = "cleanup"
      /\ IsTarget(updateTx, repo) \/ IsTarget(updateTx, u) \/ IsValid(p)
  BY DEF SwapIsIntact, SwapHasATree
<1>5. \A t : IsTarget(updateTx, t) <=> IsValid(t) /\ t.commit = updateTx.target
  BY <1>1, TargetTree DEF IndInv
<1>6. \A t \in Tree : t = Missing \/ IsValid(t) \/ Incomplete(t)
  BY TreeShapes
<1>7. \A t \in Tree : t.kind \in {"unreadable", "invalid"} <=> Incomplete(t)
  BY DEF Incomplete
<1>8. ~Unclassifiable(updateTx, repo, u, p)
  BY <1>1, <1>2, <1>4, <1>7 DEF Unclassifiable, Swapping
<1>9. ~CommitMismatch(updateTx, repo, u, p)
  BY <1>3 DEF CommitMismatch, Holds
<1>10. SwapPlan(updateTx, repo, u, p) # "ambiguous"
  BY <1>2, <1>3, <1>4, <1>5, <1>6 DEF SwapPlan, Holds
<1>11. PlanNow(FALSE) = SwapPlan(updateTx, repo, u, p)
  BY <1>1, <1>8, <1>9 DEF PlanNow, Plan, Swapping
<1>12. SwapPlan(updateTx, repo, u, p) # "nothing"
  BY DEF SwapPlan
<1> QED BY <1>10, <1>11, <1>12

(* recoverSwap: see SwapIsRecoverable.                                     *)
THEOREM SwapIsNeverAmbiguous == Spec => []SwapIsRecoverable
BY WorkspaceInvariant, SwapHasAPlan, PTL

(* A step that removes a retired repository finds the environment          *)
(* invalidated.                                                            *)
LEMMA RetiredIsHeld ==
  ASSUME IndInv, Next
  PROVE  \A o \in Op :
           previous[o] # Missing /\ previous'[o] # previous[o] /\ repo' = repo
             /\ IsValid(repo) => env.status = "broken" /\ env.target = repo.commit
<1>1. CASE RecDropPrevious
  BY <1>1 DEF RecDropPrevious, IndInv, RecoveryInv, Holds, Swapping
<1>2. CASE RecRollback
  BY <1>2, TreeKinds DEF RecRollback, IndInv, RecoveryInv, Swapping
<1>3. CASE Retire
  BY <1>3 DEF Retire, IndInv, SwapInv, Swapping
<1>4. CASE DropPrevious
  BY <1>4 DEF DropPrevious, IndInv, SwapInv, Holds, Swapping
<1>5. CASE UNCHANGED <<previous>>
  BY <1>5
<1> QED BY <1>1, <1>2, <1>3, <1>4, <1>5, Writers

(* A step beside a running backend leaves its staged update alone.         *)
LEMMA StagedIsHeld ==
  ASSUME IndInv, Next
  PROVE  backend.at = "running" /\ updateTx.cmd = "stage" /\ updateTx.stage = "verify"
           /\ IsValid(repo) /\ updateTx.base = repo.commit =>
             UNCHANGED <<update, updateTx>>
<1>1. CASE BeginUpdate
  BY <1>1, BeginUpdateStep DEF IndInv, Swapping
<1>2. CASE SyncVerified
  BY <1>2, SyncVerifiedStep DEF IndInv, BackendInv, JobInv, SyncLabels, Swapping
<1>3. CASE FinishPreSwap
  BY <1>3 DEF FinishPreSwap, IndInv, BackendInv, JobInv, SyncLabels, Swapping
<1>4. CASE RecDropUpdate
  BY <1>4 DEF RecDropUpdate, IndInv, BackendInv, CallInv, RecoveryLabels, Holds, Swapping
<1>5. CASE RecActivate
  BY <1>5 DEF RecActivate, IndInv, RecoveryInv, Swapping
<1>6. CASE RecRemoveTx
  BY <1>6 DEF RecRemoveTx, IndInv, BackendInv, CallInv, RecoveryLabels, Holds, Swapping
<1>7. CASE FetchWrites
  BY <1>7 DEF FetchWrites, IndInv, FetchInv, Swapping
<1>8. CASE FetchSucceeds
  BY <1>8, FetchSucceedsStep DEF IndInv, FetchInv, Swapping
<1>9. CASE FetchFails
  BY <1>9 DEF FetchFails, IndInv, FetchInv, Swapping
<1>10. CASE SwapRecord
  BY <1>10, SwapRecordStep DEF IndInv, SwapInv, Swapping
<1>11. CASE Activate
  BY <1>11 DEF Activate, IndInv, BackendInv, JobInv, SyncLabels, Swapping
<1>12. CASE SwapCleanup
  BY <1>12, SwapCleanupStep DEF IndInv, BackendInv, JobInv, SyncLabels, Swapping
<1>13. CASE RemoveTx
  BY <1>13 DEF RemoveTx, IndInv, SwapInv, Swapping
<1>14. CASE StageWrite
  BY <1>14, StageWriteStep DEF IndInv, StageInv, Swapping
<1>15. CASE StageVerified
  BY <1>15, StageVerifiedStep DEF IndInv, StageInv, Swapping
<1>16. CASE Cleanup
  BY <1>16 DEF Cleanup, Swapping
<1>17. CASE UNCHANGED <<update, updateTx>>
  BY <1>17
<1> QED
  BY <1>1, <1>2, <1>3, <1>4, <1>5, <1>6, <1>7, <1>8, <1>9, <1>10, <1>11, <1>12, <1>13, <1>14,
     <1>15, <1>16, <1>17, Writers

-----------------------------------------------------------------------------
(* The refinement: what module Activation sees of the state.               *)
Active   == Healthy(activeTree)
Intact   == activeTree.kind # "unreadable"
ReadyFor == IF env.status = "ready" THEN env.last ELSE None
Running  == IF backend.at = "running" THEN backend.commit ELSE None

ActivationStep ==
  \/ UNCHANGED <<Active, Intact, ReadyFor, Running>>
  \/ /\ Running = None /\ Active' \in Commit /\ Intact'
     /\ UNCHANGED <<ReadyFor, Running>>
  \/ /\ Running = None /\ Active # None /\ ReadyFor' = Active
     /\ UNCHANGED <<Active, Intact, Running>>
  \/ /\ Running = None /\ ReadyFor' = None
     /\ UNCHANGED <<Active, Intact, Running>>
  \/ /\ Running = None /\ Active # None /\ ReadyFor = Active /\ Running' = Active
     /\ UNCHANGED <<Active, Intact, ReadyFor>>
  \/ Running' = None /\ UNCHANGED <<Active, Intact, ReadyFor>>
  \/ Active' = None /\ ~Intact' /\ UNCHANGED <<ReadyFor, Running>>


(* Every step is a step of the abstract activation, or leaves it alone.    *)
LEMMA ActivationShape ==
  ASSUME IndInv, Next
  PROVE  ActivationStep
<1>1. CASE BeginUpdate
  BY <1>1, BeginUpdateStep
     DEF IndInv, ActivationStep, Active, Intact, ReadyFor, Running, activeTree, Swapping,
         SyncInv, JobInv, EveryTreeIsNamed, StagedOnly
<1>2. CASE SyncVerified
  BY <1>2, SyncVerifiedStep
     DEF IndInv, ActivationStep, Active, Intact, ReadyFor, Running, activeTree, Swapping,
         SyncInv, StagedOnly
<1>3. CASE FinishPreSwap
  BY <1>3, Records
     DEF FinishPreSwap, MayWriteTx, IndInv, ActivationStep, Active, Intact, ReadyFor, Running,
         activeTree, Swapping, Staged, SyncInv, EveryTreeIsNamed, Preserve, TypeOK, TreesInv
<1>4. CASE RecDropPrevious
  BY <1>4
     DEF RecDropPrevious, IndInv, ActivationStep, Active, Intact, ReadyFor, Running, activeTree,
         Swapping, RecoveryInv
<1>5. CASE RecRollback
  BY <1>5, TreeKinds
     DEF RecRollback, IndInv, ActivationStep, Active, Intact, ReadyFor, Running, activeTree,
         Swapping, Retired, RecoveryInv
<1>6. CASE RecActivate
  <2>1. env' = env \/ env'.status = "broken"
    BY <1>6 DEF RecActivate, Broken
  <2>2. Running = None
    BY <1>6
       DEF RecActivate, IndInv, BackendInv, CallInv, RecoveryInv, RecoveryLabels, Swapping,
           Running
  <2> QED
    BY <1>6, <2>1, <2>2, ValidTree
       DEF RecActivate, IndInv, ActivationStep, Active, Intact, ReadyFor, Running, activeTree,
           Healthy, Swapping, Staged, Retired, RecoveryInv, EveryTreeIsNamed, TypeOK,
           NeverWithoutARepository
<1>7. CASE RecWriteEnv
  <2>1. env' = env \/ env'.status = "broken"
    BY <1>7 DEF RecWriteEnv, Broken
  <2>2. Running = None
    BY <1>7
       DEF RecWriteEnv, IndInv, BackendInv, CallInv, RecoveryInv, RecoveryLabels, Swapping,
           Running
  <2> QED
    BY <1>7, <2>1, <2>2
       DEF RecWriteEnv, ActivationStep, Active, Intact, ReadyFor, Running, activeTree, Swapping
<1>8. CASE RecRemoveTx
  BY <1>8, Records
     DEF RecRemoveTx, MayWriteTx, IndInv, ActivationStep, Active, Intact, ReadyFor, Running,
         activeTree, Swapping, Retired, RecoveryInv
<1>9. CASE SwapRecord
  BY <1>9, SwapRecordStep
     DEF IndInv, ActivationStep, Active, Intact, ReadyFor, Running, activeTree, Swapping
<1>10. CASE Retire
  BY <1>10, TreeKinds
     DEF Retire, IndInv, ActivationStep, Active, Intact, ReadyFor, Running, activeTree, Swapping,
         Staged, Retired, SwapInv, EveryTreeIsNamed, TypeOK
<1>11. CASE Activate
  BY <1>11, ValidTree
     DEF Activate, IndInv, ActivationStep, Active, Intact, ReadyFor, Running, activeTree,
         Healthy, Swapping, Staged, SwapInv, EveryTreeIsNamed, TypeOK, BackendInv, RunningIsReady
<1>12. CASE SwapCleanup
  BY <1>12, SwapCleanupStep
     DEF IndInv, ActivationStep, Active, Intact, ReadyFor, Running, activeTree, Swapping
<1>13. CASE CommitEnvironment
  <2>1. env' = env \/ env'.status = "broken"
    BY <1>13 DEF CommitEnvironment, Broken
  <2>2. Running = None
    BY <1>13 DEF CommitEnvironment, IndInv, BackendInv, JobInv, SyncLabels, Swapping, Running
  <2> QED
    BY <1>13, <2>1, <2>2
       DEF CommitEnvironment, ActivationStep, Active, Intact, ReadyFor, Running, activeTree,
           Swapping
<1>14. CASE DropPrevious
  BY <1>14
     DEF DropPrevious, IndInv, ActivationStep, Active, Intact, ReadyFor, Running, activeTree,
         Swapping, SwapInv
<1>15. CASE RemoveTx
  BY <1>15
     DEF RemoveTx, IndInv, ActivationStep, Active, Intact, ReadyFor, Running, activeTree,
         Swapping, SwapInv
<1>16. CASE Restore
  <2>1. env' = env \/ env'.status = "broken"
    BY <1>16 DEF Restore, Broken
  <2>2. Running = None
    BY <1>16 DEF Restore, IndInv, BackendInv, JobInv, SyncLabels, Swapping, Running
  <2> QED
    BY <1>16, <2>1, <2>2
       DEF Restore, ActivationStep, Active, Intact, ReadyFor, Running, activeTree, Swapping
<1>17. CASE Restoring
  BY <1>17, ValidTree, CommitTrees
     DEF Restoring, IndInv, ActivationStep, Active, Intact, ReadyFor, Running, activeTree,
         Healthy, Swapping, TypeOK
<1>18. CASE StageWrite
  BY <1>18, StageWriteStep
     DEF IndInv, ActivationStep, Active, Intact, ReadyFor, Running, activeTree, Swapping, JobInv,
         StageInv, TreesInv
<1>19. CASE StageVerified
  BY <1>19, StageVerifiedStep
     DEF IndInv, ActivationStep, Active, Intact, ReadyFor, Running, activeTree, Swapping
<1>20. CASE PrepareSucceeds
  BY <1>20, ReadyFields, ValidTree
     DEF PrepareSucceeds, IndInv, ActivationStep, Active, Intact, ReadyFor, Running, activeTree,
         Healthy, Swapping, TypeOK
<1>21. CASE PrepareFails
  <2>1. env' = env \/ env'.status = "broken"
    BY <1>21 DEF PrepareFails, Broken
  <2>2. Running = None
    BY <1>21 DEF PrepareFails, Swapping, Running
  <2> QED
    BY <1>21, <2>1, <2>2
       DEF PrepareFails, ActivationStep, Active, Intact, ReadyFor, Running, activeTree, Swapping
<1>22. CASE BackendCheck
  BY <1>22
     DEF BackendCheck, ActivationStep, Active, Intact, ReadyFor, Running, activeTree, disk,
         Swapping
<1>23. CASE BackendSpawn
  BY <1>23, ValidTree, ReadyFields
     DEF BackendSpawn, Startable, IndInv, ActivationStep, Active, Intact, ReadyFor, Running,
         activeTree, Healthy, disk, Swapping, TypeOK
<1>24. CASE BackendStop
  BY <1>24
     DEF BackendStop, ActivationStep, Active, Intact, ReadyFor, Running, activeTree, disk,
         Swapping
<1>25. CASE Damage
  BY <1>25, TreeKinds, ValidTree, CommitTrees
     DEF Damage, IndInv, ActivationStep, Active, Intact, ReadyFor, Running, activeTree, Healthy,
         Swapping, TypeOK
<1>26. CASE UNCHANGED <<repo, previous, updateTx, env, backend>>
  BY <1>26 DEF ActivationStep, Active, Intact, ReadyFor, Running, activeTree, Swapping
<1> QED
  BY <1>1, <1>2, <1>3, <1>4, <1>5, <1>6, <1>7, <1>8, <1>9, <1>10, <1>11, <1>12, <1>13, <1>14,
     <1>15, <1>16, <1>17, <1>18, <1>19, <1>20, <1>21, <1>22, <1>23, <1>24, <1>25, <1>26, Writers

(* What module Activation calls these steps.                               *)
LEMMA ActivationAllows ==
  ASSUME ActivationStep
  PROVE  [A!Next]_(A!vars)
<1>1. CASE UNCHANGED <<Active, Intact, ReadyFor, Running>>
  BY <1>1 DEF A!vars, Active, Intact, ReadyFor, Running
<1>2. CASE /\ Running = None /\ Active' \in Commit /\ Intact'
           /\ UNCHANGED <<ReadyFor, Running>>
  <2>1. A!Switch(Active')
    BY <1>2 DEF A!Switch, Active, Intact, ReadyFor, Running
  <2> QED BY <1>2, <2>1 DEF A!Next
<1>3. CASE /\ Running = None /\ Active # None /\ ReadyFor' = Active
           /\ UNCHANGED <<Active, Intact, Running>>
  BY <1>3 DEF A!Next, A!MakeReady, Active, Intact, ReadyFor, Running
<1>4. CASE /\ Running = None /\ ReadyFor' = None
           /\ UNCHANGED <<Active, Intact, Running>>
  BY <1>4 DEF A!Next, A!Invalidate, Active, Intact, ReadyFor, Running
<1>5. CASE /\ Running = None /\ Active # None /\ ReadyFor = Active /\ Running' = Active
           /\ UNCHANGED <<Active, Intact, ReadyFor>>
  BY <1>5 DEF A!Next, A!Start, Active, Intact, ReadyFor, Running
<1>6. CASE Running' = None /\ UNCHANGED <<Active, Intact, ReadyFor>>
  BY <1>6 DEF A!Next, A!Stop, Active, Intact, ReadyFor, Running
<1>7. CASE Active' = None /\ ~Intact' /\ UNCHANGED <<ReadyFor, Running>>
  BY <1>7 DEF A!Next, A!Lose, Active, Intact, ReadyFor, Running
<1> QED BY <1>1, <1>2, <1>3, <1>4, <1>5, <1>6, <1>7 DEF ActivationStep

(* The directories, update.json and environment.json implement one active  *)
(* revision: a swap, whether it is finished by the command or by a         *)
(* recovery, replaces it in one step, and no step does so under a backend. *)
THEOREM WorkspaceImplementsActivation == Spec => ImplementsActivation
<1>1. Init => A!Init
  <2> SUFFICES ASSUME Init
               PROVE  A!Init
    OBVIOUS
  <2>1. activeTree = Missing /\ ~IsValid(Missing) /\ Missing.kind # "unreadable"
    BY TreeKinds, Records DEF Init, activeTree, Missing
  <2>2. env.status # "ready" /\ backend.at # "running"
    BY Records DEF Init
  <2> QED BY <2>1, <2>2 DEF A!Init, Healthy
<1>2. ASSUME IndInv, [Next]_vars
      PROVE  [A!Next]_(A!vars)
  <2>1. CASE Next
    BY <1>2, <2>1, ActivationShape, ActivationAllows
  <2>2. CASE UNCHANGED vars
    BY <2>2 DEF vars, disk, A!vars, activeTree
  <2> QED BY <1>2, <2>1, <2>2
<1> QED BY <1>1, <1>2, WorkspaceInvariant, PTL DEF Spec, ImplementsActivation, A!Spec

(* completeActiveTarget, Swap: the retired tree goes only when the         *)
(* environment is broken for the commit that replaced it.                  *)
THEOREM RetiredTreeOutlivesReady == Spec => RetiredOutlivesReady
<1>1. ASSUME IndInv, [Next]_vars
      PROVE  [\A o \in Op :
                previous[o] # Missing /\ previous'[o] # previous[o] /\ repo' = repo
                  /\ IsValid(repo) => env.status = "broken" /\ env.target = repo.commit]_vars
  BY <1>1, RetiredIsHeld
<1> QED BY <1>1, WorkspaceInvariant, PTL DEF Spec, RetiredOutlivesReady

(* stage.go: next to a running backend no command touches an update that   *)
(* was staged from its revision.                                           *)
THEOREM StagedUpdateIsKept == Spec => StagedIsKept
<1>1. ASSUME IndInv, [Next]_vars
      PROVE  [backend.at = "running" /\ updateTx.cmd = "stage" /\ updateTx.stage = "verify"
              /\ IsValid(repo) /\ updateTx.base = repo.commit =>
                UNCHANGED <<update, updateTx>>]_vars
  BY <1>1, StagedIsHeld
<1> QED BY <1>1, WorkspaceInvariant, PTL DEF Spec, StagedIsKept
=============================================================================
