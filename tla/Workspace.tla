------------------------------ MODULE Workspace ------------------------------
(***************************************************************************)
(* The workspace of one application root: workspace sync and workspace     *)
(* stage (gitrepo/service.go, stage.go, swap.go, restore.go), the recovery *)
(* they call (module Recovery), the writes of environment.json by the      *)
(* commands that prepare the environment, and the checks the backend       *)
(* supervisor makes before it starts the backend.                          *)
(*                                                                         *)
(* The leases are those of module Leases: one command at a time, none but  *)
(* workspace stage next to a backend.  Every call that changes a file is a *)
(* step, which may fail or be cancelled, and the process may die between   *)
(* any two.                                                                *)
(***************************************************************************)
EXTENDS Recovery

Healthy(t) == IF IsValid(t) THEN t.commit ELSE None

VersionAt(c) == IF c = None THEN None ELSE VersionOf[c]

Unused(o) == update[o] = Missing /\ previous[o] = Missing /\ updateTx.op # o

-----------------------------------------------------------------------------
(* Sync: lease, Recover, mutation.json, Check, what to do.                 *)

(* bootstrap removes the record of a dead workspace sync before it calls   *)
(* Sync (recoverPreparationTransaction); workspace sync overwrites it.     *)
BeginSync(v, o) ==
  /\ pc = "idle" /\ backend.at = "off"
  /\ Unused(o)
  /\ mutationTx' \in {mutationTx, FALSE}
  /\ CallRecover([NoJob EXCEPT !.cmd = "sync", !.op = o, !.version = v],
                 FALSE, "syncOpen", "idle")
  /\ UNCHANGED <<repo, update, previous, updateTx, env, backend>>

(* The environment is read once; mutation.json is written.                 *)
SyncOpen ==
  /\ pc = "syncOpen"
  /\ \/ /\ mutationTx' = TRUE
        /\ Goto("syncCheck")
        /\ job' = [job EXCEPT !.last = env.last]
     \/ /\ mutationTx' \in BOOLEAN      \* cancelBeforeSwap
        /\ mutationTx' => mutationTx
        /\ Return
     \/ /\ mutationTx' \in {mutationTx, TRUE}
        /\ \E keep \in BOOLEAN : Finish(keep)
  /\ UNCHANGED <<repo, update, previous, updateTx, env, backend>>

(* Check, and the staged update a former workspace stage has left: it is   *)
(* used if it was made from this revision to this version, else discarded. *)
Prepared(check) ==
  /\ updateTx.cmd = "stage"
  /\ updateTx.version = job.version /\ VersionAt(check) = job.version
  /\ updateTx.base = check /\ updateTx.target # check

SyncCheck ==
  /\ pc = "syncCheck"
  /\ LET check == Healthy(repo)
         checked == [job EXCEPT !.check = check]
     IN \/ /\ updateTx.cmd # "stage" \/ Prepared(check)
           /\ Goto("syncPlan")
           /\ job' = checked
        \/ /\ updateTx.cmd = "stage" /\ ~Prepared(check)
           /\ CallRecover(checked, TRUE, "syncPlan", "finish")
  /\ UNCHANGED <<disk, backend>>

SyncFails ==
  /\ pc \in {"syncCheck", "syncPlan"}
  /\ \E keep \in BOOLEAN : Finish(keep)
  /\ UNCHANGED <<disk, backend>>

(* readPreparedFetch                                                       *)
IsPrepared(t) == OfVersion(t, job.version) /\ t.commit = updateTx.target

UsePrepared ==
  /\ pc = "syncPlan" /\ updateTx.cmd = "stage"
  /\ IF IsPrepared(update[updateTx.op])
       THEN /\ Goto("syncVerified")
            /\ job' = [job EXCEPT !.op = updateTx.op, !.got = updateTx.target]
       ELSE Finish(TRUE)
  /\ UNCHANGED <<disk, backend>>

(* The version is there, and the caller keeps it (UseCurrent, offline), or *)
(* the branch has not moved.                                               *)
KeepCurrent ==
  /\ pc = "syncPlan" /\ updateTx.cmd # "stage"
  /\ VersionAt(job.check) = job.version
  /\ Goto("restore")
  /\ UNCHANGED <<disk, job, backend>>

BeginUpdate ==
  /\ pc = "syncPlan" /\ updateTx.cmd # "stage"
  /\ LET tx == [NoTx EXCEPT !.cmd = "sync", !.op = job.op, !.stage = "clone",
                            !.version = job.version]
     IN \/ updateTx' = tx /\ Goto("fetch") /\ UNCHANGED job
        \/ MayWriteTx(tx) /\ \E keep \in BOOLEAN : Finish(keep)
  /\ UNCHANGED <<repo, update, previous, mutationTx, env, backend>>

-----------------------------------------------------------------------------
(* Fetch: clone, checkout, verification and binding, into update[op].      *)

FetchWrites ==
  /\ pc = "fetch"
  /\ \E t \in Unfinished(job.version) : update' = [update EXCEPT ![job.op] = t]
  /\ UNCHANGED <<repo, previous, updateTx, mutationTx, env, pc, job, backend>>

FetchSucceeds ==
  /\ pc = "fetch"
  /\ \E c \in Commit :
       /\ VersionOf[c] = job.version
       /\ update' = [update EXCEPT ![job.op] = Valid(c)]
       /\ job' = [job EXCEPT !.got = c]
  /\ Goto(IF job.cmd = "sync" THEN "syncVerified" ELSE "stageVerified")
  /\ UNCHANGED <<repo, previous, updateTx, mutationTx, env, backend>>

(* Every source failed, or the fetch was cancelled: the temporary tree is  *)
(* deleted if that succeeds.  Stage recovers, Sync ends before the swap.   *)
FetchFails ==
  /\ pc = "fetch"
  /\ update' \in {update, [update EXCEPT ![job.op] = Missing]}
  /\ IF job.cmd = "sync"
       THEN \E keep \in BOOLEAN : Finish(keep)
       ELSE CallRecover(job, TRUE, "idle", "idle")
  /\ UNCHANGED <<repo, previous, updateTx, mutationTx, env, backend>>

(* The record becomes that of a sync which names both commits.             *)
SyncVerified ==
  /\ pc = "syncVerified"
  /\ LET tx == [updateTx EXCEPT !.cmd = "sync", !.stage = "verify",
                                !.target = job.got,
                                !.base = IF job.check = None THEN @ ELSE job.check]
     IN \/ /\ updateTx' = tx
           /\ IF job.check = job.got
                THEN CallRecover(job, FALSE, "restore", "finish")
                ELSE Goto("swap") /\ UNCHANGED job
        \/ MayWriteTx(tx) /\ \E keep \in BOOLEAN : Finish(keep)
  /\ UNCHANGED <<repo, update, previous, mutationTx, env, backend>>

-----------------------------------------------------------------------------
(* Swap: update.json, two renames, update.json, environment, deletion.     *)

Mutant_SwapRecord ==
  /\ pc = "swap"
  /\ Goto(IF repo = Missing THEN "activate" ELSE "retire")
  /\ UNCHANGED <<disk, job, backend>>

SwapRecord ==
  /\ pc = "swap"
  /\ LET tx == [updateTx EXCEPT !.stage = "swap"]
     IN \/ updateTx' = tx /\ UNCHANGED job
           /\ Goto(IF repo = Missing THEN "activate" ELSE "retire")
        \/ MayWriteTx(tx) /\ \E keep \in BOOLEAN : Finish(keep)
  /\ UNCHANGED <<repo, update, previous, mutationTx, env, backend>>

(* recoverPartialSwap, then finishPreSwap                                  *)
RecoverPartialSwap == CallRecover([job EXCEPT !.keep = TRUE], FALSE, "finish", "idle")

Retire ==
  /\ pc = "retire"
  /\ \/ /\ previous' = [previous EXCEPT ![updateTx.op] = repo]
        /\ repo' = Missing
        /\ \/ Goto("activate") /\ UNCHANGED job
           \/ RecoverPartialSwap
     \/ UNCHANGED <<repo, previous>> /\ \E keep \in BOOLEAN : Finish(keep)
  /\ UNCHANGED <<update, updateTx, mutationTx, env, backend>>

(* Once the rename has happened an error leaves everything to a recovery.  *)
Activate ==
  /\ pc = "activate"
  /\ \/ /\ repo' = update[updateTx.op]
        /\ update' = [update EXCEPT ![updateTx.op] = Missing]
        /\ \/ Goto("swapCleanup") /\ UNCHANGED job
           \/ Return
     \/ /\ UNCHANGED <<repo, update>>
        /\ IF previous[updateTx.op] = Missing
             THEN \E keep \in BOOLEAN : Finish(keep)
             ELSE RecoverPartialSwap
  /\ UNCHANGED <<previous, updateTx, mutationTx, env, backend>>

SwapCleanup ==
  /\ pc = "swapCleanup"
  /\ LET tx == [updateTx EXCEPT !.stage = "cleanup"]
     IN \/ updateTx' = tx /\ Goto("commitEnv") /\ UNCHANGED job
        \/ MayWriteTx(tx) /\ Return
  /\ UNCHANGED <<repo, update, previous, mutationTx, env, backend>>

Mutant_CommitEnvironment ==
  /\ pc = "commitEnv"
  /\ Goto("dropPrevious")
  /\ UNCHANGED <<disk, job, backend>>

CommitEnvironment ==
  /\ pc = "commitEnv"
  /\ LET broken == Broken(job.last, job.got, "changed")
     IN \/ env' = broken /\ Goto("dropPrevious") /\ UNCHANGED job
        \/ env' \in {env, broken} /\ Return
  /\ UNCHANGED <<repo, update, previous, updateTx, mutationTx, backend>>

DropPrevious ==
  /\ pc = "dropPrevious"
  /\ LET o == updateTx.op IN
     \/ /\ previous' \in {[previous EXCEPT ![o] = e] : e \in Eroded(previous[o]) \ {previous[o]}}
        /\ UNCHANGED <<pc, job>>
     \/ /\ previous' = [previous EXCEPT ![o] = Missing]
        /\ Goto("removeTx") /\ UNCHANGED job
     \/ /\ previous' \in {previous, [previous EXCEPT ![o] = Missing]}
        /\ Return
  /\ UNCHANGED <<repo, update, updateTx, mutationTx, env, backend>>

RemoveTx ==
  /\ pc = "removeTx"
  /\ \/ updateTx' = NoTx /\ Goto("removeMutation") /\ UNCHANGED job
     \/ MayWriteTx(NoTx) /\ Return
  /\ UNCHANGED <<repo, update, previous, mutationTx, env, backend>>

RemoveMutation ==
  /\ pc = "removeMutation"
  /\ mutationTx' \in BOOLEAN
  /\ Return
  /\ UNCHANGED <<repo, update, previous, updateTx, env, backend>>

(* preserveUpdateTransaction: update.json stays if its directory or the    *)
(* cause of the failure says so.                                           *)
Mutant_Preserve(o) == job.keep

Preserve(o) == job.keep \/ update[o] # Missing

FinishPreSwap ==
  /\ pc = "finish"
  /\ LET o == IF updateTx.cmd = "none" THEN job.op ELSE updateTx.op
     IN IF Preserve(o) THEN UNCHANGED updateTx ELSE MayWriteTx(NoTx)
  /\ mutationTx' \in BOOLEAN
  /\ mutationTx' => mutationTx
  /\ Return
  /\ UNCHANGED <<repo, update, previous, env, backend>>

-----------------------------------------------------------------------------
(* restoreOrFinishUnchanged: tracked files are put back from the commit,   *)
(* after the environment has been invalidated.                             *)

Restore ==
  /\ pc = "restore"
  /\ \/ /\ repo.whole
        /\ Goto("removeMutation")
        /\ UNCHANGED <<env, job>>
     \/ /\ IsValid(repo) /\ ~repo.whole
        /\ env' = Broken(job.last, job.check, "changed")
        /\ Goto("restoring")
        /\ UNCHANGED job
     \/ /\ env' \in {env} \cup
             (IF IsValid(repo) /\ ~repo.whole
                THEN {Broken(job.last, job.check, "changed")} ELSE {})
        /\ \E keep \in BOOLEAN : Finish(keep)
  /\ UNCHANGED <<repo, update, previous, updateTx, mutationTx, backend>>

Restoring ==
  /\ pc = "restoring"
  /\ \/ /\ IsValid(repo)
        /\ repo' = Valid(repo.commit)
        /\ Goto("removeMutation")
        /\ UNCHANGED job
     \/ /\ UNCHANGED repo
        /\ \E keep \in BOOLEAN : Finish(keep)
  /\ UNCHANGED <<update, previous, updateTx, mutationTx, env, backend>>

-----------------------------------------------------------------------------
(* Stage: only update[op] and update.json, next to a running backend.      *)

(* The target is the version of the healthy active repository.             *)
BeginStage(o) ==
  /\ pc = "idle"
  /\ IsValid(repo) /\ Unused(o)
  /\ job' = [NoJob EXCEPT !.cmd = "stage", !.op = o, !.check = repo.commit,
                          !.version = VersionOf[repo.commit]]
  /\ Goto("stageOpen")
  /\ UNCHANGED <<disk, backend>>

StagedFromHere(tx) ==
  tx.stage = "verify" /\ tx.version = job.version /\ tx.base = job.check

(* A sync that was cut off has to be recovered first; an update that was   *)
(* staged from this revision is kept.                                      *)
StageOpen ==
  /\ pc = "stageOpen"
  /\ \/ /\ updateTx.cmd = "none"
        /\ Goto("stageWrite") /\ UNCHANGED job
     \/ /\ updateTx.cmd = "stage" /\ ~StagedFromHere(updateTx)
        /\ CallRecover(job, TRUE, "stageWrite", "idle")
     \/ Return
  /\ UNCHANGED <<disk, backend>>

StageWrite ==
  /\ pc = "stageWrite"
  /\ LET tx == [NoTx EXCEPT !.cmd = "stage", !.op = job.op, !.stage = "clone",
                            !.version = job.version, !.base = job.check]
     IN \/ updateTx' = tx /\ Goto("fetch") /\ UNCHANGED job
        \/ MayWriteTx(tx) /\ Return
  /\ UNCHANGED <<repo, update, previous, mutationTx, env, backend>>

StageVerified ==
  /\ pc = "stageVerified"
  /\ \/ /\ job.got = job.check
        /\ CallRecover(job, TRUE, "idle", "idle")
        /\ UNCHANGED updateTx
     \/ /\ job.got # job.check
        /\ MayWriteTx([updateTx EXCEPT !.stage = "verify", !.target = job.got])
        /\ Return
  /\ UNCHANGED <<repo, update, previous, mutationTx, env, backend>>

-----------------------------------------------------------------------------
(* The commands that prepare the environment (bootstrap, dependencies,     *)
(* repair) end by writing environment.json.  A mutation.json left by a     *)
(* sync stops all of them but bootstrap, which begins with a Sync.         *)

Mutant_PrepareSucceeds ==
  /\ pc = "idle" /\ backend.at = "off"
  /\ ~mutationTx /\ IsValid(repo)
  /\ env.target # None /\ env' = Ready(env.target)
  /\ UNCHANGED <<repo, update, previous, updateTx, mutationTx, pc, job, backend>>

PrepareSucceeds ==
  /\ pc = "idle" /\ backend.at = "off"
  /\ ~mutationTx /\ IsValid(repo)
  /\ env' = Ready(repo.commit)
  /\ UNCHANGED <<repo, update, previous, updateTx, mutationTx, pc, job, backend>>

(* activeEnvironmentRevision: what environment.json speaks of.             *)
ActiveRevision == IF env.status = "broken" THEN env.target ELSE env.last

(* A step failed, or the record of one that died is found: the environment *)
(* is broken for the commit in repo, or for the one it was about.          *)
PrepareFails ==
  /\ pc = "idle" /\ backend.at = "off"
  /\ \E c \in {Healthy(repo), ActiveRevision} \ {None} :
       env' = Broken(env.last, c, "failed")
  /\ mutationTx' = FALSE
  /\ UNCHANGED <<repo, update, previous, updateTx, pc, job, backend>>

-----------------------------------------------------------------------------
(* The cleanup command deletes the repo.update-<op> that update.json names *)
(* once the process that wrote it is dead, whatever its stage is, and      *)
(* leaves update.json as it is (classifyRepoUpdate, executeItem).          *)
Cleanup ==
  /\ pc = "idle" /\ backend.at = "off"
  /\ updateTx.cmd # "none" /\ update[updateTx.op] # Missing
  /\ \E t \in {Missing} \cup Eroded(update[updateTx.op]) :
       update' = [update EXCEPT ![updateTx.op] = t]
  /\ UNCHANGED <<repo, previous, updateTx, mutationTx, env, pc, job, backend>>

-----------------------------------------------------------------------------
(* The supervisor starts the backend: validateEnvironmentReady and         *)
(* checkRepository, then recheckRevision right before the process starts.  *)

Mutant_Startable(c) == env = Ready(c) /\ IsValid(repo)

Startable(c) == env = Ready(c) /\ IsValid(repo) /\ repo.commit = c

BackendCheck ==
  /\ pc = "idle" /\ backend.at = "off"
  /\ \E c \in Commit : Startable(c) /\ backend' = [at |-> "checked", commit |-> c]
  /\ UNCHANGED <<disk, pc, job>>

BackendSpawn ==
  /\ backend.at = "checked"
  /\ backend' = IF Startable(backend.commit)
                  THEN [backend EXCEPT !.at = "running"]
                  ELSE [at |-> "off", commit |-> None]
  /\ UNCHANGED <<disk, pc, job>>

BackendStop ==
  /\ backend.at # "off"
  /\ backend' = [at |-> "off", commit |-> None]
  /\ UNCHANGED <<disk, pc, job>>

-----------------------------------------------------------------------------
(* What the runtime does not control.                                      *)

(* The process dies: files stay as they are, the lease is abandoned.       *)
Crash ==
  /\ pc # "idle"
  /\ Return
  /\ UNCHANGED <<disk, backend>>

(* Somebody deletes files of repo, or Git's own.                           *)
Damage ==
  /\ IsValid(repo) /\ repo.whole
  /\ repo' \in {Holed(repo.commit), Unreadable}
  /\ UNCHANGED <<update, previous, updateTx, mutationTx, env, pc, job, backend>>

-----------------------------------------------------------------------------
Sync ==
  \/ \E v \in Version, o \in Op : BeginSync(v, o)
  \/ SyncOpen \/ SyncCheck \/ SyncFails \/ UsePrepared \/ KeepCurrent \/ BeginUpdate
  \/ SyncVerified \/ FinishPreSwap

Fetch == FetchWrites \/ FetchSucceeds \/ FetchFails

Swap ==
  \/ SwapRecord \/ Retire \/ Activate \/ SwapCleanup \/ CommitEnvironment
  \/ DropPrevious \/ RemoveTx \/ RemoveMutation

Stage ==
  \/ \E o \in Op : BeginStage(o)
  \/ StageOpen \/ StageWrite \/ StageVerified

Next ==
  \/ Sync \/ Recover \/ Fetch \/ Swap \/ Restore \/ Restoring \/ Stage
  \/ PrepareSucceeds \/ PrepareFails \/ Cleanup
  \/ BackendCheck \/ BackendSpawn \/ BackendStop
  \/ Crash \/ Damage

Spec == Init /\ [][Next]_vars

-----------------------------------------------------------------------------
(* Types of all variables.                                                 *)
TypeOK ==
  /\ repo \in Tree
  /\ update \in [Op -> Tree]
  /\ previous \in [Op -> Tree]
  /\ updateTx \in UpdateTx
  /\ mutationTx \in BOOLEAN
  /\ env \in Environment
  /\ pc \in {"idle", "recover", "recDropUpdate", "recDropPrevious", "recRollback",
             "recActivate", "recWriteEnv", "recRemoveTx", "syncOpen", "syncCheck",
             "syncPlan", "fetch", "syncVerified", "swap", "retire", "activate",
             "swapCleanup", "commitEnv", "dropPrevious", "removeTx", "removeMutation",
             "finish", "restore", "restoring", "stageOpen", "stageWrite", "stageVerified"}
  /\ job \in Job
  /\ backend \in [at : {"off", "checked", "running"}, commit : Commit \cup {None}]

(* No directory is orphaned: whatever fails or dies, a repo.update-<op> or *)
(* repo.previous-<op> that exists is the one update.json names, so that a  *)
(* later Recover can find it (preserveUpdateTransaction, finishRecovery).  *)
EveryTreeIsNamed ==
  \A o \in Op :
    update[o] # Missing \/ previous[o] # Missing =>
      updateTx.cmd # "none" /\ updateTx.op = o

(* Once a repository is installed it is never gone: when repo is missing,  *)
(* the record of a swap names the retired tree that a recovery puts back.  *)
NeverWithoutARepository ==
  repo = Missing /\ env.status # "none" =>
    /\ updateTx.cmd = "sync" /\ updateTx.stage = "swap"
    /\ previous[updateTx.op] # Missing

(* environment.json may say "ready" for another commit than that of repo   *)
(* only while update.json still stands for the invalidation it owes.       *)
StaleReadyIsCovered ==
  env.status = "ready" /\ IsValid(repo) /\ env.last # repo.commit =>
    updateTx.cmd = "sync" /\ updateTx.stage \in {"swap", "cleanup"}

(* The backend runs on what it was checked against: no command replaces or *)
(* invalidates the revision under it.                                      *)
RunningIsReady ==
  backend.at = "running" =>
    /\ env = Ready(backend.commit)
    /\ repo # Missing
    /\ IsValid(repo) => repo.commit = backend.commit

(* completeActiveTarget, Swap: the retired tree is not touched before the  *)
(* environment is durably broken for the commit that replaced it.          *)
RetiredOutlivesReady ==
  [][\A o \in Op :
       previous[o] # Missing /\ previous'[o] # previous[o] /\ repo' = repo
         /\ IsValid(repo) => env.status = "broken" /\ env.target = repo.commit]_vars

(* stage.go: an update staged from the running revision stays as it is     *)
(* until the next bootstrap, whatever other staging runs next to it.       *)
StagedIsKept ==
  [][backend.at = "running" /\ updateTx.cmd = "stage" /\ updateTx.stage = "verify"
     /\ IsValid(repo) /\ updateTx.base = repo.commit =>
       UNCHANGED <<update, updateTx>>]_vars

(* A crash inside a swap is never ambiguous: as long as one directory holds *)
(* the target or the retired tree, and none of them is damaged or half     *)
(* deleted, the recovery has a plan (recoverSwap).                         *)
SwapIsIntact ==
  LET u == update[updateTx.op]
      p == previous[updateTx.op]
  IN /\ ~Incomplete(repo) /\ ~Incomplete(u)
     /\ Incomplete(p) => updateTx.stage = "cleanup"

SwapHasATree ==
  \/ IsTarget(updateTx, repo)
  \/ IsTarget(updateTx, update[updateTx.op])
  \/ IsValid(previous[updateTx.op])

SwapIsRecoverable ==
  updateTx.stage \in {"swap", "cleanup"} /\ SwapIsIntact /\ SwapHasATree =>
    PlanNow(FALSE) \notin {"nothing", "ambiguous"}

(* The directories and records implement one active revision that is       *)
(* replaced in one step: see module Activation.                            *)
activeTree ==
  IF repo = Missing /\ updateTx.cmd # "none" THEN previous[updateTx.op] ELSE repo

A == INSTANCE Activation WITH
       active <- Healthy(activeTree),
       intact <- activeTree.kind # "unreadable",
       readyFor <- IF env.status = "ready" THEN env.last ELSE None,
       running <- IF backend.at = "running" THEN backend.commit ELSE None

ImplementsActivation == A!Spec

-----------------------------------------------------------------------------
(* Rule 1 of the recovery rules in the architecture document: an update    *)
(* whose clone did not complete is deleted.                                *)
UnfinishedCloneIsDeleted ==
  pc = "idle" /\ updateTx.cmd = "sync" /\ updateTx.stage = "clone" /\ IsValid(repo) =>
    PlanNow(FALSE) = "dropUpdate"

(* Rule 2: an update that was verified and not activated is deleted, and   *)
(* the current repository is kept.                                         *)
VerifiedUpdateIsDeleted ==
  pc = "idle" /\ updateTx.cmd = "sync" /\ updateTx.stage = "verify" /\ IsValid(repo) =>
    PlanNow(FALSE) = "dropUpdate"

(* Rule 3: an interrupted swap is recovered to the one repository that     *)
(* update.json and the identities of the directories determine.            *)
InterruptedSwapIsRecovered ==
  pc = "idle" /\ updateTx.stage \in {"swap", "cleanup"} /\ SwapIsIntact =>
    PlanNow(FALSE) \notin {"nothing", "ambiguous"}

(* The record of a completed stage stands for an update that the next      *)
(* bootstrap of this version can use.                                      *)
CompletedStageIsUsable ==
  pc = "idle" /\ updateTx.cmd = "stage" /\ updateTx.stage = "verify"
  /\ IsValid(repo) /\ updateTx.base = repo.commit =>
    IsTarget(updateTx, update[updateTx.op])
=============================================================================
