------------------------------ MODULE Recovery ------------------------------
(***************************************************************************)
(* gitrepo/recovery.go: Recovery.Recover classifies repo, repo.update-<op> *)
(* and repo.previous-<op> of the operation that update.json names, picks a *)
(* plan before it touches anything, and carries it out one file-system or  *)
(* state call at a time.                                                   *)
(***************************************************************************)
EXTENDS WorkspaceState

-----------------------------------------------------------------------------
(* The plan: the operators below speak of a record tx and the trees it     *)
(* names, u, p and the repository r.                                       *)

(* classifyPath fails: what it may tolerate depends on the stage.          *)
Unclassifiable(tx, r, u, p) ==
  \/ r.kind = "unreadable" /\ tx.stage = "cleanup"
  \/ r.kind = "invalid" /\ tx.stage # "swap"
  \/ u.kind = "unreadable" /\ tx.stage # "clone"
  \/ u.kind = "invalid"
  \/ Incomplete(p) /\ tx.stage # "cleanup"

CommitMismatch(tx, r, u, p) ==
  /\ tx.target # None
  /\ \/ IsValid(u) /\ u.commit # tx.target
     \/ IsValid(p) /\ p.commit # tx.base
     \/ IsValid(r) /\ r.commit \notin {tx.target, tx.base}

Mutant_IsTarget(tx, t) ==
  OfVersion(t, tx.version) /\ (tx.target = None \/ t.commit = tx.base)

IsTarget(tx, t) ==
  OfVersion(t, tx.version) /\ (tx.target = None \/ t.commit = tx.target)

(* recoverBeforeSwap                                                       *)
AmbiguousBeforeSwap(tx, r, u, p) ==
  \/ r = Missing /\ OfVersion(u, tx.version)
  \/ /\ tx.target = None
     /\ OfVersion(r, tx.version) /\ OfVersion(u, tx.version)
     /\ r.commit # u.commit
  \/ p # Missing
  \/ IsValid(u) /\ ~OfVersion(u, tx.version)
  \/ Incomplete(u) /\ tx.stage # "clone"

(* recoverSwap; a record of these stages always carries its target commit. *)
SwapPlan(tx, r, u, p) ==
  IF Incomplete(p) /\ ~(tx.stage = "cleanup" /\ IsTarget(tx, r) /\ u = Missing)
    THEN "ambiguous"
  ELSE IF IsTarget(tx, r)
    THEN IF u = Missing THEN "complete" ELSE "ambiguous"
  ELSE IF r # Missing
    THEN IF IsTarget(tx, u) /\ p = Missing THEN "dropUpdate" ELSE "ambiguous"
  ELSE IF IsValid(p) /\ (IsTarget(tx, u) \/ u = Missing) THEN "rollback"
  ELSE IF IsTarget(tx, u) /\ p = Missing THEN "activate"
  ELSE "ambiguous"

(* A staged update waits for the next bootstrap unless it is discarded; it *)
(* is deleted without a look at repo.                                      *)
StagePlan(tx, u, discard) ==
  IF tx.stage = "verify" /\ ~discard THEN "nothing"
  ELSE IF \/ u.kind = "invalid"
          \/ u.kind = "unreadable" /\ tx.stage = "verify"
          \/ IsValid(u) /\ ~OfVersion(u, tx.version)
    THEN "ambiguous"
  ELSE "dropUpdate"

Plan(tx, r, u, p, discard) ==
  IF tx.cmd = "none" THEN "nothing"
  ELSE IF tx.cmd = "stage" THEN StagePlan(tx, u, discard)
  ELSE IF Unclassifiable(tx, r, u, p) \/ CommitMismatch(tx, r, u, p) THEN "ambiguous"
  ELSE IF tx.stage \in {"swap", "cleanup"} THEN SwapPlan(tx, r, u, p)
  ELSE IF AmbiguousBeforeSwap(tx, r, u, p) THEN "ambiguous"
  ELSE "dropUpdate"

(* The plan a Recover that runs now would follow.                          *)
PlanNow(discard) ==
  IF updateTx.cmd = "none" THEN "nothing"
  ELSE Plan(updateTx, repo, update[updateTx.op], previous[updateTx.op], discard)

-----------------------------------------------------------------------------
(* Carrying it out.                                                        *)

RecoverReturns ==
  IF job.onSuccess = "idle" THEN Return ELSE Goto(job.onSuccess) /\ UNCHANGED job

(* The caller either returns the error or passes it to finishPreSwap; only *)
(* a cancellation is not one of the codes that keep update.json.           *)
RecoverFails ==
  IF job.onFailure = "idle" THEN Return ELSE \E keep \in BOOLEAN : Finish(keep)

Classify ==
  /\ pc = "recover"
  /\ \/ /\ PlanNow(job.discard) = "nothing"
        /\ RecoverReturns
     \/ /\ PlanNow(job.discard) = "ambiguous"
        /\ IF job.onFailure = "idle" THEN Return ELSE Finish(TRUE)
     \/ /\ PlanNow(job.discard) = "dropUpdate"
        /\ Goto("recDropUpdate")
        /\ UNCHANGED job
     \/ /\ PlanNow(job.discard) = "complete"
        /\ Goto("recWriteEnv")
        /\ UNCHANGED job
     \/ /\ PlanNow(job.discard) = "rollback"
        /\ Goto("recRollback")
        /\ UNCHANGED job
     \/ /\ PlanNow(job.discard) = "activate"
        /\ Goto("recActivate")
        /\ UNCHANGED job
     \/ RecoverFails
  /\ UNCHANGED <<disk, backend>>

(* Deletion of one of the directories of update.json: it goes on, ends, or *)
(* is given up (error, cancellation, audit) wherever it is.                *)
DropTree(tree, label, next) ==
  LET t == tree[updateTx.op] IN
  \/ /\ tree' \in {[tree EXCEPT ![updateTx.op] = e] : e \in Eroded(t) \ {t}}
     /\ Goto(label)
     /\ UNCHANGED job
  \/ /\ tree' = [tree EXCEPT ![updateTx.op] = Missing]
     /\ Goto(next)
     /\ UNCHANGED job
  \/ /\ tree' \in {tree, [tree EXCEPT ![updateTx.op] = Missing]}
     /\ RecoverFails

RecDropUpdate ==
  /\ pc = "recDropUpdate"
  /\ DropTree(update, "recDropUpdate", "recRemoveTx")
  /\ UNCHANGED <<repo, previous, updateTx, mutationTx, env, backend>>

RecDropPrevious ==
  /\ pc = "recDropPrevious"
  /\ DropTree(previous, "recDropPrevious", "recRemoveTx")
  /\ UNCHANGED <<repo, update, updateTx, mutationTx, env, backend>>

(* RenameRepositoryRollback: previous becomes repo again.                  *)
RecRollback ==
  /\ pc = "recRollback"
  /\ \/ /\ repo' = previous[updateTx.op]
        /\ previous' = [previous EXCEPT ![updateTx.op] = Missing]
        /\ \/ Goto("recDropUpdate") /\ UNCHANGED job
           \/ RecoverFails
     \/ RecoverFails /\ UNCHANGED <<repo, previous>>
  /\ UNCHANGED <<update, updateTx, mutationTx, env, backend>>

(* RenameUpdateToRepository of a first installation that was cut off.  An  *)
(* error after the rename still writes the environment before it returns.  *)
RecActivate ==
  /\ pc = "recActivate"
  /\ \/ /\ repo' = update[updateTx.op]
        /\ update' = [update EXCEPT ![updateTx.op] = Missing]
        /\ \/ Goto("recWriteEnv") /\ UNCHANGED <<job, env>>
           \/ /\ env' \in {env, Broken(env.last, updateTx.target, "changed")}
              /\ RecoverFails
     \/ RecoverFails /\ UNCHANGED <<repo, update, env>>
  /\ UNCHANGED <<previous, updateTx, mutationTx, backend>>

(* applyEnvironment, before the retired tree is deleted.                   *)
Mutant_RecWriteEnv ==
  /\ pc = "recWriteEnv"
  /\ Goto("recDropPrevious")
  /\ UNCHANGED <<disk, job, backend>>

RecWriteEnv ==
  /\ pc = "recWriteEnv"
  /\ LET broken == Broken(env.last, updateTx.target, "changed") IN
     \/ env' = broken /\ Goto("recDropPrevious") /\ UNCHANGED job
     \/ env' \in {env, broken} /\ RecoverFails
  /\ UNCHANGED <<repo, update, previous, updateTx, mutationTx, backend>>

(* finishRecovery                                                          *)
RecRemoveTx ==
  /\ pc = "recRemoveTx"
  /\ \/ updateTx' = NoTx /\ RecoverReturns
     \/ MayWriteTx(NoTx) /\ RecoverFails
  /\ UNCHANGED <<repo, update, previous, mutationTx, env, backend>>

Recover ==
  \/ Classify \/ RecDropUpdate \/ RecDropPrevious \/ RecRollback
  \/ RecActivate \/ RecWriteEnv \/ RecRemoveTx
=============================================================================
