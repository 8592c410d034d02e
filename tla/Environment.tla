------------------------------ MODULE Environment ------------------------------
(***************************************************************************)
(* The commands that prepare the environment of the backend: bootstrap,    *)
(* repair, dependencies sync and rebuild, environment ensure and repair    *)
(* (cli/bootstrap.go, repair.go, dependencies.go, environment.go), what    *)
(* uv.Bootstrapper, PythonService and DependenciesService do to the uv     *)
(* directory, its archive, the managed Python and the venv, and the        *)
(* recovery of mutation.json (cli/environment_support.go).                 *)
(*                                                                         *)
(* A command runs under the mutation mutex (module Lock), so there is one  *)
(* at a time.  It is a script: a sequence of steps, each of which names    *)
(* the stage it reports.  Any step can fail, the output can fail between   *)
(* two steps, and the process can die between two steps or in the middle   *)
(* of one that changes a tree.  workspace sync, whose directories are the  *)
(* subject of module Workspace, is reduced to the step that switches repo. *)
(***************************************************************************)
EXTENDS Naturals, Sequences

CONSTANTS
  Revision,     \* commits of the release branches
  VersionOf,    \* the version a commit belongs to
  None          \* no revision, no version

ASSUME RevisionAssumption == None \notin Revision /\ None \notin {VersionOf[r] : r \in Revision}

VARIABLES
  repo,      \* the revision of the repository, or None
  env,       \* environment.json: status and active revision
  pending,   \* update.json of a swap whose effect on env is not written yet
  mut,       \* mutation.json: stage and target version
  uv,        \* directory of the fixed uv version
  archive,   \* its archive in the download cache
  python,    \* the managed Python
  venv,      \* the revision the venv is synchronized with, "bad" or "none"
  job,       \* the running command, or Idle
  result,    \* what the last command said
  calm,      \* nothing fails any more
  hurt       \* history: a command made a usable environment unusable, untold

record == <<env, pending, mut>>
tool == <<uv, archive, python>>
vars == <<repo, env, pending, mut, uv, archive, python, venv, job, result, calm, hurt>>

Part == {"none", "bad", "good"}
Version == {VersionOf[r] : r \in Revision}
NoRecord == [stage |-> "none", version |-> None]
NoEnvironment == [status |-> "uninitialized", rev |-> None]
Ready(r) == [status |-> "ready", rev |-> r]
Broken(r) == [status |-> "broken", rev |-> r]

-----------------------------------------------------------------------------
(* The scripts.                                                            *)

S(do, stage) == [do |-> do, stage |-> stage]

EnsureSteps == <<S("mark", "uv.download"), S("ensureUV", "uv.download"), S("mark", "uv.verify")>>
SwitchSteps == <<S("settle", "workspace"), S("open", "workspace"), S("swap", "workspace"),
                 S("activate", "workspace"), S("drop", "workspace")>>
SyncSteps   == <<S("mark", "dependencies.sync"), S("syncVenv", "dependencies.sync"),
                 S("commit", "dependencies.sync"), S("drop", "dependencies.sync"),
                 S("succeed", "ready")>>
RebuildSteps == <<S("mark", "dependencies.rebuild"), S("rebuildVenv", "dependencies.rebuild")>> \o SyncSteps
InstallSteps == <<S("readSpec", "python.check"), S("mark", "python.install"),
                  S("installPython", "python.install")>>
ClearUV == <<S("clearUV", "uv.download")>>

Bootstrap ==
  <<S("begin", "uv.check")>> \o EnsureSteps \o <<S("drop", "uv.verify")>> \o SwitchSteps
    \o <<S("reuse", "dependencies.check"), S("begin", "python.check")>> \o InstallSteps
    \o <<S("mark", "dependencies.check")>> \o SyncSteps

Repair ==
  <<S("begin", "repair"), S("mark", "uv.download"), S("clearUV", "uv.download")>> \o Tail(EnsureSteps)
    \o <<S("mark", "python.check")>> \o InstallSteps \o RebuildSteps

EnvironmentEnsure ==
  <<S("begin", "uv.check")>> \o EnsureSteps \o <<S("drop", "uv.verify"), S("succeed", "done")>>

EnvironmentRepair ==
  <<S("begin", "uv.check"), S("mark", "uv.download"), S("clearUV", "uv.download")>> \o Tail(EnsureSteps)
    \o <<S("mark", "python.check")>> \o InstallSteps
    \o <<S("drop", "python.install"), S("succeed", "done")>>

Dependencies(steps) == <<S("begin", "dependencies.check"), S("checkTools", "uv.check")>> \o steps

Script ==
  [bootstrap    |-> Bootstrap,         repair    |-> Repair,
   envEnsure    |-> EnvironmentEnsure, envRepair |-> EnvironmentRepair,
   depsSync     |-> Dependencies(SyncSteps),
   depsRebuild  |-> Dependencies(RebuildSteps),
   sync         |-> SwitchSteps \o <<S("succeed", "done")>>]

Command == DOMAIN Script
Idle == [cmd |-> "none", at |-> 0, version |-> None, rev |-> None, ifNeeded |-> FALSE, open |-> FALSE]

Recovering == job.cmd # "none" /\ job.at = 0
Step == IF job.at = 0 THEN S("recover", "none") ELSE Script[job.cmd][job.at]
At(do) == job.cmd # "none" /\ Step.do = do
After(j) == [j EXCEPT !.at = @ + 1]

Mutant_Reinstalls == job.cmd = "envRepair"

Reinstalls == job.cmd \in {"repair", "envRepair"}

Proceed == job' = After(job) /\ UNCHANGED result
End(r) == job' = Idle /\ result' = r

(* removeM5Transaction, deferred: it may fail and leave the record.        *)
Dropped == mut' \in (IF job.open THEN {NoRecord, mut} ELSE {mut})

-----------------------------------------------------------------------------
(* A command starts; bootstrap and environment ensure look at the active   *)
(* revision of environment.json, the others at the checked repository.     *)

Start(c, v, ifNeeded) ==
  /\ job = Idle
  /\ c \in {"bootstrap", "envEnsure", "sync"} \/ repo # None
  /\ job' = [Idle EXCEPT !.cmd = c, !.at = IF c = "sync" THEN 1 ELSE 0,
                         !.version = v, !.ifNeeded = ifNeeded]
  /\ result' = "none"
  /\ UNCHANGED <<repo, record, tool, venv, calm>>

StartOther == \E c \in Command \ {"bootstrap", "repair", "sync"} : Start(c, None, FALSE)
StartRepair == Start("repair", None, FALSE)
StartSync == \E v \in Version : Start("sync", v, FALSE)
StartBootstrap == \E v \in Version, n \in BOOLEAN : Start("bootstrap", v, n)

(* classifyStaleM5Stage                                                    *)
Invalidates(stage) ==
  stage \in {"uv.download", "uv.verify", "python.install", "dependencies.sync", "dependencies.rebuild"}
Owned(stage) ==
  Invalidates(stage) \/ stage \in {"repair", "uv.check", "python.check", "dependencies.check"}

(* The record of another version than that of the environment cannot be    *)
(* attributed once the tools are concerned (persistStaleM5BrokenState).    *)
ToolsRequired(stage) == stage \in {"python.install", "dependencies.sync", "dependencies.rebuild"}
Foreign ==
  /\ env.rev # None /\ ToolsRequired(mut.stage)
  /\ mut.version # None /\ mut.version # VersionOf[env.rev]

Refused ==
  \/ ~Owned(mut.stage) /\ ~(mut.stage = "workspace" /\ job.cmd = "bootstrap")
  \/ Foreign

Invalidated == IF Invalidates(mut.stage) /\ env.rev # None THEN Broken(env.rev) ELSE env

(* recoverPreparationTransaction, and the first look at the state.         *)
Recover ==
  /\ Recovering
  /\ LET chosen == IF job.cmd \in {"bootstrap", "envEnsure"} THEN env'.rev ELSE repo
     IN IF mut # NoRecord /\ Refused
          THEN End("refused") /\ UNCHANGED <<env, mut>>
          ELSE /\ env' = (IF mut = NoRecord THEN env ELSE Invalidated)
               /\ mut' = NoRecord
               /\ job' = [After(job) EXCEPT !.rev = chosen]
               /\ UNCHANGED result
  /\ UNCHANGED <<repo, pending, tool, venv, calm>>

(* The environment is written but the record is not removed.               *)
RecoverFails ==
  /\ Recovering /\ ~calm
  /\ mut # NoRecord => ~Refused
  /\ env' \in {env, IF mut = NoRecord THEN env ELSE Invalidated}
  /\ End("failed")
  /\ UNCHANGED <<repo, pending, mut, tool, venv, calm>>

-----------------------------------------------------------------------------
(* The record and its stages (beginM5Transaction, advanceM5Transaction).   *)

TargetVersion ==
  CASE job.cmd = "envEnsure" -> None
    [] job.cmd = "bootstrap" /\ Step.stage = "uv.check" -> job.version
    [] OTHER -> VersionOf[repo]

Marked ==
  IF Step.do = "mark" THEN [mut EXCEPT !.stage = Step.stage]
  ELSE [stage |-> Step.stage, version |-> TargetVersion]

WriteRecord ==
  /\ At("begin") \/ At("mark")
  /\ mut' = Marked
  /\ job' = [After(job) EXCEPT !.open = TRUE]
  /\ UNCHANGED <<repo, env, pending, tool, venv, result, calm>>

(* STATE_WRITE_FAILED retains the record (retainM5TransactionOnFailure).   *)
WriteRecordFails ==
  /\ At("begin") \/ At("mark")
  /\ ~calm
  /\ mut' \in {mut, Marked}
  /\ End("failed")
  /\ UNCHANGED <<repo, env, pending, tool, venv, calm>>

DropRecord ==
  /\ At("drop")
  /\ mut' = NoRecord
  /\ job' = [After(job) EXCEPT !.open = FALSE]
  /\ UNCHANGED <<repo, env, pending, tool, venv, result, calm>>

DropRecordFails ==
  /\ At("drop") /\ ~calm
  /\ mut' \in {mut, NoRecord}
  /\ End("failed")
  /\ UNCHANGED <<repo, env, pending, tool, venv, calm>>

Succeed ==
  /\ At("succeed")
  /\ End(Step.stage)
  /\ UNCHANGED <<repo, record, tool, venv, calm>>

(* An event cannot be written: the command ends without touching           *)
(* environment.json, and its deferred cleanup removes the record.          *)
OutputFails ==
  /\ job.cmd # "none" /\ job.at > 0 /\ job.cmd # "sync" /\ ~calm
  /\ Step.do \notin {"settle", "open", "swap", "activate"}
  /\ Step.stage # "workspace"
  /\ Dropped
  /\ End("failed")
  /\ UNCHANGED <<repo, env, pending, tool, venv, calm>>

Die ==
  /\ job # Idle /\ ~calm
  /\ End("none")
  /\ UNCHANGED <<repo, record, tool, venv, calm>>

-----------------------------------------------------------------------------
(* persistM5FailureWithLifecycle: a step that prepares the environment has *)
(* failed.  If a revision is active the environment becomes broken, then   *)
(* the record is removed; a failed write keeps it.                         *)
Mutant_Breaks == Dropped /\ UNCHANGED env

Breaks ==
  \/ /\ env' = (IF job.rev = None THEN env ELSE Broken(job.rev))
     /\ Dropped
  \/ /\ ~calm /\ job.rev # None
     /\ env' \in {env, Broken(job.rev)}
     /\ UNCHANGED mut

ToolStep == {"clearUV", "ensureUV", "readSpec", "checkTools", "installPython", "rebuildVenv", "syncVenv"}

ToolFails ==
  /\ job.cmd # "none" /\ Step.do \in ToolStep
  /\ ~calm
  /\ Breaks
  /\ End("failed")
  /\ UNCHANGED <<repo, pending, tool, venv, calm>>

-----------------------------------------------------------------------------
(* uv.Bootstrapper: repair removes the version directory and the archive,  *)
(* ensure keeps an executable of the right version and makes another one   *)
(* from the archive, which is downloaded if there is none.                 *)

UVIs(p) == uv' = p /\ UNCHANGED <<repo, record, archive, python, venv, calm>>

ClearsUV ==
  /\ At("clearUV")
  /\ \/ uv = "good" /\ uv' = "bad" /\ UNCHANGED <<archive, job, result>>
     \/ uv' = "none" /\ archive' = "none" /\ Proceed
  /\ UNCHANGED <<repo, record, python, venv, calm>>

UVKept == At("ensureUV") /\ uv = "good" /\ UVIs(uv) /\ Proceed

(* removeInvalidVersionDirectory                                           *)
UVRemoved == At("ensureUV") /\ uv = "bad" /\ UVIs("none") /\ UNCHANGED <<job, result>>

(* Nothing but a verified archive is published in the cache.               *)
UVDownloaded ==
  /\ At("ensureUV") /\ uv = "none" /\ archive = "none"
  /\ archive' = "good"
  /\ UNCHANGED <<repo, record, uv, python, venv, job, result, calm>>

(* verifySHA256: the archive is discarded and the command fails.           *)
UVRejected ==
  /\ At("ensureUV") /\ uv = "none" /\ archive = "bad"
  /\ archive' \in IF calm THEN {"none"} ELSE {"none", "bad"}
  /\ Breaks
  /\ End("failed")
  /\ UNCHANGED <<repo, pending, uv, python, venv, calm>>

(* Extracted into a staging directory and published by one rename.         *)
UVPublished == At("ensureUV") /\ uv = "none" /\ archive = "good" /\ UVIs("good") /\ Proceed

-----------------------------------------------------------------------------
(* Python, and the checks before the dependencies.                         *)

ReadSpec ==
  /\ At("readSpec")
  /\ Proceed
  /\ UNCHANGED <<repo, record, tool, venv, calm>>

(* requireUVReady, ReadPythonSpec, CheckPython                             *)
CheckTools ==
  /\ At("checkTools")
  /\ IF uv = "good" /\ python = "good"
       THEN Proceed /\ UNCHANGED record
       ELSE Breaks /\ End("failed") /\ UNCHANGED pending
  /\ UNCHANGED <<repo, tool, venv, calm>>

PythonErodes ==
  /\ At("installPython") /\ uv = "good"
  /\ Reinstalls \/ python # "good"
  /\ python # "bad" /\ python' = "bad"
  /\ UNCHANGED <<repo, record, uv, archive, venv, job, result, calm>>

(* uv installs what is missing; a damaged installation is replaced for     *)
(* certain only by a reinstallation, and python find verifies the result.  *)
PythonInstalled ==
  /\ At("installPython") /\ uv = "good"
  /\ \/ python' = "good" /\ Proceed /\ UNCHANGED record
     \/ /\ python = "bad" /\ ~Reinstalls
        /\ Breaks /\ End("failed")
        /\ UNCHANGED <<python, pending>>
  /\ UNCHANGED <<repo, uv, archive, venv, calm>>

-----------------------------------------------------------------------------
(* The venv.                                                               *)

Erodes(do) ==
  /\ At(do)
  /\ venv' = "bad" /\ venv # "bad"
  /\ UNCHANGED <<repo, record, tool, job, result, calm>>

(* DependenciesService.Rebuild deletes the venv.                           *)
RebuildErodes == venv # "none" /\ Erodes("rebuildVenv")
RebuildVenv ==
  /\ At("rebuildVenv")
  /\ venv' = "none" /\ Proceed
  /\ UNCHANGED <<repo, record, tool, calm>>

(* uv sync, from one source or from several in turn (module Rotation).     *)
SyncErodes == uv = "good" /\ Erodes("syncVenv")
SyncVenv ==
  /\ At("syncVenv") /\ uv = "good" /\ python = "good"
  /\ venv' = repo /\ Proceed
  /\ UNCHANGED <<repo, record, tool, calm>>

Commit ==
  /\ At("commit")
  /\ env' = Ready(repo) /\ Proceed
  /\ UNCHANGED <<repo, pending, mut, tool, venv, calm>>

CommitFails ==
  /\ At("commit") /\ ~calm
  /\ env' \in {env, Ready(repo)}
  /\ End("failed")
  /\ UNCHANGED <<repo, pending, mut, tool, venv, calm>>

(* checkBootstrapReadiness: a ready environment of this revision is kept   *)
(* if the interpreter and the packages of the venv pass the offline check. *)
Usable == uv = "good" /\ python = "good" /\ repo # None /\ venv = repo

Mutant_Verified == TRUE
Verified == Usable

Reuse ==
  /\ At("reuse")
  /\ \/ /\ job.ifNeeded /\ env = Ready(repo) /\ venv # "none"
        /\ Verified
        /\ End("ready")
     \/ /\ ~(job.ifNeeded /\ env = Ready(repo) /\ venv # "none" /\ Verified)
        /\ Proceed
  /\ UNCHANGED <<repo, record, tool, venv, calm>>

-----------------------------------------------------------------------------
(* gitrepo.Service.Sync, in outline: settle a former swap, overwrite the   *)
(* record, switch to another commit, break the environment.                *)

Settle ==
  /\ At("settle") \/ At("activate")
  /\ env' = (IF pending THEN Broken(repo) ELSE env)
  /\ pending' = FALSE
  /\ job' = [After(job) EXCEPT !.rev = repo]
  /\ UNCHANGED <<repo, mut, tool, venv, result, calm>>

OpenSync ==
  /\ At("open")
  /\ mut' = [stage |-> "workspace", version |-> job.version]
  /\ Proceed
  /\ UNCHANGED <<repo, env, pending, tool, venv, calm>>

Swap ==
  /\ At("swap")
  /\ \/ repo # None /\ VersionOf[repo] = job.version /\ UNCHANGED <<repo, pending>>
     \/ /\ \E r \in Revision \ {repo} : VersionOf[r] = job.version /\ repo' = r
        /\ pending' = TRUE
  /\ Proceed
  /\ UNCHANGED <<env, mut, tool, venv, calm>>

(* Before the swap the records are removed, after it they are kept.        *)
SyncFails ==
  /\ \E do \in {"settle", "open", "swap", "activate"} : At(do)
  /\ ~calm
  /\ mut' \in IF At("swap") THEN {mut, NoRecord} ELSE {mut}
  /\ End("failed")
  /\ UNCHANGED <<repo, env, pending, tool, venv, calm>>

-----------------------------------------------------------------------------
(* Somebody damages what the application root holds.                       *)
Damage ==
  /\ job = Idle /\ ~calm
  /\ \/ uv # "none" /\ uv' = "bad" /\ UNCHANGED <<archive, python, venv>>
     \/ archive # "none" /\ archive' = "bad" /\ UNCHANGED <<uv, python, venv>>
     \/ python # "none" /\ python' = "bad" /\ UNCHANGED <<uv, archive, venv>>
     \/ venv # "none" /\ venv' = "bad" /\ UNCHANGED <<uv, archive, python>>
  /\ UNCHANGED <<repo, record, job, result, calm>>

CalmDown == ~calm /\ calm' = TRUE /\ UNCHANGED <<repo, record, tool, venv, job, result>>

-----------------------------------------------------------------------------

Init ==
  /\ repo = None /\ env = NoEnvironment /\ pending = FALSE /\ mut = NoRecord
  /\ uv = "none" /\ archive = "none" /\ python = "none" /\ venv = "none"
  /\ job = Idle /\ result = "none" /\ calm = FALSE /\ hurt = FALSE

(* Step A, by a command or from outside.                                   *)
By(own, A) == A /\ hurt' = ((hurt \/ (own /\ Usable)) /\ ~Usable')

(* The two steps after which nothing tells of the damage: the venv was     *)
(* deleted and then an event cannot be written, and workspace sync         *)
(* overwrites the record of a dead dependencies rebuild (see the README).  *)
Untold(A) == A /\ hurt' = FALSE

Work == By(TRUE,
  \/ Recover \/ WriteRecord \/ DropRecord \/ Succeed
  \/ ClearsUV \/ UVKept \/ UVRemoved \/ UVDownloaded \/ UVRejected \/ UVPublished
  \/ ReadSpec \/ CheckTools \/ PythonErodes \/ PythonInstalled
  \/ RebuildErodes \/ RebuildVenv \/ SyncErodes \/ SyncVenv \/ Commit \/ Reuse
  \/ Settle \/ Swap) \/ Untold(OpenSync)

Fault ==
  \/ By(TRUE, RecoverFails \/ WriteRecordFails \/ DropRecordFails \/ ToolFails
               \/ CommitFails \/ SyncFails \/ Die)
  \/ Untold(OutputFails)

Next ==
  \/ By(TRUE, StartBootstrap) \/ By(TRUE, StartRepair) \/ By(TRUE, StartSync)
  \/ By(TRUE, StartOther)
  \/ Work \/ Fault \/ By(FALSE, Damage) \/ By(TRUE, CalmDown)

(* A command that was started goes on, and the host keeps trying: the      *)
(* desktop offers bootstrap, repair and workspace sync again and again.    *)
Fairness ==
  /\ WF_vars(Work)
  /\ SF_vars(By(TRUE, StartRepair)) /\ SF_vars(By(TRUE, StartSync)) /\ SF_vars(By(TRUE, StartBootstrap))

Spec == Init /\ [][Next]_vars /\ Fairness

(* Types; a command that owns a transaction has a record on disk.          *)
TypeOK ==
  /\ repo \in Revision \cup {None}
  /\ env \in [status : {"uninitialized", "ready", "broken"}, rev : Revision \cup {None}]
  /\ mut.stage = "none" <=> mut = NoRecord
  /\ {uv, archive, python} \subseteq Part
  /\ venv \in Revision \cup {"none", "bad"}
  /\ job.cmd \in Command \cup {"none"}
  /\ pending \in BOOLEAN /\ calm \in BOOLEAN /\ hurt \in BOOLEAN
  /\ job.open => mut # NoRecord

-----------------------------------------------------------------------------
(* What can go wrong.                                                      *)

(* If a command made the environment unusable although environment.json    *)
(* says ready, mutation.json (or update.json) makes the next command       *)
(* invalidate it, whatever failed and wherever the process died; except    *)
(* after the two steps named at Untold.                                    *)
DamageIsRecorded == hurt /\ env = Ready(repo) => Invalidates(mut.stage) \/ pending

(* A command that reports ready_to_start leaves uv, Python and a venv of   *)
(* exactly the revision of the repository: what bootstrap --if-needed      *)
(* reuses was verified, whatever happened to it since it was recorded.     *)
ReadyMeansUsable == [][result' = "ready" /\ result # "ready" => Usable' /\ env' = Ready(repo')]_vars

(* Whatever crashes, failures and damage have left behind, once they have  *)
(* stopped bootstrap, repair and workspace sync bring the root back to a   *)
(* usable environment: no record, archive or tree locks all three out.     *)
Converges == calm ~> (env = Ready(repo) /\ Usable)

(* A dependencies rebuild that was interrupted is continued the next time: *)
(* the recovery by bootstrap, repair or dependencies does not refuse it.   *)
RebuildIsContinued ==
  [][Recover /\ mut.stage = "dependencies.rebuild" => result' # "refused"]_vars
=============================================================================
