--------------------------- MODULE WorkspaceState ---------------------------
(***************************************************************************)
(* The files of one application root that packages gitrepo and state work  *)
(* on, and the local state of the one command that holds the mutation or   *)
(* staging lease (module Leases: there is at most one).                    *)
(*                                                                         *)
(* A managed directory is what goGitRepositoryReader.Inspect makes of it.  *)
(* Its files are created and deleted one by one, so a crash or a failure   *)
(* leaves any stage between the directory and nothing.                     *)
(***************************************************************************)
EXTENDS Naturals

CONSTANTS
  Commit,       \* the commits of the release branches
  Version,      \* product versions; a version has one branch, and a branch moves
  VersionOf,    \* the version a commit carries
  Op,           \* operation identifiers; a new operation takes an unused one
  None

ASSUME WorkspaceAssumption ==
  /\ VersionOf \in [Commit -> Version]
  /\ None \notin Commit \cup Version \cup Op

VARIABLES
  repo,         \* app-root/repo
  update,       \* repo.update-<op>
  previous,     \* repo.previous-<op>
  updateTx,     \* update.json
  mutationTx,   \* mutation.json holds a "workspace sync" record
  env,          \* environment.json
  pc, job,      \* the command that holds the lease: where it is, its locals
  backend       \* the backend supervisor and its process

disk == <<repo, update, previous, updateTx, mutationTx, env>>
vars == <<disk, pc, job, backend>>

-----------------------------------------------------------------------------
(* Trees: missing; not readable as a repository; readable without a valid  *)
(* identity; valid, with or without all of its files.  Inspect reads Git   *)
(* metadata only and does not tell the last two apart.                     *)
Tree == [kind : {"missing", "unreadable", "invalid"}, commit : {None}, whole : {FALSE}]
        \cup [kind : {"valid"}, commit : Commit, whole : BOOLEAN]

Missing    == [kind |-> "missing", commit |-> None, whole |-> FALSE]
Unreadable == [kind |-> "unreadable", commit |-> None, whole |-> FALSE]
Invalid    == [kind |-> "invalid", commit |-> None, whole |-> FALSE]
Valid(c)   == [kind |-> "valid", commit |-> c, whole |-> TRUE]
Holed(c)   == [kind |-> "valid", commit |-> c, whole |-> FALSE]

IsValid(t)      == t.kind = "valid"
Incomplete(t)   == t.kind \in {"unreadable", "invalid"}
OfVersion(t, v) == IsValid(t) /\ VersionOf[t.commit] = v

(* removePinnedTree: what an unfinished deletion may leave of a tree.      *)
Eroded(t) ==
  CASE t.kind = "valid"   -> {Holed(t.commit), Invalid, Unreadable}
    [] t.kind = "invalid" -> {Unreadable}
    [] OTHER              -> {t}

(* go-git's clone, checkout and bindRevision: what an unfinished fetch of  *)
(* version v may have written.                                             *)
Unfinished(v) ==
  {Unreadable, Invalid} \cup {Holed(c) : c \in {d \in Commit : VersionOf[d] = v}}

-----------------------------------------------------------------------------
(* update.json and environment.json.                                       *)
UpdateTx ==
  [cmd : {"none", "stage", "sync"}, op : Op \cup {None},
   stage : {"none", "clone", "verify", "swap", "cleanup"},
   version : Version \cup {None}, target : Commit \cup {None}, base : Commit \cup {None}]

NoTx == [cmd |-> "none", op |-> None, stage |-> "none",
         version |-> None, target |-> None, base |-> None]

Environment ==
  [status : {"none", "ready", "broken"}, last : Commit \cup {None},
   target : Commit \cup {None}, reason : {"none", "changed", "failed"}]

NoEnvironment == [status |-> "none", last |-> None, target |-> None, reason |-> "none"]

Ready(c) == [status |-> "ready", last |-> c, target |-> None, reason |-> "none"]

(* NewBrokenEnvironment keeps the last successful revision.                *)
Broken(last, c, reason) ==
  [status |-> "broken", last |-> last, target |-> c, reason |-> reason]

-----------------------------------------------------------------------------
(* The running command.                                                    *)
Job ==
  [cmd : {"none", "stage", "sync"}, op : Op \cup {None}, version : Version \cup {None},
   check : Commit \cup {None}, got : Commit \cup {None}, last : Commit \cup {None},
   keep : BOOLEAN, discard : BOOLEAN,
   onSuccess : {"idle", "syncOpen", "syncPlan", "restore", "finish", "stageWrite"},
   onFailure : {"idle", "finish"}]

NoJob == [cmd |-> "none", op |-> None, version |-> None, check |-> None, got |-> None,
          last |-> None, keep |-> FALSE, discard |-> FALSE,
          onSuccess |-> "idle", onFailure |-> "idle"]

Init ==
  /\ repo = Missing
  /\ update = [o \in Op |-> Missing]
  /\ previous = [o \in Op |-> Missing]
  /\ updateTx = NoTx
  /\ mutationTx = FALSE
  /\ env = NoEnvironment
  /\ pc = "idle"
  /\ job = NoJob
  /\ backend = [at |-> "off", commit |-> None]

Goto(l) == pc' = l

(* The command returns and closes its lease.                               *)
Return == pc' = "idle" /\ job' = NoJob

(* Recover is called; the step goes on there with success or with failure. *)
CallRecover(j, discard, success, failure) ==
  /\ pc' = "recover"
  /\ job' = [j EXCEPT !.discard = discard, !.onSuccess = success, !.onFailure = failure]

(* finishPreSwap is called; keep tells that the cause is one of the codes  *)
(* for which update.json must stay.                                        *)
Finish(keep) ==
  /\ pc' = "finish"
  /\ job' = [job EXCEPT !.keep = keep]

(* A write or removal of a state file that reports an error may have been  *)
(* published or not (WriteError.MutationApplied).                          *)
MayWriteTx(tx) == updateTx' \in {updateTx, tx}
=============================================================================
