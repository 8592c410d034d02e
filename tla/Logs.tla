-------------------------------- MODULE Logs --------------------------------
(***************************************************************************)
(* The operation logs of one command (internal/logging over the log files  *)
(* of internal/filesystem).  Several Runtime processes may log the same    *)
(* command at a time: they append to the newest segment of the day, add a  *)
(* segment when it is full, and each of them removes what the retention    *)
(* policy does not keep, after a listing the others may have made stale.   *)
(***************************************************************************)
EXTENDS Naturals, FiniteSets

CONSTANTS
  Process,    \* the Runtime processes that log the command
  None,
  Days,       \* bound: the last day
  Sequences,  \* the last sequence number of a segment
  Room,       \* entries that fit into a segment
  Keep,       \* RetentionPolicy.MaxFilesPerCommand
  Age,        \* RetentionPolicy.MaxAgeDays
  LogFaults   \* the calls that may fail: "list", "open", "remove", "write"

ASSUME RetentionAssumption == Keep \in Nat \ {0} /\ Age \in Nat \ {0}
ASSUME BoundsAssumption == Days \in Nat /\ Sequences \in Nat /\ Room \in Nat

VARIABLES
  today,
  dir,     \* the segments that exist, with the number of their entries
  open,    \* the segment each process has open for appending
  log      \* where the Logger of each process is

lvars == <<today, dir, open, log>>

Segment == (0..Days) \X (0..Sequences)
Before(s, t) == s[1] < t[1] \/ (s[1] = t[1] /\ s[2] < t[2])
Held(s) == \E q \in Process : open[q] = s

LTypeOK ==
  /\ today \in 0..Days
  /\ DOMAIN dir \subseteq Segment
  /\ \A s \in DOMAIN dir : dir[s] \in Nat
  /\ open \in [Process -> Segment \cup {None}]
  /\ \A p \in Process :
       /\ log[p].at \in {"off", "latest", "open", "list", "remove", "check",
                         "write", "next", "create", "disk", "idle", "closed"}
       /\ log[p].todo \subseteq Segment

Fresh ==
  [at |-> "off",
   now |-> 0,        \* the day of the operation
   seq |-> 0,        \* what latestSequence returned
   own |-> "disk",   \* what the operation writes: the diagnostic of New about
                     \* the file system, or an entry
   line |-> "note",  \* what is appended now: a record of the retention or own
   after |-> "new",  \* what follows the maintenance: the rest of New, own or
                     \* the end of the operation
   again |-> FALSE,  \* the append has moved to a new segment
   pass |-> 1, from |-> None, todo |-> {},
   dirty |-> FALSE,  \* the last maintenance reported a failure
   bad |-> FALSE,    \* a maintenance of this operation returned an error
   lost |-> FALSE]   \* the last append wrote nothing

LInit ==
  /\ today = 0
  /\ dir \in {[s \in {} |-> 0], [s \in {<<0, 0>>} |-> Room]}
  /\ open = [p \in Process |-> None]
  /\ log = [p \in Process |-> Fresh]

Rests(p) == log[p].at \in {"off", "idle", "closed"}
Fails(call) == call \in LogFaults

Extend(s) == [t \in DOMAIN dir \cup {s} |-> IF t \in DOMAIN dir THEN dir[t] ELSE 0]

(* filesystemLogFiles.latestSequence                                       *)
LatestOf(day) ==
  CHOOSE n \in 0..Sequences :
    /\ n = 0 \/ <<day, n>> \in DOMAIN dir
    /\ \A s \in DOMAIN dir : s[1] = day => s[2] <= n

----------------------------------------------------------------------------
(* selectRetentionRemovals: whatever is too old, then the oldest of the    *)
(* rest until Keep are left; the active segment is passed over.            *)
Removals(active, now) ==
  LET old   == {s \in DOMAIN dir : s # active /\ s[1] + Age <= now}
      rest  == DOMAIN dir \ old
      spare == rest \ {active}
      over  == IF Cardinality(rest) > Keep THEN Cardinality(rest) - Keep ELSE 0
  IN  old \cup {s \in spare : Cardinality({t \in spare : Before(t, s)}) < over}

(* The operation of p ends.  New closes what it has opened when it fails.  *)
Finish(r, failed) ==
  [r EXCEPT !.at = IF r.own = "disk" /\ (failed \/ r.bad) THEN "closed" ELSE "idle",
            !.lost = failed]

(* maintainRetentionLocked returns: New goes on with the diagnostic of the *)
(* file system or fails, a rotation goes on with the entry in any case,    *)
(* and after a rotation within an append nothing is left to do.            *)
Maintained(r, failed) ==
  LET s == [r EXCEPT !.dirty = @ \/ failed, !.bad = failed, !.again = FALSE] IN
  CASE r.after = "new" -> [s EXCEPT !.at = IF failed THEN "closed" ELSE "disk"]
    [] r.after = "own" -> [s EXCEPT !.at = "check", !.line = "own"]
    [] r.after = "end" -> [s EXCEPT !.at = IF r.own = "disk" /\ (failed \/ r.lost)
                                            THEN "closed" ELSE "idle"]

Maintain(r, next) ==
  [r EXCEPT !.at = "list", !.pass = 1, !.after = next, !.dirty = FALSE]

Mutant_Appended(r, active, failed) ==
  IF r.line = "note" THEN Maintained(r, failed)
  ELSE IF r.again THEN Maintain([r EXCEPT !.lost = failed], "end")
  ELSE Finish(r, failed)

(* appendFileLocked returns.  A record of the retention that moved to a    *)
(* new segment asks for one more pass, an entry that did for a maintenance.*)
Appended(r, active, failed) ==
  IF r.line = "note"
  THEN IF failed THEN Maintained(r, TRUE)
       ELSE IF active = r.from THEN Maintained(r, FALSE)
       ELSE IF r.pass = 2 THEN Maintained(r, TRUE)
       ELSE [r EXCEPT !.at = "list", !.pass = 2, !.again = FALSE]
  ELSE IF r.again THEN Maintain([r EXCEPT !.lost = failed], "end")
  ELSE Finish(r, failed)

Becomes(p, r) == log' = [log EXCEPT ![p] = r]

(* A Logger that is closed has no segment open.                            *)
Settles(p, r) ==
  /\ Becomes(p, r)
  /\ open' = IF r.at = "closed" THEN [open EXCEPT ![p] = None] ELSE open

----------------------------------------------------------------------------
(* logging.New *)
New(p) ==
  /\ log[p].at = "off"
  /\ Becomes(p, [log[p] EXCEPT !.at = "latest", !.now = today])
  /\ UNCHANGED <<today, dir, open>>

(* Logger.write: the day decides whether the log is rotated first.         *)
Begin(p, what) ==
  /\ Becomes(p, [log[p] EXCEPT !.at = IF open[p][1] = today THEN "check" ELSE "latest",
                               !.now = today, !.own = what, !.line = "own",
                               !.after = "own", !.again = FALSE, !.bad = FALSE])
  /\ UNCHANGED <<today, dir, open>>

(* recordFileSystem, at the end of New                                     *)
Diagnose(p) == log[p].at = "disk" /\ Begin(p, "disk")

Record(p) == log[p].at = "idle" /\ Begin(p, "entry")

(* Logger.Close *)
Close(p) ==
  /\ log[p].at = "idle"
  /\ log' = [log EXCEPT ![p].at = "closed"]
  /\ open' = [open EXCEPT ![p] = None]
  /\ UNCHANGED <<today, dir>>

(* filesystemLogFiles.OpenAppend fails: New fails, a rotation keeps the    *)
(* writer of the day before and drops the entry.                           *)
OpenFails(p) ==
  Settles(p, IF log[p].after = "new"
             THEN [log[p] EXCEPT !.at = "closed"]
             ELSE Finish(log[p], TRUE))

(* OpenAppend lists the directory before it opens by name.                 *)
Latest(p) ==
  /\ log[p].at = "latest"
  /\ \/ Becomes(p, [log[p] EXCEPT !.at = "open", !.seq = LatestOf(log[p].now)])
        /\ UNCHANGED open
     \/ Fails("list") /\ OpenFails(p)
  /\ UNCHANGED <<today, dir>>

Open(p) ==
  /\ log[p].at = "open"
  /\ \/ LET s == <<log[p].now, log[p].seq>> IN
        /\ dir' = Extend(s)
        /\ open' = [open EXCEPT ![p] = s]
        /\ Becomes(p, Maintain(log[p], log[p].after))
     \/ Fails("open") /\ OpenFails(p) /\ UNCHANGED dir
  /\ UNCHANGED today

(* maintainRetentionPassLocked: the listing and the choice ...             *)
List(p) ==
  /\ log[p].at = "list"
  /\ \/ log' = [log EXCEPT ![p].at = "remove", ![p].from = open[p],
                           ![p].todo = Removals(open[p], log[p].now)]
     \/ /\ Fails("list")
        /\ log' = [log EXCEPT ![p].at = "remove", ![p].from = open[p],
                              ![p].todo = {}, ![p].dirty = TRUE]
  /\ UNCHANGED <<today, dir, open>>

(* ... one removal after the other, oldest first.  A segment that anybody  *)
(* has open is not shared for deletion; one that is gone is no failure.    *)
Remove(p) ==
  /\ log[p].at = "remove"
  /\ \E s \in log[p].todo :
       /\ \A t \in log[p].todo \ {s} : Before(s, t)
       /\ \/ /\ s \in DOMAIN dir /\ ~Held(s)
             /\ dir' = [t \in DOMAIN dir \ {s} |-> dir[t]]
             /\ log' = [log EXCEPT ![p].todo = @ \ {s}]
          \/ /\ s \notin DOMAIN dir
             /\ log' = [log EXCEPT ![p].todo = @ \ {s}]
             /\ UNCHANGED dir
          \/ /\ s \in DOMAIN dir /\ (Held(s) \/ Fails("remove"))
             /\ log' = [log EXCEPT ![p].todo = @ \ {s}, ![p].dirty = TRUE]
             /\ UNCHANGED dir
  /\ UNCHANGED <<today, open>>

(* writeMaintenanceLocked *)
Note(p) ==
  /\ log[p].at = "remove" /\ log[p].todo = {}
  /\ log' = [log EXCEPT ![p].at = "check", ![p].line = "note", ![p].again = FALSE]
  /\ UNCHANGED <<today, dir, open>>

(* RuntimeLogWriter.Write compares the size of the file with its limit ... *)
Check(p) ==
  /\ log[p].at = "check"
  /\ IF dir[open[p]] < Room
     THEN log' = [log EXCEPT ![p].at = "write"] /\ UNCHANGED open
     ELSE IF log[p].again THEN Settles(p, Appended(log[p], open[p], TRUE))
     ELSE log' = [log EXCEPT ![p].at = "next"] /\ UNCHANGED open
  /\ UNCHANGED <<today, dir>>

(* ... and appends; another process may have appended in between.          *)
Write(p) ==
  /\ log[p].at = "write"
  /\ \/ /\ dir' = [dir EXCEPT ![open[p]] = @ + 1]
        /\ Settles(p, Appended(log[p], open[p], FALSE))
     \/ /\ Fails("write")
        /\ Settles(p, Appended(log[p], open[p], TRUE))
        /\ UNCHANGED dir
  /\ UNCHANGED today

(* filesystemLogFiles.OpenNext: the listing ...                            *)
NextSegment(p) ==
  /\ log[p].at = "next"
  /\ LET n == LatestOf(log[p].now) IN
     IF n = Sequences THEN Settles(p, Appended(log[p], open[p], TRUE))
     ELSE Becomes(p, [log[p] EXCEPT !.at = "create", !.seq = n + 1]) /\ UNCHANGED open
  /\ UNCHANGED <<today, dir>>

(* ... and the exclusive creation; a name that is taken is listed again.   *)
Create(p) ==
  /\ log[p].at = "create"
  /\ LET s == <<log[p].now, log[p].seq>> IN
     \/ /\ s \in DOMAIN dir
        /\ log' = [log EXCEPT ![p].at = "next"]
        /\ UNCHANGED <<dir, open>>
     \/ /\ s \notin DOMAIN dir
        /\ dir' = Extend(s)
        /\ open' = [open EXCEPT ![p] = s]
        /\ log' = [log EXCEPT ![p].at = "check", ![p].again = TRUE]
     \/ /\ Fails("open")
        /\ Settles(p, Appended(log[p], open[p], TRUE))
        /\ UNCHANGED dir
  /\ UNCHANGED today

Midnight == today < Days /\ today' = today + 1 /\ UNCHANGED <<dir, open, log>>

(* The steps of a Logger inside New and write.                             *)
Works(p) ==
  \/ Latest(p) \/ Open(p) \/ List(p) \/ Remove(p) \/ Note(p) \/ Diagnose(p)
  \/ Check(p) \/ Write(p) \/ NextSegment(p) \/ Create(p)

----------------------------------------------------------------------------
(* A log that is written to exists under its name, and the policy is kept: *)
(* once every Logger rests and no maintenance had to report a failure, no  *)
(* more than Keep segments are left, whoever created the last of them and  *)
(* in whatever order the processes listed, created and removed.            *)
RetentionIsExact ==
  /\ \A p \in Process : open[p] # None => open[p] \in DOMAIN dir
  /\ (\A p \in Process : Rests(p) /\ ~log[p].dirty) => Cardinality(DOMAIN dir) <= Keep
=============================================================================
