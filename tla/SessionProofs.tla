--------------------------- MODULE SessionProofs ----------------------------
(***************************************************************************)
(* Theorems about modules Logs and Session, for every set of processes and *)
(* of command ids, every number of lines of the host, of events, entries,  *)
(* days and segments, and every retention policy.                          *)
(***************************************************************************)
EXTENDS Session, FiniteSetTheorems, FunctionTheorems, SequenceTheorems,
        WellFoundedInduction, TLAPS

-----------------------------------------------------------------------------
(* The segments and the retention policy.                                  *)

(* Sequence numbers, and the largest of a segment.                         *)
LEMMA Largest ==
  ASSUME NEW X \in SUBSET (0..Sequences)
  PROVE  \E n \in 0..Sequences : (n = 0 \/ n \in X) /\ \A k \in X : k <= n
<1> USE BoundsAssumption
<1> DEFINE Bounds == {n \in Nat : \A k \in X : k <= n}
<1>1. Bounds \subseteq Nat /\ Sequences \in Bounds
  OBVIOUS
<1>2. PICK n \in Bounds : \A m \in Bounds : ~(<<m, n>> \in OpToRel(<, Nat))
  BY <1>1, NatLessThanWellFounded, WFMin
<1>3. n \in Nat /\ \A m \in Bounds : ~(m < n)
  BY <1>1, <1>2 DEF OpToRel
<1>4. n <= Sequences
  BY <1>1, <1>3
<1>5. n = 0 \/ n \in X
  <2>1. SUFFICES ASSUME n > 0, n \notin X PROVE FALSE
    BY <1>3
  <2>2. n - 1 \in Bounds
    BY <1>3, <2>1
  <2> QED BY <1>3, <2>1, <2>2
<1> QED BY <1>3, <1>4, <1>5

LEMMA LatestIsSequence ==
  ASSUME DOMAIN dir \subseteq Segment, NEW day
  PROVE  LatestOf(day) \in 0..Sequences
<1> DEFINE X == {n \in 0..Sequences : <<day, n>> \in DOMAIN dir}
<1>1. PICK n \in 0..Sequences : (n = 0 \/ n \in X) /\ \A k \in X : k <= n
  BY Largest
<1>2. \A s \in DOMAIN dir : s[1] = day => s[2] \in X
  BY DEF Segment
<1> QED BY <1>1, <1>2 DEF LatestOf

(* Before is a strict order of the segments.                               *)
LEMMA SegmentOrder ==
  /\ \A s \in Segment : ~Before(s, s)
  /\ \A s, t \in Segment : s = t \/ Before(s, t) \/ Before(t, s)
  /\ \A r, s, t \in Segment : Before(r, s) /\ Before(s, t) => Before(r, t)
BY BoundsAssumption DEF Segment, Before

(* selectRetentionRemovals: what it leaves is no more than the policy      *)
(* allows.  The segments that are not too old and not active are ranked by *)
(* their age; those it leaves have different ranks, the lowest excepted.   *)
LEMMA PolicyIsKept ==
  ASSUME IsFiniteSet(DOMAIN dir), DOMAIN dir \subseteq Segment, NEW active, NEW now
  PROVE  Cardinality(DOMAIN dir \ Removals(active, now)) <= Keep
<1> USE RetentionAssumption
<1> DEFINE old == {s \in DOMAIN dir : s # active /\ s[1] + Age <= now}
           rest == DOMAIN dir \ old
           spare == rest \ {active}
           over == IF Cardinality(rest) > Keep THEN Cardinality(rest) - Keep ELSE 0
           below(s) == {t \in spare : Before(t, s)}
           left == {s \in spare : ~(Cardinality(below(s)) < over)}
           m == Cardinality(spare)
<1>1. rest \subseteq DOMAIN dir /\ IsFiniteSet(rest) /\ Cardinality(rest) \in Nat
  BY FS_Subset, FS_CardinalityType
<1>2. /\ IsFiniteSet(spare) /\ spare \subseteq Segment /\ m \in Nat
      /\ m = IF active \in rest THEN Cardinality(rest) - 1 ELSE Cardinality(rest)
  BY <1>1, FS_RemoveElement, FS_CardinalityType
<1>3. /\ over \in Nat
      /\ (over = 0 /\ Cardinality(rest) <= Keep) \/ over = Cardinality(rest) - Keep
  BY <1>1
<1>4. ASSUME NEW s \in spare
      PROVE  /\ IsFiniteSet(below(s)) /\ below(s) \subseteq spare /\ s \notin below(s)
             /\ Cardinality(below(s)) \in 0..(m - 1)
  <2>1. below(s) \subseteq spare /\ s \notin below(s)
    BY <1>2, SegmentOrder
  <2>2. IsFiniteSet(below(s)) /\ Cardinality(below(s)) <= m /\ Cardinality(below(s)) # m
        /\ Cardinality(below(s)) \in Nat
    BY <1>2, <2>1, FS_Subset, FS_CardinalityType
  <2> QED BY <1>2, <2>1, <2>2
<1>5. ASSUME NEW s \in spare, NEW t \in spare, s # t
      PROVE  Cardinality(below(s)) # Cardinality(below(t))
  <2>1. ASSUME NEW u \in spare, NEW v \in spare, Before(u, v)
        PROVE  Cardinality(below(u)) # Cardinality(below(v))
    <3>1. below(u) \subseteq below(v) /\ u \in below(v)
      BY <1>2, <2>1, SegmentOrder
    <3>2. below(u) # below(v)
      BY <1>4, <3>1
    <3> HIDE DEF below
    <3> QED BY <1>4, <3>1, <3>2, FS_Subset
  <2> QED BY <1>2, <1>5, <2>1, SegmentOrder
<1>6. Cardinality(left) <= IF over > m - 1 THEN 0 ELSE m - over
  <2> DEFINE f == [s \in left |-> Cardinality(below(s))]
  <2>1. \A s \in left : s \in spare /\ Cardinality(below(s)) \in over..(m - 1)
    <3> HIDE DEF below, over, m, spare
    <3> QED BY <1>3, <1>2, <1>4
  <2> HIDE DEF below, over, m, spare, left
  <2>2. f \in [left -> over..(m - 1)]
    BY <2>1
  <2>3. f \in Injection(left, over..(m - 1))
    BY <2>1, <2>2, <1>5 DEF Injection, IsInjective
  <2>4. over \in Int /\ m - 1 \in Int
    BY <1>1, <1>2 DEF over
  <2>5. IsFiniteSet(over..(m - 1))
        /\ Cardinality(over..(m - 1)) = IF over > m - 1 THEN 0 ELSE m - 1 - over + 1
    BY <2>4, FS_Interval
  <2>6. Cardinality(left) <= Cardinality(over..(m - 1))
    BY <2>3, <2>5, FS_Injection
  <2> QED BY <1>1, <1>2, <2>4, <2>5, <2>6
<1>7. DOMAIN dir \ Removals(active, now) = left \cup (rest \cap {active})
  BY <1>1 DEF Removals
<1>8. IsFiniteSet(left) /\ Cardinality(left) \in Nat
  BY <1>2, FS_Subset, FS_CardinalityType
<1>9. active \notin left
  OBVIOUS
<1> HIDE DEF left, rest, spare, over, m
<1>10. CASE active \in rest
  <2>1. Cardinality(left \cup {active}) = Cardinality(left) + 1
    BY <1>8, <1>9, FS_AddElement
  <2>2. DOMAIN dir \ Removals(active, now) = left \cup {active}
    BY <1>7, <1>10
  <2>3. m = Cardinality(rest) - 1
    BY <1>2, <1>10
  <2>4. Cardinality(left) + 1 <= Keep
    BY <1>1, <1>2, <1>3, <1>6, <1>8, <2>3
  <2>5. Cardinality(DOMAIN dir \ Removals(active, now)) = Cardinality(left) + 1
    BY <2>1, <2>2
  <2> QED BY <2>4, <2>5
<1>11. CASE active \notin rest
  <2>1. DOMAIN dir \ Removals(active, now) = left
    BY <1>7, <1>11
  <2> QED BY <1>1, <1>2, <1>6, <1>8, <1>11, <2>1, <1>3
<1> QED BY <1>10, <1>11

-----------------------------------------------------------------------------
(* The log files.                                                          *)

LogPlaces ==
  {"off", "latest", "open", "list", "remove", "check", "write", "next", "create", "disk", "idle",
   "closed"}

LogState ==
  [at : LogPlaces, now : 0..Days, seq : 0..Sequences, own : {"disk", "entry"},
   line : {"note", "own"}, after : {"new", "own", "end"}, again : BOOLEAN,
   pass : {1, 2}, from : Segment \cup {None}, todo : SUBSET Segment, dirty : BOOLEAN, bad : BOOLEAN, lost : BOOLEAN]

LogTypes ==
  /\ today \in 0..Days
  /\ dir \in [DOMAIN dir -> Nat] /\ DOMAIN dir \subseteq Segment
  /\ open \in [Process -> Segment \cup {None}]
  /\ log \in [Process -> LogState]

(* Where an append is under way.                                           *)
Writing == {"check", "write", "next", "create"}

(* A Logger that is between New and Close has a segment open.              *)
Has(r) == r.at \notin {"off", "closed"} /\ (r.at \in {"latest", "open"} => r.after # "new")
OpenInv == \A p \in Process : IF Has(log[p]) THEN open[p] \in DOMAIN dir ELSE open[p] = None

(* A record of the retention is written to the segment the pass began      *)
(* with, until the append has moved to a new one.                          *)
Notes(r, segment) ==
  /\ (r.at = "remove" \/ (r.at \in Writing /\ r.line = "note" /\ ~r.again)) => r.from = segment
  /\ (r.at \in Writing /\ r.line = "note" /\ r.again) => r.from # segment
  /\ r.at \in {"next", "create"} => ~r.again
  /\ r.at = "off" => r.after = "new"
NoteInv == \A p \in Process : Notes(log[p], open[p])

(* Who will still bring the number of segments down, or has reported that  *)
(* it could not: a Logger in front of its listing, one that has created a  *)
(* segment, and one that has not finished with what it has listed.         *)
Due(r, segments) ==
  \/ r.dirty
  \/ r.at = "list"
  \/ (r.at \in Writing /\ r.again)
  \/ r.at = "remove" /\ Cardinality(segments \ r.todo) <= Keep
KeepInv == Cardinality(DOMAIN dir) <= Keep \/ \E p \in Process : Due(log[p], DOMAIN dir)

LogInv == LogTypes /\ OpenInv /\ NoteInv /\ KeepInv

LEMMA DirIsFinite ==
  ASSUME LogTypes
  PROVE  IsFiniteSet(DOMAIN dir) /\ Cardinality(DOMAIN dir) \in Nat
<1>1. IsFiniteSet(Segment)
  <2>1. IsFiniteSet(0..Days) /\ IsFiniteSet(0..Sequences)
    BY BoundsAssumption, FS_Interval
  <2> QED BY <2>1, FS_Product DEF Segment
<1> QED BY <1>1, FS_Subset, FS_CardinalityType DEF LogTypes

(* A step of p that keeps the segments, or removes some.                   *)
LEMMA StepKeeps ==
  ASSUME LogInv, NEW p \in Process, NEW r \in LogState,
         today' = today, dir' \in [DOMAIN dir' -> Nat], DOMAIN dir' \subseteq DOMAIN dir,
         \A q \in Process \ {p} : open[q] \in DOMAIN dir => open[q] \in DOMAIN dir',
         log' = [log EXCEPT ![p] = r],
         open' \in [Process -> Segment \cup {None}],
         \A q \in Process \ {p} : open'[q] = open[q],
         IF Has(r) THEN open'[p] \in DOMAIN dir' ELSE open'[p] = None,
         Notes(r, open'[p]),
         (Cardinality(DOMAIN dir) <= Keep \/ Due(log[p], DOMAIN dir)) =>
           (Cardinality(DOMAIN dir') <= Keep \/ Due(r, DOMAIN dir'))
  PROVE  LogInv'
<1>1. log' \in [Process -> LogState] /\ log'[p] = r /\ \A q \in Process \ {p} : log'[q] = log[q]
  BY DEF LogInv, LogTypes
<1>2. LogTypes'
  BY <1>1 DEF LogInv, LogTypes
<1>3. OpenInv'
  BY <1>1 DEF LogInv, OpenInv, Has
<1>4. NoteInv'
  BY <1>1 DEF LogInv, NoteInv, Notes
<1>5. ASSUME NEW q \in Process \ {p}, Due(log[q], DOMAIN dir)
      PROVE  Due(log[q], DOMAIN dir)'
  <2>1. CASE log[q].at = "remove" /\ Cardinality(DOMAIN dir \ log[q].todo) <= Keep
    <3>1. IsFiniteSet(DOMAIN dir)
      BY DirIsFinite DEF LogInv
    <3>2. IsFiniteSet(DOMAIN dir \ log[q].todo)
      BY <3>1, FS_Difference
    <3>3. DOMAIN dir' \ log[q].todo \subseteq DOMAIN dir \ log[q].todo
      OBVIOUS
    <3>4. Cardinality(DOMAIN dir' \ log[q].todo) <= Cardinality(DOMAIN dir \ log[q].todo)
      BY <3>2, <3>3, FS_Subset
    <3>5. Cardinality(DOMAIN dir' \ log[q].todo) \in Nat
          /\ Cardinality(DOMAIN dir \ log[q].todo) \in Nat
      BY <3>2, <3>3, FS_Subset, FS_CardinalityType
    <3> QED BY <1>1, <2>1, <3>4, <3>5, RetentionAssumption DEF Due
  <2>2. CASE ~(log[q].at = "remove" /\ Cardinality(DOMAIN dir \ log[q].todo) <= Keep)
    BY <1>1, <1>5, <2>2 DEF Due
  <2> QED BY <2>1, <2>2
<1>6. KeepInv'
  BY <1>1, <1>5 DEF LogInv, KeepInv
<1> QED BY <1>2, <1>3, <1>4, <1>6 DEF LogInv

(* A step that may add a segment, and after which its maintenance is due.  *)
LEMMA StepAdds ==
  ASSUME LogInv, NEW p \in Process, NEW r \in LogState, NEW s \in Segment,
         today' = today, dir' = Extend(s), log' = [log EXCEPT ![p] = r],
         open' = [open EXCEPT ![p] = s], Has(r), Notes(r, s),
         r.at = "list" \/ (r.at \in Writing /\ r.again)
  PROVE  LogInv'
<1>1. /\ log' \in [Process -> LogState] /\ log'[p] = r /\ \A q \in Process \ {p} : log'[q] = log[q]
      /\ open' \in [Process -> Segment \cup {None}] /\ open'[p] = s
      /\ \A q \in Process \ {p} : open'[q] = open[q]
  BY DEF LogInv, LogTypes
<1>2. DOMAIN dir' = DOMAIN dir \cup {s} /\ dir' \in [DOMAIN dir' -> Nat]
  BY DEF LogInv, LogTypes, Extend
<1>3. LogTypes'
  BY <1>1, <1>2 DEF LogInv, LogTypes
<1>4. OpenInv'
  BY <1>1, <1>2 DEF LogInv, OpenInv, Has
<1>5. NoteInv'
  BY <1>1 DEF LogInv, NoteInv, Notes
<1>6. KeepInv'
  BY <1>1 DEF KeepInv, Due
<1> QED BY <1>3, <1>4, <1>5, <1>6 DEF LogInv

(* Where an append that has returned may leave the Logger.                 *)
Ends(r, s) ==
  /\ s \in LogState
  /\ s.at \in {"closed", "disk", "check", "idle", "list"}
  /\ s.at = "check" => s.line = "own" /\ ~s.again
  /\ (r.dirty \/ r.again) => (s.dirty \/ s.at = "list")

LEMMA FinishEnds ==
  ASSUME NEW r \in LogState, NEW f \in BOOLEAN, ~r.again
  PROVE  Ends(r, Finish(r, f))
<1> DEFINE a == IF r.own = "disk" /\ (f \/ r.bad) THEN "closed" ELSE "idle"
<1>1. a \in {"closed", "idle"}
  OBVIOUS
<1>2. Finish(r, f) = [r EXCEPT !.at = a, !.lost = f]
  BY DEF Finish
<1> HIDE DEF a
<1>3. LET s == [r EXCEPT !.at = a, !.lost = f]
      IN  s \in LogState /\ s.at = a /\ s.dirty = r.dirty
  BY <1>1 DEF LogState, LogPlaces
<1> QED BY <1>1, <1>2, <1>3 DEF Ends

LEMMA MaintainedEnds ==
  ASSUME NEW r \in LogState, NEW f \in BOOLEAN, r.again => f
  PROVE  Ends(r, Maintained(r, f))
<1> DEFINE d == r.dirty \/ f
           s == [r EXCEPT !.dirty = d, !.bad = f, !.again = FALSE]
           n == IF f THEN "closed" ELSE "disk"
           e == IF r.own = "disk" /\ (f \/ r.lost) THEN "closed" ELSE "idle"
<1>1. d \in BOOLEAN /\ ((r.dirty \/ f) => d)
      /\ n \in {"closed", "disk"} /\ e \in {"closed", "idle"}
  OBVIOUS
<1>2. /\ r.after = "new" => Maintained(r, f) = [s EXCEPT !.at = n]
      /\ r.after = "own" => Maintained(r, f) = [s EXCEPT !.at = "check", !.line = "own"]
      /\ r.after = "end" => Maintained(r, f) = [s EXCEPT !.at = e]
  BY DEF Maintained
<1>3. r.after \in {"new", "own", "end"}
  BY DEF LogState
<1> HIDE DEF d, n, e
<1>4. s \in LogState /\ s.again = FALSE /\ s.dirty = d
  BY <1>1 DEF LogState
<1> HIDE DEF s
<1>5. /\ LET t == [s EXCEPT !.at = "check", !.line = "own"]
         IN  t \in LogState /\ t.again = s.again /\ t.dirty = s.dirty
             /\ t.at = "check" /\ t.line = "own"
      /\ \A a \in {"closed", "disk", "idle"} :
           LET t == [s EXCEPT !.at = a]
           IN  t \in LogState /\ t.again = s.again /\ t.dirty = s.dirty /\ t.at = a
  BY <1>4 DEF LogState, LogPlaces
<1>6. CASE r.after = "own"
  <2>1. Maintained(r, f) = [s EXCEPT !.at = "check", !.line = "own"]
    BY <1>2, <1>6
  <2> HIDE <1>2
  <2> QED BY <1>1, <1>4, <1>5, <2>1 DEF Ends
<1>7. CASE r.after # "own"
  <2>1. PICK a \in {"closed", "disk", "idle"} : Maintained(r, f) = [s EXCEPT !.at = a]
    BY <1>1, <1>2, <1>3, <1>7
  <2> QED BY <1>1, <1>4, <1>5, <2>1 DEF Ends
<1> QED BY <1>6, <1>7

LEMMA MaintainEnds ==
  ASSUME NEW r \in LogState, NEW after \in {"new", "own", "end"}
  PROVE  Ends(r, Maintain(r, after)) /\ Maintain(r, after).at = "list"
BY DEF Ends, Maintain, LogState, LogPlaces

LEMMA AppendEnds ==
  ASSUME NEW r \in LogState, NEW f \in BOOLEAN, NEW active,
         r.line = "note" => (r.again <=> r.from # active)
  PROVE  Ends(r, Appended(r, active, f))
<1>1. CASE r.line = "note"
  <2>1. /\ f => Appended(r, active, f) = Maintained(r, TRUE)
        /\ ~f /\ active = r.from => Appended(r, active, f) = Maintained(r, FALSE) /\ ~r.again
        /\ ~f /\ active # r.from /\ r.pass = 2 => Appended(r, active, f) = Maintained(r, TRUE)
        /\ ~f /\ active # r.from /\ r.pass # 2 =>
             Appended(r, active, f) = [r EXCEPT !.at = "list", !.pass = 2, !.again = FALSE]
    BY <1>1 DEF Appended
  <2>2. Ends(r, Maintained(r, TRUE)) /\ (~r.again => Ends(r, Maintained(r, FALSE)))
    BY MaintainedEnds, ZenonT(30)
  <2>3. Ends(r, [r EXCEPT !.at = "list", !.pass = 2, !.again = FALSE])
    BY DEF Ends, LogState, LogPlaces
  <2>4. f \in BOOLEAN
    OBVIOUS
  <2> QED BY <2>1, <2>2, <2>3, <2>4, ZenonT(60)
<1>2. CASE r.line # "note" /\ r.again
  <2>1. LET s == [r EXCEPT !.lost = f]
        IN  s \in LogState /\ s.dirty = r.dirty /\ s.again = r.again
    BY DEF LogState
  <2>2. Appended(r, active, f) = Maintain([r EXCEPT !.lost = f], "end")
    BY <1>2 DEF Appended
  <2> QED BY <2>1, <2>2, MaintainEnds DEF Ends
<1>3. CASE r.line # "note" /\ ~r.again
  <2>1. Appended(r, active, f) = Finish(r, f)
    BY <1>3 DEF Appended
  <2>2. Ends(r, Finish(r, f))
    BY <1>3, FinishEnds, ZenonT(30)
  <2> QED BY <2>1, <2>2, ZenonT(30)
<1> QED BY <1>1, <1>2, <1>3

(* The end of an append keeps the invariant.                               *)
LEMMA AppendKeeps ==
  ASSUME LogInv, NEW p \in Process, log[p].at \in Writing, NEW f \in BOOLEAN,
         today' = today, DOMAIN dir' = DOMAIN dir, dir' \in [DOMAIN dir' -> Nat],
         Settles(p, Appended(log[p], open[p], f))
  PROVE  LogInv'
<1> DEFINE r == Appended(log[p], open[p], f)
<1>1. log[p] \in LogState /\ open[p] \in DOMAIN dir
      /\ (log[p].line = "note" => (log[p].again <=> log[p].from # open[p]))
  BY DEF LogInv, LogTypes, OpenInv, Has, NoteInv, Notes, Writing
<1>2. Ends(log[p], r)
  BY <1>1, AppendEnds, ZenonT(30)
<1> HIDE DEF r
<1>3. log' = [log EXCEPT ![p] = r]
      /\ open' = IF r.at = "closed" THEN [open EXCEPT ![p] = None] ELSE open
  BY DEF Settles, Becomes, r
<1>4. /\ open' \in [Process -> Segment \cup {None}]
      /\ \A q \in Process \ {p} : open'[q] = open[q]
      /\ open'[p] = IF r.at = "closed" THEN None ELSE open[p]
  BY <1>3 DEF LogInv, LogTypes
<1>5. IF Has(r) THEN open'[p] \in DOMAIN dir' ELSE open'[p] = None
  BY <1>1, <1>2, <1>4 DEF Ends, Has
<1>6. Notes(r, open'[p])
  BY <1>2 DEF Ends, Notes, Writing
<1>7. (Cardinality(DOMAIN dir) <= Keep \/ Due(log[p], DOMAIN dir)) =>
        (Cardinality(DOMAIN dir') <= Keep \/ Due(r, DOMAIN dir'))
  BY <1>2 DEF Ends, Due, Writing
<1>8. r \in LogState
  BY <1>2 DEF Ends
<1>9. DOMAIN dir' \subseteq DOMAIN dir
      /\ \A q \in Process \ {p} : open[q] \in DOMAIN dir => open[q] \in DOMAIN dir'
  OBVIOUS
<1> QED BY <1>3, <1>4, <1>5, <1>6, <1>7, <1>8, <1>9, StepKeeps

(* A step of p that changes nothing but its Logger.                        *)
LEMMA LoggerMoves ==
  ASSUME LogInv, NEW p \in Process, NEW r \in LogState, UNCHANGED <<today, dir, open>>,
         log' = [log EXCEPT ![p] = r], Has(r) <=> Has(log[p]), Notes(r, open[p]),
         (Cardinality(DOMAIN dir) <= Keep \/ Due(log[p], DOMAIN dir)) =>
           (Cardinality(DOMAIN dir) <= Keep \/ Due(r, DOMAIN dir))
  PROVE  LogInv'
<1>1. dir' \in [DOMAIN dir' -> Nat] /\ open' \in [Process -> Segment \cup {None}]
  BY DEF LogInv, LogTypes
<1>2. IF Has(r) THEN open'[p] \in DOMAIN dir' ELSE open'[p] = None
  BY DEF LogInv, OpenInv
<1>3. Due(r, DOMAIN dir') <=> Due(r, DOMAIN dir)
  BY DEF Due
<1> QED BY <1>1, <1>2, <1>3, StepKeeps

LEMMA NewKeeps ==
  ASSUME LogInv, NEW p \in Process, New(p)
  PROVE  LogInv'
<1> DEFINE r == [log[p] EXCEPT !.at = "latest", !.now = today]
<1>1. log[p] \in LogState /\ today \in 0..Days /\ log[p].at = "off" /\ log[p].after = "new"
  BY DEF New, LogInv, LogTypes, NoteInv, Notes
<1>2. r \in LogState /\ r.at = "latest" /\ r.after = "new" /\ r.dirty = log[p].dirty
  BY <1>1 DEF LogState, LogPlaces
<1>3. UNCHANGED <<today, dir, open>> /\ log' = [log EXCEPT ![p] = r]
  BY DEF New, Becomes
<1> HIDE DEF r
<1> QED BY <1>1, <1>2, <1>3, LoggerMoves DEF Has, Notes, Due, Writing

LEMMA BeginKeeps ==
  ASSUME LogInv, NEW p \in Process, log[p].at \in {"disk", "idle"},
         NEW what \in {"disk", "entry"}, Begin(p, what)
  PROVE  LogInv'
<1> DEFINE a == IF open[p][1] = today THEN "check" ELSE "latest"
           r == [log[p] EXCEPT !.at = a, !.now = today, !.own = what, !.line = "own",
                               !.after = "own", !.again = FALSE, !.bad = FALSE]
<1>1. log[p] \in LogState /\ today \in 0..Days
  BY DEF LogInv, LogTypes
<1>2. a \in {"check", "latest"}
  OBVIOUS
<1>3. UNCHANGED <<today, dir, open>> /\ log' = [log EXCEPT ![p] = r]
  BY DEF Begin, Becomes
<1> HIDE DEF a
<1>4. r \in LogState /\ r.at = a /\ r.after = "own" /\ r.line = "own" /\ ~r.again
      /\ r.dirty = log[p].dirty
  BY <1>1, <1>2 DEF LogState, LogPlaces
<1> HIDE DEF r
<1> QED BY <1>1, <1>2, <1>3, <1>4, LoggerMoves DEF Has, Notes, Due, Writing

LEMMA CloseKeeps ==
  ASSUME LogInv, NEW p \in Process, Close(p)
  PROVE  LogInv'
<1> DEFINE r == [log[p] EXCEPT !.at = "closed"]
<1>1. log[p] \in LogState /\ log[p].at = "idle"
  BY DEF Close, LogInv, LogTypes
<1>2. r \in LogState /\ r.at = "closed" /\ r.dirty = log[p].dirty
  BY <1>1 DEF LogState, LogPlaces
<1>3. log' = [log EXCEPT ![p] = r] /\ open' = [open EXCEPT ![p] = None]
      /\ UNCHANGED <<today, dir>>
  BY DEF Close
<1> HIDE DEF r
<1>4. /\ open' \in [Process -> Segment \cup {None}] /\ open'[p] = None
      /\ \A q \in Process \ {p} : open'[q] = open[q]
      /\ dir' \in [DOMAIN dir' -> Nat]
  BY <1>3 DEF LogInv, LogTypes
<1>5. ~Has(r) /\ Notes(r, open'[p])
  BY <1>2 DEF Has, Notes, Writing
<1>6. (Cardinality(DOMAIN dir) <= Keep \/ Due(log[p], DOMAIN dir)) =>
        (Cardinality(DOMAIN dir') <= Keep \/ Due(r, DOMAIN dir'))
  BY <1>1, <1>2, <1>3 DEF Due, Writing
<1> QED BY <1>2, <1>3, <1>4, <1>5, <1>6, StepKeeps

LEMMA OpenFailsKeeps ==
  ASSUME LogInv, NEW p \in Process, log[p].at \in {"latest", "open"}, OpenFails(p),
         UNCHANGED <<today, dir>>
  PROVE  LogInv'
<1> DEFINE r == IF log[p].after = "new" THEN [log[p] EXCEPT !.at = "closed"]
                ELSE Finish(log[p], TRUE)
<1>1. log[p] \in LogState
  BY DEF LogInv, LogTypes
<1>2. /\ r \in LogState /\ r.at \in {"closed", "idle"} /\ r.dirty = log[p].dirty
      /\ r.at = "idle" => log[p].after # "new"
  <2>1. CASE log[p].after = "new"
    BY <1>1, <2>1 DEF LogState, LogPlaces
  <2>2. CASE log[p].after # "new"
    <3> DEFINE a == IF log[p].own = "disk" /\ (TRUE \/ log[p].bad) THEN "closed" ELSE "idle"
    <3>1. a \in {"closed", "idle"} /\ r = [log[p] EXCEPT !.at = a, !.lost = TRUE]
      BY <2>2 DEF Finish
    <3> HIDE DEF a, r
    <3>2. LET s == [log[p] EXCEPT !.at = a, !.lost = TRUE]
          IN  s \in LogState /\ s.at = a /\ s.dirty = log[p].dirty
      BY <1>1, <3>1 DEF LogState, LogPlaces
    <3> QED BY <2>2, <3>1, <3>2
  <2> QED BY <2>1, <2>2
<1>3. log' = [log EXCEPT ![p] = r]
      /\ open' = IF r.at = "closed" THEN [open EXCEPT ![p] = None] ELSE open
  BY DEF OpenFails, Settles, Becomes
<1> HIDE DEF r
<1>4. /\ open' \in [Process -> Segment \cup {None}]
      /\ \A q \in Process \ {p} : open'[q] = open[q]
      /\ open'[p] = IF r.at = "closed" THEN None ELSE open[p]
      /\ dir' \in [DOMAIN dir' -> Nat]
  BY <1>3 DEF LogInv, LogTypes
<1>5. IF Has(r) THEN open'[p] \in DOMAIN dir' ELSE open'[p] = None
  BY <1>2, <1>4 DEF Has, LogInv, OpenInv
<1>6. Notes(r, open'[p])
  BY <1>2 DEF Notes, Writing
<1>7. (Cardinality(DOMAIN dir) <= Keep \/ Due(log[p], DOMAIN dir)) =>
        (Cardinality(DOMAIN dir') <= Keep \/ Due(r, DOMAIN dir'))
  BY <1>2 DEF Due, Writing
<1> QED BY <1>2, <1>3, <1>4, <1>5, <1>6, <1>7, StepKeeps

LEMMA LatestKeeps ==
  ASSUME LogInv, NEW p \in Process, Latest(p)
  PROVE  LogInv'
<1> DEFINE r == [log[p] EXCEPT !.at = "open", !.seq = LatestOf(log[p].now)]
<1>1. log[p] \in LogState /\ log[p].at = "latest" /\ UNCHANGED <<today, dir>>
  BY DEF Latest, LogInv, LogTypes
<1>2. CASE Becomes(p, r) /\ UNCHANGED open
  <2>1. LatestOf(log[p].now) \in 0..Sequences
    BY LatestIsSequence DEF LogInv, LogTypes
  <2>2. r \in LogState /\ r.at = "open" /\ r.after = log[p].after /\ r.dirty = log[p].dirty
    BY <1>1, <2>1 DEF LogState, LogPlaces
  <2>3. UNCHANGED <<today, dir, open>> /\ log' = [log EXCEPT ![p] = r]
    BY <1>1, <1>2 DEF Becomes
  <2> HIDE DEF r
  <2> QED BY <1>1, <2>2, <2>3, LoggerMoves DEF Has, Notes, Due, Writing
<1>3. CASE OpenFails(p)
  BY <1>1, <1>3, OpenFailsKeeps
<1> QED BY <1>2, <1>3 DEF Latest

LEMMA OpenKeeps ==
  ASSUME LogInv, NEW p \in Process, Open(p)
  PROVE  LogInv'
<1> DEFINE s == <<log[p].now, log[p].seq>>
           r == Maintain(log[p], log[p].after)
<1>1. log[p] \in LogState /\ log[p].at = "open" /\ today' = today
  BY DEF Open, LogInv, LogTypes
<1>2. CASE dir' = Extend(s) /\ open' = [open EXCEPT ![p] = s] /\ Becomes(p, r)
  <2>1. s \in Segment /\ log[p].after \in {"new", "own", "end"}
    BY <1>1 DEF Segment, LogState
  <2>2. r \in LogState /\ r.at = "list"
    BY <1>1, <2>1, MaintainEnds DEF Ends
  <2>3. log' = [log EXCEPT ![p] = r]
    BY <1>2 DEF Becomes
  <2> HIDE DEF r, s
  <2> QED BY <1>1, <1>2, <2>1, <2>2, <2>3, StepAdds DEF Has, Notes, Writing
<1>3. CASE OpenFails(p) /\ UNCHANGED dir
  BY <1>1, <1>3, OpenFailsKeeps
<1> QED BY <1>2, <1>3 DEF Open

(* What List chooses leaves no more than the policy allows, and a listing  *)
(* that fails is reported.                                                 *)
LEMMA ListKeeps ==
  ASSUME LogInv, NEW p \in Process, List(p)
  PROVE  LogInv'
<1>1. log[p] \in LogState /\ log[p].at = "list" /\ UNCHANGED <<today, dir, open>>
      /\ open[p] \in Segment \cup {None}
  BY DEF List, LogInv, LogTypes
<1>2. CASE log' = [log EXCEPT ![p].at = "remove", ![p].from = open[p],
                              ![p].todo = Removals(open[p], log[p].now)]
  <2> DEFINE X == Removals(open[p], log[p].now)
             r == [log[p] EXCEPT !.at = "remove", !.from = open[p], !.todo = X]
  <2>1. Cardinality(DOMAIN dir \ X) <= Keep
    BY PolicyIsKept, DirIsFinite DEF LogInv, LogTypes
  <2>2. X \in SUBSET Segment
    BY DEF Removals, LogInv, LogTypes
  <2> HIDE DEF X
  <2>3. r \in LogState /\ r.at = "remove" /\ r.from = open[p] /\ r.todo = X
    BY <1>1, <2>2 DEF LogState, LogPlaces
  <2>4. log' = [log EXCEPT ![p] = r]
    BY <1>2 DEF X, LogInv, LogTypes
  <2> HIDE DEF r
  <2> QED BY <1>1, <2>1, <2>3, <2>4, LoggerMoves DEF Has, Notes, Due, Writing
<1>3. CASE log' = [log EXCEPT ![p].at = "remove", ![p].from = open[p],
                              ![p].todo = {}, ![p].dirty = TRUE]
  <2> DEFINE r == [log[p] EXCEPT !.at = "remove", !.from = open[p], !.todo = {}, !.dirty = TRUE]
  <2>1. r \in LogState /\ r.at = "remove" /\ r.from = open[p] /\ r.dirty
    BY <1>1 DEF LogState, LogPlaces
  <2>2. log' = [log EXCEPT ![p] = r]
    BY <1>3 DEF LogInv, LogTypes
  <2> HIDE DEF r
  <2> QED BY <1>1, <2>1, <2>2, LoggerMoves DEF Has, Notes, Due, Writing
<1> QED BY <1>2, <1>3 DEF List

LEMMA RemoveKeeps ==
  ASSUME LogInv, NEW p \in Process, Remove(p)
  PROVE  LogInv'
<1>1. log[p] \in LogState /\ log[p].at = "remove" /\ UNCHANGED <<today, open>>
      /\ log \in [Process -> LogState] /\ open' \in [Process -> Segment \cup {None}]
      /\ dir \in [DOMAIN dir -> Nat] /\ open[p] \in DOMAIN dir /\ log[p].from = open[p]
  BY DEF Remove, LogInv, LogTypes, OpenInv, Has, NoteInv, Notes
<1>2. PICK s \in log[p].todo :
        \/ /\ s \in DOMAIN dir /\ ~Held(s)
           /\ dir' = [t \in DOMAIN dir \ {s} |-> dir[t]]
           /\ log' = [log EXCEPT ![p].todo = @ \ {s}]
        \/ /\ s \notin DOMAIN dir
           /\ log' = [log EXCEPT ![p].todo = @ \ {s}]
           /\ UNCHANGED dir
        \/ /\ log' = [log EXCEPT ![p].todo = @ \ {s}, ![p].dirty = TRUE]
           /\ UNCHANGED dir
  BY DEF Remove
<1> DEFINE X == log[p].todo \ {s}
           r == [log[p] EXCEPT !.todo = X]
           d == [log[p] EXCEPT !.todo = X, !.dirty = TRUE]
<1>3. X \in SUBSET Segment
  BY <1>1 DEF LogState
<1>4. /\ r \in LogState /\ r.at = "remove" /\ r.from = log[p].from /\ r.todo = X
         /\ r.dirty = log[p].dirty
      /\ d \in LogState /\ d.at = "remove" /\ d.from = log[p].from /\ d.dirty
  <2> HIDE DEF X
  <2> QED BY <1>1, <1>3 DEF LogState, LogPlaces
<1>5. CASE /\ s \in DOMAIN dir /\ ~Held(s)
           /\ dir' = [t \in DOMAIN dir \ {s} |-> dir[t]]
           /\ log' = [log EXCEPT ![p].todo = @ \ {s}]
  <2>1. log' = [log EXCEPT ![p] = r]
    BY <1>1, <1>5
  <2>2. DOMAIN dir' = DOMAIN dir \ {s} /\ dir' \in [DOMAIN dir' -> Nat]
    BY <1>1, <1>5
  <2>3. \A q \in Process : open[q] # s
    BY <1>5 DEF Held
  <2>4. DOMAIN dir' \ X = DOMAIN dir \ log[p].todo
    BY <1>2, <2>2
  <2> HIDE DEF r, X
  <2>5. Has(r) /\ Notes(r, open'[p])
    BY <1>1, <1>4 DEF Has, Notes, Writing
  <2>6. Cardinality(DOMAIN dir') <= Keep \/ ~(Cardinality(DOMAIN dir) <= Keep)
    <3>1. Cardinality(DOMAIN dir') <= Cardinality(DOMAIN dir)
          /\ Cardinality(DOMAIN dir') \in Nat /\ Cardinality(DOMAIN dir) \in Nat
      BY <2>2, DirIsFinite, FS_Subset, FS_CardinalityType DEF LogInv
    <3> QED BY <3>1, RetentionAssumption
  <2>7. (Cardinality(DOMAIN dir) <= Keep \/ Due(log[p], DOMAIN dir)) =>
          (Cardinality(DOMAIN dir') <= Keep \/ Due(r, DOMAIN dir'))
    BY <1>1, <1>4, <2>4, <2>6 DEF Due, Writing
  <2> QED BY <1>1, <1>4, <2>1, <2>2, <2>3, <2>5, <2>7, StepKeeps
<1>6. CASE s \notin DOMAIN dir /\ log' = [log EXCEPT ![p].todo = @ \ {s}] /\ UNCHANGED dir
  <2>1. log' = [log EXCEPT ![p] = r] /\ UNCHANGED <<today, dir, open>>
    BY <1>1, <1>6
  <2>2. DOMAIN dir \ X = DOMAIN dir \ log[p].todo
    BY <1>6
  <2> HIDE DEF r, X
  <2>3. Has(r) /\ Has(log[p]) /\ Notes(r, open[p])
    BY <1>1, <1>4 DEF Has, Notes, Writing
  <2>4. (Cardinality(DOMAIN dir) <= Keep \/ Due(log[p], DOMAIN dir)) =>
          (Cardinality(DOMAIN dir) <= Keep \/ Due(r, DOMAIN dir))
    BY <1>1, <1>4, <2>2 DEF Due, Writing
  <2> QED BY <1>4, <2>1, <2>3, <2>4, LoggerMoves
<1>7. CASE log' = [log EXCEPT ![p].todo = @ \ {s}, ![p].dirty = TRUE] /\ UNCHANGED dir
  <2>1. log' = [log EXCEPT ![p] = d] /\ UNCHANGED <<today, dir, open>>
    BY <1>1, <1>7
  <2> HIDE DEF d
  <2>2. Has(d) /\ Has(log[p]) /\ Notes(d, open[p]) /\ Due(d, DOMAIN dir)
    BY <1>1, <1>4 DEF Has, Notes, Due, Writing
  <2> QED BY <1>4, <2>1, <2>2, LoggerMoves
<1> QED BY <1>2, <1>5, <1>6, <1>7

LEMMA NoteKeeps ==
  ASSUME LogInv, NEW p \in Process, Note(p)
  PROVE  LogInv'
<1> DEFINE r == [log[p] EXCEPT !.at = "check", !.line = "note", !.again = FALSE]
<1>1. log[p] \in LogState /\ log[p].at = "remove" /\ log[p].todo = {}
      /\ UNCHANGED <<today, dir, open>> /\ log[p].from = open[p]
      /\ log' = [log EXCEPT ![p] = r]
  BY DEF Note, LogInv, LogTypes, NoteInv, Notes
<1>2. r \in LogState /\ r.at = "check" /\ r.line = "note" /\ ~r.again
      /\ r.from = log[p].from /\ r.dirty = log[p].dirty
  BY <1>1 DEF LogState, LogPlaces
<1> HIDE DEF r
<1>3. DOMAIN dir \ log[p].todo = DOMAIN dir
  BY <1>1
<1>4. (Cardinality(DOMAIN dir) <= Keep \/ Due(log[p], DOMAIN dir)) =>
        (Cardinality(DOMAIN dir) <= Keep \/ Due(r, DOMAIN dir))
  BY <1>1, <1>2, <1>3 DEF Due, Writing
<1> QED BY <1>1, <1>2, <1>4, LoggerMoves DEF Has, Notes, Writing

(* An append goes from one of its steps to another.                        *)
LEMMA AppendMoves ==
  ASSUME LogInv, NEW p \in Process, NEW r \in LogState, UNCHANGED <<today, dir, open>>,
         log' = [log EXCEPT ![p] = r], log[p].at \in Writing, r.at \in Writing,
         r.line = log[p].line, r.again = log[p].again, r.from = log[p].from,
         r.dirty = log[p].dirty, r.at \in {"next", "create"} => ~r.again
  PROVE  LogInv'
<1>1. Notes(log[p], open[p])
  BY DEF LogInv, NoteInv
<1>2. Notes(r, open[p])
  BY <1>1 DEF Notes, Writing
<1>3. (Has(r) <=> Has(log[p])) /\ (Due(log[p], DOMAIN dir) => Due(r, DOMAIN dir))
  BY DEF Has, Due, Writing
<1> QED BY <1>2, <1>3, LoggerMoves

LEMMA CheckKeeps ==
  ASSUME LogInv, NEW p \in Process, Check(p)
  PROVE  LogInv'
<1>1. log[p] \in LogState /\ log[p].at = "check" /\ UNCHANGED <<today, dir>>
      /\ dir \in [DOMAIN dir -> Nat] /\ log \in [Process -> LogState]
  BY DEF Check, LogInv, LogTypes
<1>2. CASE Settles(p, Appended(log[p], open[p], TRUE))
  BY <1>1, <1>2, AppendKeeps DEF Writing
<1>3. ASSUME NEW a \in {"write", "next"}, log' = [log EXCEPT ![p].at = a], UNCHANGED open,
             a = "next" => ~log[p].again
      PROVE  LogInv'
  <2> DEFINE r == [log[p] EXCEPT !.at = a]
  <2>1. r \in LogState /\ r.at = a /\ r.line = log[p].line /\ r.again = log[p].again
        /\ r.from = log[p].from /\ r.dirty = log[p].dirty
    BY <1>1 DEF LogState, LogPlaces
  <2>2. log' = [log EXCEPT ![p] = r]
    BY <1>1, <1>3
  <2> HIDE DEF r
  <2> QED BY <1>1, <1>3, <2>1, <2>2, AppendMoves DEF Writing
<1> QED BY <1>2, <1>3 DEF Check

LEMMA WriteKeeps ==
  ASSUME LogInv, NEW p \in Process, Write(p)
  PROVE  LogInv'
<1>1. log[p].at \in Writing /\ today' = today /\ dir \in [DOMAIN dir -> Nat]
      /\ open[p] \in DOMAIN dir
  BY DEF Write, Writing, LogInv, LogTypes, OpenInv, Has
<1>2. CASE dir' = [dir EXCEPT ![open[p]] = @ + 1]
           /\ Settles(p, Appended(log[p], open[p], FALSE))
  <2>1. DOMAIN dir' = DOMAIN dir /\ dir' \in [DOMAIN dir' -> Nat]
    BY <1>1, <1>2
  <2> QED BY <1>1, <1>2, <2>1, AppendKeeps
<1>3. CASE Settles(p, Appended(log[p], open[p], TRUE)) /\ UNCHANGED dir
  BY <1>1, <1>3, AppendKeeps
<1> QED BY <1>2, <1>3 DEF Write

LEMMA NextSegmentKeeps ==
  ASSUME LogInv, NEW p \in Process, NextSegment(p)
  PROVE  LogInv'
<1> DEFINE n == LatestOf(log[p].now)
           r == [log[p] EXCEPT !.at = "create", !.seq = n + 1]
<1>1. log[p] \in LogState /\ log[p].at = "next" /\ UNCHANGED <<today, dir>>
      /\ dir \in [DOMAIN dir -> Nat] /\ ~log[p].again
  BY DEF NextSegment, LogInv, LogTypes, NoteInv, Notes
<1>2. CASE Settles(p, Appended(log[p], open[p], TRUE))
  BY <1>1, <1>2, AppendKeeps DEF Writing
<1>3. CASE n # Sequences /\ Becomes(p, r) /\ UNCHANGED open
  <2>1. n \in 0..Sequences
    BY LatestIsSequence DEF LogInv, LogTypes
  <2> HIDE DEF n
  <2>2. n + 1 \in 0..Sequences
    BY <1>3, <2>1, BoundsAssumption
  <2>3. r \in LogState /\ r.at = "create" /\ r.line = log[p].line /\ r.again = log[p].again
        /\ r.from = log[p].from /\ r.dirty = log[p].dirty
    BY <1>1, <2>2 DEF LogState, LogPlaces
  <2>4. log' = [log EXCEPT ![p] = r]
    BY <1>3 DEF Becomes
  <2> HIDE DEF r
  <2> QED BY <1>1, <1>3, <2>3, <2>4, AppendMoves DEF Writing
<1> QED BY <1>2, <1>3 DEF NextSegment

LEMMA CreateKeeps ==
  ASSUME LogInv, NEW p \in Process, Create(p)
  PROVE  LogInv'
<1> DEFINE s == <<log[p].now, log[p].seq>>
<1>1. log[p] \in LogState /\ log[p].at = "create" /\ today' = today
      /\ dir \in [DOMAIN dir -> Nat] /\ ~log[p].again /\ log \in [Process -> LogState]
      /\ open[p] \in DOMAIN dir /\ (log[p].line = "note" => log[p].from = open[p])
  BY DEF Create, LogInv, LogTypes, OpenInv, Has, NoteInv, Notes, Writing
<1>2. CASE log' = [log EXCEPT ![p].at = "next"] /\ UNCHANGED <<dir, open>>
  <2> DEFINE r == [log[p] EXCEPT !.at = "next"]
  <2>1. r \in LogState /\ r.at = "next" /\ r.line = log[p].line /\ r.again = log[p].again
        /\ r.from = log[p].from /\ r.dirty = log[p].dirty
    BY <1>1 DEF LogState, LogPlaces
  <2>2. log' = [log EXCEPT ![p] = r]
    BY <1>1, <1>2
  <2> HIDE DEF r
  <2> QED BY <1>1, <1>2, <2>1, <2>2, AppendMoves DEF Writing
<1>3. CASE /\ s \notin DOMAIN dir
           /\ dir' = Extend(s)
           /\ open' = [open EXCEPT ![p] = s]
           /\ log' = [log EXCEPT ![p].at = "check", ![p].again = TRUE]
  <2> DEFINE r == [log[p] EXCEPT !.at = "check", !.again = TRUE]
  <2>1. r \in LogState /\ r.at = "check" /\ r.line = log[p].line /\ r.again
        /\ r.from = log[p].from
    BY <1>1 DEF LogState, LogPlaces
  <2>2. log' = [log EXCEPT ![p] = r]
    BY <1>1, <1>3
  <2>3. s \in Segment
    BY <1>1 DEF Segment, LogState
  <2>4. s # open[p]
    BY <1>1, <1>3
  <2> HIDE DEF r, s
  <2>5. Has(r) /\ Notes(r, s)
    BY <1>1, <2>1, <2>4 DEF Has, Notes, Writing
  <2> QED BY <1>1, <1>3, <2>1, <2>2, <2>3, <2>5, StepAdds DEF Writing
<1>4. CASE Settles(p, Appended(log[p], open[p], TRUE)) /\ UNCHANGED dir
  BY <1>1, <1>4, AppendKeeps DEF Writing
<1> QED BY <1>2, <1>3, <1>4 DEF Create

LEMMA WorksKeeps ==
  ASSUME LogInv, NEW p \in Process, Works(p)
  PROVE  LogInv'
<1>1. Diagnose(p) => LogInv'
  BY BeginKeeps DEF Diagnose
<1> QED BY <1>1, LatestKeeps, OpenKeeps, ListKeeps, RemoveKeeps, NoteKeeps, CheckKeeps,
           WriteKeeps, NextSegmentKeeps, CreateKeeps DEF Works

LEMMA MidnightKeeps ==
  ASSUME LogInv, Midnight
  PROVE  LogInv'
<1>1. today' \in 0..Days
  BY BoundsAssumption DEF Midnight, LogInv, LogTypes
<1> QED BY <1>1 DEF Midnight, LogInv, LogTypes, OpenInv, NoteInv, KeepInv

(* Whatever a step of Session does to the log files is a step of Logs.     *)
LEMMA LogSteps ==
  ASSUME Next
  PROVE  \/ UNCHANGED lvars
         \/ \E p \in Process : New(p) \/ Record(p) \/ Close(p) \/ Works(p)
         \/ Midnight
<1> USE MeAssumption
<1>1. Main => UNCHANGED lvars \/ New(Me) \/ Record(Me) \/ Close(Me)
  BY DEF Main, Hello, Start, RunEmits, RunOpensLog, Bind, RunRecords, RunEnds, Leave, Settle,
         StopAccepting, Answer, RecordFailure, EmitError, EmitResult
<1>2. Reader => UNCHANGED lvars
  BY DEF Reader, ReaderTop, ReaderReads, ReaderTakes, Accept, Repeat, Reject, ReaderReports
<1>3. BreakPipe \/ Interrupt \/ Ended => UNCHANGED lvars
  BY DEF BreakPipe, Interrupt, Ended
<1>4. Others => \E p \in Process : New(p) \/ Record(p) \/ Close(p)
  BY DEF Others
<1>5. Logging => (\E p \in Process : Works(p)) \/ Midnight
  BY DEF Logging
<1> QED BY <1>1, <1>2, <1>3, <1>4, <1>5 DEF Next

LEMMA LogNextKeeps ==
  ASSUME LogInv, [Next]_<<svars, lvars>>
  PROVE  LogInv'
<1>1. CASE UNCHANGED lvars
  BY <1>1 DEF lvars, LogInv, LogTypes, OpenInv, NoteInv, KeepInv
<1>2. ASSUME NEW p \in Process, New(p) \/ Record(p) \/ Close(p) \/ Works(p)
      PROVE  LogInv'
  <2>1. Record(p) => LogInv'
    BY BeginKeeps DEF Record
  <2> QED BY <1>2, <2>1, NewKeeps, CloseKeeps, WorksKeeps
<1>3. CASE Midnight
  BY <1>3, MidnightKeeps
<1>4. CASE UNCHANGED <<svars, lvars>>
  BY <1>1, <1>4
<1> QED BY <1>1, <1>2, <1>3, <1>4, LogSteps

LEMMA LogInitKeeps ==
  ASSUME LInit
  PROVE  LogInv
<1>1. Fresh \in LogState /\ ~Has(Fresh) /\ Notes(Fresh, None)
  BY BoundsAssumption DEF Fresh, LogState, LogPlaces, Has, Notes, Writing
<1>2. /\ today = 0 /\ open = [p \in Process |-> None] /\ log = [p \in Process |-> Fresh]
      /\ dir = [s \in {} |-> 0] \/ dir = [s \in {<<0, 0>>} |-> Room]
  BY DEF LInit
<1>3. LogTypes
  <2>1. DOMAIN dir = {} \/ DOMAIN dir = {<<0, 0>>}
    BY <1>2
  <2>2. today \in 0..Days /\ <<0, 0>> \in Segment
    BY <1>2, BoundsAssumption DEF Segment
  <2>3. dir \in [DOMAIN dir -> Nat]
    BY <1>2, BoundsAssumption
  <2>4. open \in [Process -> Segment \cup {None}] /\ log \in [Process -> LogState]
    BY <1>1, <1>2
  <2> QED BY <2>1, <2>2, <2>3, <2>4 DEF LogTypes
<1>4. OpenInv /\ NoteInv
  BY <1>1, <1>2 DEF OpenInv, NoteInv
<1>5. Cardinality(DOMAIN dir) <= Keep
  <2>1. DOMAIN dir = {} \/ DOMAIN dir = {<<0, 0>>}
    BY <1>2
  <2>2. Cardinality(DOMAIN dir) \in {0, 1}
    BY <2>1, FS_EmptySet, FS_Singleton
  <2> QED BY <2>2, RetentionAssumption
<1> QED BY <1>3, <1>4, <1>5 DEF LogInv, KeepInv

(* In every state of a session, each Logger that is open has its segment in*)
(* the directory, and whenever there are more segments than the policy     *)
(* allows some process has still to list them, to remove what it has       *)
(* listed, or has reported a failure.                                      *)
THEOREM LogInvariant == Spec => []LogInv
<1>1. Init => LogInv
  BY LogInitKeeps DEF Init
<1> QED BY <1>1, LogNextKeeps, PTL DEF Spec

(* logging.Logger with several Runtime processes on one command: a log that*)
(* is open is there under its name, and once every Logger rests and none of*)
(* them has reported a failure of its maintenance, no more than            *)
(* MaxFilesPerCommand segments are left.                                   *)
THEOREM RetentionIsKept == Spec => []RetentionIsExact
<1>1. LogInv => RetentionIsExact
  <2>1. SUFFICES ASSUME LogInv PROVE RetentionIsExact
    OBVIOUS
  <2>2. \A p \in Process : open[p] # None => open[p] \in DOMAIN dir
    BY <2>1 DEF LogInv, OpenInv
  <2>3. \A p \in Process : Rests(p) /\ ~log[p].dirty => ~Due(log[p], DOMAIN dir)
    BY DEF Rests, Due, Writing
  <2> QED BY <2>1, <2>2, <2>3 DEF RetentionIsExact, LogInv, KeepInv
<1> QED BY <1>1, LogInvariant, PTL

-----------------------------------------------------------------------------
(* The session: the types of its state.                                    *)

MainPlaces == {"hello", "begin", "run", "leave", "settle", "stop", "answer", "record", "error",
           "result", "done"}
ReaderPlaces == {"off", "top", "read", "take", "dispatch", "report", "ended"}
StdinEnds == {<<"eof">>, <<"fault">>}
Ids == Id \cup {None}
Said == {"ok", "failed", "refused"}
EventTypes == {"hello", "progress", "warning", "error", "result"}
Details == [success : BOOLEAN, warnings : Nat, id : Ids]
Sendable == [type : EventTypes, sequence : Nat, extra : Details \cup {None}]

MainState ==
  [at : MainPlaces, controlled : BOOLEAN, events : Nat, errs : SUBSET Codes, id : Ids,
   logged : BOOLEAN, told : BOOLEAN, exit : Codes \cup {"none", "ok", "PRECONDITION"}]
ReaderState == [at : ReaderPlaces, line : ControlLine \cup StdinEnds \cup {None}]
ControlState ==
  [stopped : BOOLEAN, locked : BOOLEAN, id : Ids, fault : SUBSET {"CONTROL", "OUTPUT"},
   seen : SUBSET ControlLine]
OutputState == [terminal : BOOLEAN, broken : BOOLEAN, next : Nat, warnings : Nat]

SessionTypes ==
  /\ main \in MainState
  /\ reader \in ReaderState
  /\ reader.at = "take" => reader.line \in ControlLine \cup StdinEnds
  /\ reader.at = "dispatch" => reader.line \in ControlLine
  /\ control \in ControlState
  /\ ctx \subseteq {"host", "operation"}
  /\ stdin \in Seq(ControlLine)
  /\ output \in OutputState
  /\ wire \in Seq(Sendable)
  /\ pipe \in BOOLEAN

Sent(type) == {i \in DOMAIN wire : wire[i].type = type}

(* ProcessOutput: what it counts is what it has sent, and a result is the  *)
(* last it sends.                                                          *)
OutputInv ==
  /\ \A i \in DOMAIN wire : wire[i].sequence = i
  /\ output.next = Len(wire) + 1
  /\ output.warnings = Cardinality(Sent("warning"))
  /\ output.terminal <=> Sent("result") # {}
  /\ \A i \in Sent("result") : i = Len(wire)
  /\ output.broken => ~pipe

(* The lock of the reader, and what the command knows of the control.      *)
Closing == {"record", "error", "result", "done"}
ControlInv ==
  /\ control.locked <=> reader.at = "dispatch"
  /\ control.stopped => reader.at # "dispatch"
  /\ reader.at # "off" => main.controlled /\ main.at \notin {"hello", "begin"}
  /\ main.at \in Closing \cup {"answer"} => control.stopped \/ reader.at = "off"
  /\ main.at \in Closing => main.id = control.id
  /\ main.at \notin Closing => main.id = None
  /\ reader.at = "off" => control.id = None

(* How the command ends.                                                   *)
EndInv ==
  /\ output.terminal => main.at = "done"
  /\ Sent("error") # {} => main.at \in {"result", "done"}
  /\ main.at \in {"record", "error"} => main.errs # {}
  /\ main.at = "result" => (main.errs = {} <=> Sent("error") = {})
  /\ main.at = "done" => (pipe => output.terminal)
  /\ main.at = "done" => (main.exit = "ok" <=> output.terminal /\ main.errs = {})
  /\ \A i \in Sent("result") :
       /\ wire[i].extra.warnings = output.warnings
       /\ wire[i].extra.id = main.id
       /\ wire[i].extra.success <=> main.errs = {}
       /\ main.errs = {} <=> Sent("error") = {}

SessionInv == SessionTypes /\ OutputInv /\ ControlInv /\ EndInv

-----------------------------------------------------------------------------
(* findOperationErrorCode and its like find one of the errors.             *)
LEMMA FailureIsFound ==
  ASSUME NEW errs \in SUBSET Codes, errs # {}
  PROVE  classifyFailure(errs) \in errs
<1>1. \A c \in Codes : Rank(c) \in {1, 2, 3, 4, 5}
  BY DEF Rank, Codes
<1>2. \E c \in errs : \A d \in errs : Rank(c) <= Rank(d)
  <2> DEFINE Ranks == {Rank(c) : c \in errs}
  <2>1. Ranks \subseteq {1, 2, 3, 4, 5} /\ Ranks # {}
    BY <1>1
  <2>2. PICK n \in Ranks : \A k \in Ranks : n <= k
    <3> HIDE DEF Ranks
    <3>1. 1 \in Ranks \/ 2 \in Ranks \/ 3 \in Ranks \/ 4 \in Ranks \/ 5 \in Ranks
      BY <2>1
    <3> QED BY <2>1, <3>1
  <2>3. PICK c \in errs : n = Rank(c)
    OBVIOUS
  <2>4. \A d \in errs : Rank(d) \in Ranks
    OBVIOUS
  <2> HIDE DEF Ranks
  <2> QED BY <2>2, <2>3, <2>4
<1> QED BY <1>2 DEF classifyFailure

(* Emitter.emit and its like: an event is appended, or nothing is.         *)
LEMMA EmitSends ==
  ASSUME SessionTypes, OutputInv, NEW type \in EventTypes, NEW extra \in Details \cup {None},
         NEW said \in Said, pipe' = pipe, Emit(Event(type, extra), said)
  PROVE  /\ OutputInv'
         /\ wire' \in Seq(Sendable)
         /\ output' \in OutputState
         /\ said = "ok" =>
              /\ pipe /\ ~output.terminal
              /\ output'.terminal <=> type = "result"
              /\ type # "warning" => output'.warnings = output.warnings
              /\ \A t \in EventTypes \ {type} : Sent(t)' = Sent(t)
              /\ Sent(type)' = Sent(type) \cup {Len(wire) + 1}
              /\ wire'[Len(wire) + 1].extra = extra
         /\ said = "failed" => ~pipe /\ ~output.terminal
         /\ said = "refused" => output.terminal \/ ~pipe
         /\ said # "ok" => wire' = wire /\ output'.terminal = output.terminal
                           /\ output'.warnings = output.warnings
<1> DEFINE e == Event(type, extra)
           b == type = "result"
           w == IF type = "warning" THEN output.warnings + 1 ELSE output.warnings
<1>1. e \in Sendable /\ e.type = type /\ e.sequence = output.next /\ e.extra = extra
  BY DEF Event, Sendable, SessionTypes, OutputState
<1>2. b \in BOOLEAN /\ w \in Nat /\ (b <=> type = "result")
  BY DEF SessionTypes, OutputState
<1>3. wire \in Seq(Sendable) /\ Len(wire) \in Nat /\ DOMAIN wire = 1..Len(wire)
      /\ output \in OutputState
  BY DEF SessionTypes
<1>4. CASE said = "ok"
  <2>1. /\ pipe /\ ~output.terminal
        /\ wire' = Append(wire, e)
        /\ output' = [output EXCEPT !.next = @ + 1, !.terminal = b, !.warnings = w]
    BY <1>1, <1>4 DEF Emit, Refused, Render
  <2> HIDE DEF e, b, w
  <2>2. /\ wire' \in Seq(Sendable) /\ Len(wire') = Len(wire) + 1
        /\ DOMAIN wire' = 1..(Len(wire) + 1)
        /\ \A i \in 1..Len(wire) : wire'[i] = wire[i]
        /\ wire'[Len(wire) + 1] = e
    BY <1>1, <1>3, <2>1
  <2>3. /\ output' \in OutputState
        /\ output'.terminal = b /\ output'.warnings = w /\ output'.next = output.next + 1
        /\ output'.broken = output.broken
    <3> DEFINE n == output.next + 1
    <3>1. n \in Nat /\ output' = [output EXCEPT !.next = n, !.terminal = b, !.warnings = w]
      BY <1>3, <2>1 DEF OutputState
    <3>2. n = output.next + 1
      OBVIOUS
    <3> HIDE DEF n
    <3>3. /\ output' \in OutputState
          /\ output'.terminal = b /\ output'.warnings = w /\ output'.next = n
          /\ output'.broken = output.broken
      BY <1>2, <1>3, <3>1 DEF OutputState
    <3> QED BY <3>2, <3>3
  <2>4. /\ \A t \in EventTypes \ {type} : Sent(t)' = Sent(t)
        /\ Sent(type)' = Sent(type) \cup {Len(wire) + 1}
    BY <1>1, <1>3, <2>2 DEF Sent
  <2>5. IsFiniteSet(Sent("warning")) /\ Cardinality(Sent("warning")) \in Nat
        /\ Len(wire) + 1 \notin Sent("warning")
    <3>1. Sent("warning") \subseteq 1..Len(wire) /\ IsFiniteSet(1..Len(wire))
      BY <1>3, FS_Interval DEF Sent
    <3> QED BY <1>3, <3>1, FS_Subset, FS_CardinalityType
  <2>6. output'.warnings = Cardinality(Sent("warning")')
    <3>1. CASE type = "warning"
      <4>1. Cardinality(Sent("warning") \cup {Len(wire) + 1}) = Cardinality(Sent("warning")) + 1
        BY <2>5, FS_AddElement
      <4> QED BY <2>3, <2>4, <3>1, <4>1 DEF w, OutputInv
    <3>2. CASE type # "warning"
      BY <2>3, <2>4, <3>2 DEF w, OutputInv, EventTypes
    <3> QED BY <3>1, <3>2
  <2>7. Sent("result")' = IF type = "result" THEN {Len(wire) + 1} ELSE {}
    BY <2>1, <2>4 DEF OutputInv, EventTypes
  <2>8. \A i \in DOMAIN wire' : wire'[i].sequence = i
    <3>1. output.next = Len(wire) + 1 /\ \A i \in DOMAIN wire : wire[i].sequence = i
      BY DEF OutputInv
    <3> QED BY <1>1, <1>3, <2>2, <3>1
  <2>9. output'.next = Len(wire') + 1 /\ (output'.broken => ~pipe')
    BY <1>3, <2>2, <2>3 DEF OutputInv
  <2>10. OutputInv'
    BY <1>2, <2>2, <2>3, <2>6, <2>7, <2>8, <2>9 DEF OutputInv
  <2>11. type # "warning" => output'.warnings = output.warnings
    BY <2>3 DEF w
  <2> QED BY <1>1, <1>2, <1>4, <2>1, <2>2, <2>3, <2>4, <2>10, <2>11
<1>5. CASE said = "failed"
  <2>1. ~pipe /\ ~output.terminal /\ wire' = wire /\ output' = [output EXCEPT !.broken = TRUE]
    BY <1>5 DEF Emit, Refused
  <2>2. /\ output' \in OutputState
        /\ output'.terminal = output.terminal /\ output'.warnings = output.warnings
        /\ output'.next = output.next
    BY <1>3, <2>1 DEF OutputState
  <2>3. OutputInv'
    BY <2>1, <2>2 DEF OutputInv, Sent
  <2> QED BY <1>3, <1>5, <2>1, <2>2, <2>3
<1>6. CASE said = "refused"
  <2>1. (output.terminal \/ output.broken) /\ wire' = wire /\ output' = output
    BY <1>6 DEF Emit, Refused, comm
  <2>2. OutputInv'
    BY <2>1 DEF OutputInv, Sent
  <2> QED BY <1>3, <1>6, <2>1, <2>2 DEF OutputInv
<1> QED BY <1>4, <1>5, <1>6 DEF Said

(* A step that leaves the command and what it has sent alone.              *)
LEMMA AnswerStays ==
  ASSUME SessionInv, UNCHANGED <<main, output, wire>>, pipe' \in BOOLEAN, pipe' => pipe
  PROVE  OutputInv' /\ EndInv'
<1>1. OutputInv'
  BY DEF SessionInv, OutputInv, Sent
<1>2. EndInv'
  BY DEF SessionInv, EndInv, Sent
<1> QED BY <1>1, <1>2

LEMMA ReaderTopKeeps ==
  ASSUME SessionInv, ReaderTop
  PROVE  SessionInv'
<1> DEFINE a == IF control.stopped \/ ctx # {} THEN "ended" ELSE "read"
<1>1. a \in {"ended", "read"} /\ reader' = [reader EXCEPT !.at = a] /\ reader.at = "top"
      /\ UNCHANGED <<main, control, ctx, stdin, output, wire, pipe>>
  BY DEF ReaderTop
<1> HIDE DEF a
<1>2. SessionTypes'
  BY <1>1 DEF SessionInv, SessionTypes, ReaderPlaces, ReaderState, ControlState
<1>3. reader'.at = a
  BY <1>1 DEF SessionInv, SessionTypes, ReaderState
<1>4. ControlInv'
  BY <1>1, <1>3 DEF SessionInv, ControlInv
<1>5. OutputInv' /\ EndInv'
  BY <1>1, AnswerStays DEF SessionInv, SessionTypes
<1> QED BY <1>2, <1>4, <1>5 DEF SessionInv

LEMMA ReaderReadsKeeps ==
  ASSUME SessionInv, ReaderReads
  PROVE  SessionInv'
<1>1. reader.at = "read" /\ UNCHANGED <<main, control, ctx, output, wire, pipe>>
  BY DEF ReaderReads
<1>2. stdin' \in Seq(ControlLine)
      /\ \E line \in ControlLine \cup StdinEnds : reader' = [at |-> "take", line |-> line]
  <2>1. CASE stdin # <<>> /\ reader' = [at |-> "take", line |-> Head(stdin)]
             /\ stdin' = Tail(stdin)
    <3>1. stdin \in Seq(ControlLine)
      BY DEF SessionInv, SessionTypes
    <3>2. Head(stdin) \in ControlLine /\ Tail(stdin) \in Seq(ControlLine)
      BY <2>1, <3>1
    <3> QED BY <2>1, <3>2
  <2>2. CASE UNCHANGED stdin /\ \E end \in {"eof", "fault"} :
               reader' = [at |-> "take", line |-> <<end>>]
    BY <2>2 DEF SessionInv, SessionTypes, StdinEnds
  <2> QED BY <2>1, <2>2 DEF ReaderReads
<1>3. PICK line \in ControlLine \cup StdinEnds : reader' = [at |-> "take", line |-> line]
  BY <1>2
<1>4. SessionTypes'
  BY <1>1, <1>2, <1>3 DEF SessionInv, SessionTypes, ReaderPlaces, ReaderState, ControlState
<1>5. ControlInv'
  BY <1>1, <1>3 DEF SessionInv, ControlInv
<1>6. OutputInv' /\ EndInv'
  BY <1>1, AnswerStays DEF SessionInv, SessionTypes
<1> QED BY <1>4, <1>5, <1>6 DEF SessionInv

LEMMA ReaderTakesKeeps ==
  ASSUME SessionInv, ReaderTakes
  PROVE  SessionInv'
<1> DEFINE dropped == control.stopped \/ ctx # {} \/ reader.line = <<"eof">>
           a == IF dropped THEN "ended"
                ELSE IF reader.line = <<"fault">> THEN "report" ELSE "dispatch"
           b == ~dropped /\ reader.line # <<"fault">>
<1>1. /\ reader' = [reader EXCEPT !.at = a] /\ control' = [control EXCEPT !.locked = b]
      /\ reader.at = "take" /\ UNCHANGED <<main, ctx, stdin, output, wire, pipe>>
  BY DEF ReaderTakes
<1>2. /\ a \in {"ended", "report", "dispatch"} /\ b \in BOOLEAN /\ (b <=> a = "dispatch")
      /\ a = "dispatch" => ~control.stopped /\ reader.line \notin StdinEnds
  BY DEF StdinEnds
<1> HIDE DEF a, b, dropped
<1>3. /\ reader'.at = a /\ reader'.line = reader.line
      /\ control'.locked = b /\ control'.stopped = control.stopped /\ control'.id = control.id
  BY <1>1 DEF SessionInv, SessionTypes, ReaderState, ControlState
<1>4. SessionTypes'
  <2>1. /\ reader' \in ReaderState
        /\ control' \in ControlState
        /\ reader.line \in ControlLine \cup StdinEnds
    BY <1>1, <1>2 DEF SessionInv, SessionTypes, ReaderPlaces, ReaderState, ControlState
  <2> QED BY <1>1, <1>2, <1>3, <2>1 DEF SessionInv, SessionTypes
<1>5. ControlInv'
  BY <1>1, <1>2, <1>3 DEF SessionInv, ControlInv
<1>6. OutputInv' /\ EndInv'
  BY <1>1, AnswerStays DEF SessionInv, SessionTypes
<1> QED BY <1>4, <1>5, <1>6 DEF SessionInv

(* A line that is handled gives the lock back, without StopAccepting having*)
(* passed, so that the command does not know the id yet.                   *)
LEMMA DispatchEnds ==
  ASSUME SessionInv, reader.at = "dispatch", NEW a \in {"top", "report"},
         reader' = [reader EXCEPT !.at = a], main' = main, control'.locked = FALSE,
         control'.stopped = control.stopped
  PROVE  ControlInv'
<1>1. reader'.at = a
  BY DEF SessionInv, SessionTypes
<1>2. main.at \notin Closing \cup {"answer"}
  BY DEF SessionInv, ControlInv
<1> QED BY <1>1, <1>2 DEF SessionInv, ControlInv

LEMMA AcceptKeeps ==
  ASSUME SessionInv, Accept
  PROVE  SessionInv'
<1> DEFINE i == IF control.id = None THEN Key ELSE control.id
           seen == control.seen \cup {reader.line}
<1>1. /\ control' = [control EXCEPT !.id = i, !.seen = seen, !.locked = FALSE]
      /\ reader' = [reader EXCEPT !.at = "top"] /\ reader.at = "dispatch" /\ Kind = "cancel"
      /\ ctx' = ctx \cup {"operation"} /\ UNCHANGED <<main, stdin, output, wire, pipe>>
  BY DEF Accept, Accepted
<1>2. reader.line \in ControlLine
  BY <1>1 DEF SessionInv, SessionTypes
<1>3. Key \in Id
  BY <1>1, <1>2 DEF ControlLine, Kind, Key
<1>4. i \in Ids /\ seen \subseteq ControlLine
  BY <1>2, <1>3 DEF SessionInv, SessionTypes, ControlState, Ids
<1> HIDE DEF i, seen
<1>5. /\ reader' \in ReaderState
      /\ reader'.at = "top"
      /\ control' \in ControlState
      /\ control'.locked = FALSE /\ control'.stopped = control.stopped
  BY <1>1, <1>4 DEF SessionInv, SessionTypes, ReaderPlaces, ReaderState, ControlState
<1>6. SessionTypes'
  BY <1>1, <1>5 DEF SessionInv, SessionTypes
<1>7. ControlInv'
  BY <1>1, <1>5, DispatchEnds
<1>8. OutputInv' /\ EndInv'
  BY <1>1, AnswerStays DEF SessionInv, SessionTypes
<1> QED BY <1>6, <1>7, <1>8 DEF SessionInv

LEMMA RepeatKeeps ==
  ASSUME SessionInv, Repeat
  PROVE  SessionInv'
<1>1. /\ control' = [control EXCEPT !.locked = FALSE]
      /\ reader' = [reader EXCEPT !.at = "top"] /\ reader.at = "dispatch"
      /\ UNCHANGED <<main, ctx, stdin, output, wire, pipe>>
  BY DEF Repeat
<1>2. /\ reader' \in ReaderState
      /\ reader'.at = "top"
      /\ control' \in ControlState
      /\ control'.locked = FALSE /\ control'.stopped = control.stopped
  BY <1>1 DEF SessionInv, SessionTypes, ReaderPlaces, ReaderState, ControlState
<1>3. SessionTypes'
  BY <1>1, <1>2 DEF SessionInv, SessionTypes
<1>4. ControlInv'
  BY <1>1, <1>2, DispatchEnds
<1>5. OutputInv' /\ EndInv'
  BY <1>1, AnswerStays DEF SessionInv, SessionTypes
<1> QED BY <1>3, <1>4, <1>5 DEF SessionInv

LEMMA RejectKeeps ==
  ASSUME SessionInv, Reject
  PROVE  SessionInv'
<1>1. PICK said \in Said :
        /\ Emit(Event("warning", None), said)
        /\ reader' = [reader EXCEPT !.at = IF said = "ok" THEN "top" ELSE "report"]
  BY DEF Reject, Said
<1> DEFINE a == IF said = "ok" THEN "top" ELSE "report"
           seen == IF Kind = "invalid" \/ Known THEN control.seen
                   ELSE control.seen \cup {reader.line}
<1>2. /\ control' = [control EXCEPT !.locked = FALSE, !.seen = seen]
      /\ reader' = [reader EXCEPT !.at = a] /\ reader.at = "dispatch" /\ a \in {"top", "report"}
      /\ UNCHANGED <<main, ctx, stdin, pipe>>
  BY <1>1 DEF Reject
<1>3. seen \subseteq ControlLine
  BY <1>2 DEF SessionInv, SessionTypes, ControlState
<1> HIDE DEF seen, a
<1>4. /\ OutputInv' /\ wire' \in Seq(Sendable)
      /\ output' \in OutputState
      /\ output'.terminal => output.terminal
      /\ Sent("error")' = Sent("error") /\ Sent("result")' = Sent("result")
  <2>1. "warning" \in EventTypes /\ None \in Details \cup {None} /\ pipe' = pipe
    BY <1>2 DEF EventTypes
  <2>2. /\ OutputInv' /\ wire' \in Seq(Sendable)
        /\ output' \in OutputState
        /\ said = "ok" => (output'.terminal <=> "warning" = "result")
             /\ \A t \in EventTypes \ {"warning"} : Sent(t)' = Sent(t)
        /\ said # "ok" => wire' = wire /\ output'.terminal = output.terminal
    BY <1>1, <2>1, EmitSends DEF SessionInv
  <2> QED BY <2>2 DEF EventTypes, Sent
<1>5. /\ reader' \in ReaderState
      /\ reader'.at = a
      /\ control' \in ControlState
      /\ control'.locked = FALSE /\ control'.stopped = control.stopped
  BY <1>2, <1>3 DEF SessionInv, SessionTypes, ReaderPlaces, ReaderState, ControlState
<1>6. SessionTypes'
  BY <1>2, <1>4, <1>5 DEF SessionInv, SessionTypes
<1>7. ControlInv'
  BY <1>2, <1>5, DispatchEnds
<1>8. main.at \notin Closing
  BY <1>2 DEF SessionInv, ControlInv
<1>9. Sent("result")' = {} /\ ~output'.terminal
  BY <1>4, <1>8 DEF SessionInv, EndInv, OutputInv, Closing
<1>10. EndInv'
  BY <1>2, <1>4, <1>8, <1>9 DEF SessionInv, EndInv, Closing
<1> QED BY <1>4, <1>6, <1>7, <1>10 DEF SessionInv

LEMMA ReaderReportsKeeps ==
  ASSUME SessionInv, ReaderReports
  PROVE  SessionInv'
<1> DEFINE f == IF reader.line = <<"fault">> THEN "CONTROL" ELSE "OUTPUT"
<1>1. /\ control' = [control EXCEPT !.fault = {f}] /\ f \in {"CONTROL", "OUTPUT"}
      /\ reader' = [reader EXCEPT !.at = "ended"] /\ reader.at = "report"
      /\ ctx' = ctx \cup {"operation"}
      /\ UNCHANGED <<main, stdin, output, wire, pipe>>
  BY DEF ReaderReports
<1> HIDE DEF f
<1>2. /\ reader' \in ReaderState
      /\ reader'.at = "ended"
      /\ control' \in ControlState
      /\ control'.locked = control.locked /\ control'.stopped = control.stopped
      /\ control'.id = control.id
  BY <1>1 DEF SessionInv, SessionTypes, ReaderPlaces, ReaderState, ControlState
<1>3. SessionTypes'
  BY <1>1, <1>2 DEF SessionInv, SessionTypes
<1>4. ControlInv'
  BY <1>1, <1>2 DEF SessionInv, ControlInv
<1>5. OutputInv' /\ EndInv'
  BY <1>1, AnswerStays DEF SessionInv, SessionTypes
<1> QED BY <1>3, <1>4, <1>5 DEF SessionInv

(* A step that changes nothing of the session but its log or its pipe.     *)
LEMMA SessionStays ==
  ASSUME SessionInv, UNCHANGED <<main, reader, control, stdin, output, wire>>,
         ctx' \subseteq {"host", "operation"}, pipe' \in BOOLEAN, pipe' => pipe
  PROVE  SessionInv'
<1>1. SessionTypes' /\ ControlInv'
  BY DEF SessionInv, SessionTypes, ControlInv
<1>2. OutputInv' /\ EndInv'
  BY AnswerStays
<1> QED BY <1>1, <1>2 DEF SessionInv

(* Until the command has answered nothing that ends it has been sent.      *)
LEMMA NothingEnds ==
  ASSUME SessionInv, main.at \notin Closing
  PROVE  ~output.terminal /\ Sent("error") = {} /\ Sent("result") = {}
BY DEF SessionInv, OutputInv, EndInv, Closing

LEMMA BeforeTheAnswer ==
  ASSUME SessionInv, main.at \notin Closing, main'.at \notin Closing,
         UNCHANGED <<output, wire, pipe>>
  PROVE  OutputInv' /\ EndInv'
<1>1. OutputInv'
  BY DEF SessionInv, OutputInv, Sent
<1>2. Sent("error")' = Sent("error") /\ Sent("result")' = Sent("result")
  BY DEF Sent
<1>3. EndInv'
  BY <1>2, NothingEnds DEF EndInv, Closing
<1> QED BY <1>1, <1>3

(* A step of the command on its way, which leaves the reader alone.        *)
LEMMA MainGoes ==
  ASSUME SessionInv, NEW m \in MainState, main' = m, UNCHANGED <<reader, control>>,
         main.at \in {"run", "leave", "settle"},
         m.at \in {"run", "leave", "settle", "stop", "answer"},
         m.id = main.id, m.controlled = main.controlled,
         m.at = "answer" => ~main.controlled
  PROVE  ControlInv' /\ main.at \notin Closing /\ main'.at \notin Closing
BY DEF SessionInv, ControlInv, Closing

LEMMA MainMoves ==
  ASSUME SessionInv, NEW m \in MainState, main' = m,
         UNCHANGED <<reader, control, stdin, output, wire, pipe>>,
         ctx' \subseteq {"host", "operation"},
         main.at \in {"run", "leave", "settle"},
         m.at \in {"run", "leave", "settle", "stop", "answer"},
         m.id = main.id, m.controlled = main.controlled,
         m.at = "answer" => ~main.controlled
  PROVE  SessionInv'
<1>1. ControlInv' /\ main.at \notin Closing /\ main'.at \notin Closing
  BY MainGoes
<1>2. OutputInv' /\ EndInv'
  BY <1>1, BeforeTheAnswer
<1>3. SessionTypes'
  BY DEF SessionInv, SessionTypes
<1> QED BY <1>1, <1>2, <1>3 DEF SessionInv

LEMMA BindKeeps ==
  ASSUME SessionInv, Bind
  PROVE  SessionInv'
<1>1. main.at = "run" /\ UNCHANGED <<reader, control, stdin, output, wire, pipe, ctx>>
      /\ main \in MainState
  BY DEF Bind, Free, SessionInv, SessionTypes
<1>2. ctx' \subseteq {"host", "operation"}
  BY <1>1 DEF SessionInv, SessionTypes
<1>3. CASE main' = [main EXCEPT !.logged = TRUE]
  <2> DEFINE m == [main EXCEPT !.logged = TRUE]
  <2>1. m \in MainState /\ m.at = "run" /\ m.id = main.id /\ m.controlled = main.controlled
    BY <1>1 DEF MainState
  <2> HIDE DEF m
  <2> QED BY <1>1, <1>2, <1>3, <2>1, MainMoves DEF m
<1>4. CASE main' = [main EXCEPT !.at = "leave", !.errs = @ \cup {"BUSINESS"}]
  <2> DEFINE e == main.errs \cup {"BUSINESS"}
             m == [main EXCEPT !.at = "leave", !.errs = e]
  <2>1. e \in SUBSET Codes /\ main' = m
    BY <1>1, <1>4 DEF MainState, Codes
  <2> HIDE DEF e
  <2>2. m \in MainState /\ m.at = "leave" /\ m.id = main.id /\ m.controlled = main.controlled
    BY <1>1, <2>1 DEF MainState, MainPlaces
  <2> HIDE DEF m
  <2> QED BY <1>1, <1>2, <2>1, <2>2, MainMoves
<1> QED BY <1>3, <1>4 DEF Bind

LEMMA RunEndsKeeps ==
  ASSUME SessionInv, RunEnds
  PROVE  SessionInv'
<1>1. main.at = "run" /\ UNCHANGED <<reader, control, stdin, output, wire, pipe, ctx>>
      /\ main \in MainState
  BY DEF RunEnds, Free, SessionInv, SessionTypes
<1>2. ctx' \subseteq {"host", "operation"}
  BY <1>1 DEF SessionInv, SessionTypes
<1>3. PICK errs \in SUBSET Codes : main' = [main EXCEPT !.at = "leave", !.errs = @ \cup errs]
  BY DEF RunEnds, Codes
<1> DEFINE e == main.errs \cup errs
           m == [main EXCEPT !.at = "leave", !.errs = e]
<1>4. e \in SUBSET Codes /\ main' = m
  BY <1>1, <1>3 DEF MainState
<1> HIDE DEF e
<1>5. m \in MainState /\ m.at = "leave" /\ m.id = main.id /\ m.controlled = main.controlled
  BY <1>1, <1>4 DEF MainState, MainPlaces
<1> HIDE DEF m
<1> QED BY <1>1, <1>2, <1>4, <1>5, MainMoves

LEMMA LeaveKeeps ==
  ASSUME SessionInv, Leave
  PROVE  SessionInv'
<1> DEFINE a == IF main.controlled THEN "settle" ELSE "answer"
           m == [main EXCEPT !.at = a]
<1>1. main.at = "leave" /\ UNCHANGED <<reader, control, stdin, output, wire, pipe, ctx>>
      /\ main \in MainState /\ main' = m
  BY DEF Leave, Goes, SessionInv, SessionTypes
<1>2. ctx' \subseteq {"host", "operation"}
  BY <1>1 DEF SessionInv, SessionTypes
<1>3. a \in {"settle", "answer"} /\ (a = "answer" => ~main.controlled)
  OBVIOUS
<1> HIDE DEF a
<1>4. m \in MainState /\ m.at = a /\ m.id = main.id /\ m.controlled = main.controlled
  BY <1>1, <1>3 DEF MainState, MainPlaces
<1> HIDE DEF m
<1> QED BY <1>1, <1>2, <1>3, <1>4, MainMoves

LEMMA SettleKeeps ==
  ASSUME SessionInv, Settle
  PROVE  SessionInv'
<1> DEFINE m == [main EXCEPT !.at = "stop"]
<1>1. main.at = "settle" /\ UNCHANGED <<reader, control, stdin, output, wire, pipe>>
      /\ main \in MainState /\ main' = m /\ ctx' = ctx \cup {"operation"}
  BY DEF Settle, Goes, SessionInv, SessionTypes
<1>2. ctx' \subseteq {"host", "operation"}
  BY <1>1 DEF SessionInv, SessionTypes
<1>3. m \in MainState /\ m.at = "stop" /\ m.id = main.id /\ m.controlled = main.controlled
  BY <1>1 DEF MainState, MainPlaces
<1> HIDE DEF m
<1> QED BY <1>1, <1>2, <1>3, MainMoves

LEMMA StartKeeps ==
  ASSUME SessionInv, Start
  PROVE  SessionInv'
<1>1. main.at = "begin" /\ UNCHANGED <<control, stdin, output, wire, pipe, ctx>>
      /\ main \in MainState /\ reader \in ReaderState
  BY DEF Start, SessionInv, SessionTypes
<1>2. reader.at = "off" /\ control.id = None /\ main.id = None /\ main.at \notin Closing
  BY <1>1 DEF SessionInv, ControlInv, Closing
<1>3. CASE main' = [main EXCEPT !.at = "record", !.errs = {"CANCELLED"}] /\ UNCHANGED reader
  <2>1. /\ main' \in MainState /\ main'.at = "record" /\ main'.errs = {"CANCELLED"}
        /\ main'.id = main.id /\ main'.controlled = main.controlled
    BY <1>1, <1>3 DEF MainState, MainPlaces, Codes
  <2>2. SessionTypes'
    BY <1>1, <1>3, <2>1 DEF SessionInv, SessionTypes
  <2>3. ControlInv'
    BY <1>1, <1>2, <1>3, <2>1 DEF SessionInv, ControlInv, Closing
  <2>4. Sent("error")' = {} /\ Sent("result")' = {} /\ ~output'.terminal
    BY <1>1, <1>2, NothingEnds DEF Sent
  <2>5. OutputInv'
    BY <1>1 DEF SessionInv, OutputInv, Sent
  <2>6. EndInv'
    BY <2>1, <2>4 DEF EndInv
  <2> QED BY <2>2, <2>3, <2>5, <2>6 DEF SessionInv
<1>4. CASE /\ main' = [main EXCEPT !.at = "run"]
           /\ reader' = IF main.controlled THEN [reader EXCEPT !.at = "top"] ELSE reader
  <2>1. /\ main' \in MainState /\ main'.at = "run"
        /\ main'.id = main.id /\ main'.controlled = main.controlled
    BY <1>1, <1>4 DEF MainState, MainPlaces
  <2>2. /\ reader' \in ReaderState /\ reader'.at \in {"off", "top"}
        /\ reader'.at = "top" => main.controlled
    BY <1>1, <1>2, <1>4 DEF ReaderState, ReaderPlaces
  <2>3. SessionTypes'
    BY <1>1, <2>1, <2>2 DEF SessionInv, SessionTypes
  <2>4. ControlInv'
    BY <1>1, <1>2, <2>1, <2>2 DEF SessionInv, ControlInv, Closing
  <2>5. OutputInv' /\ EndInv'
    BY <1>1, <1>2, <2>1, BeforeTheAnswer DEF Closing
  <2> QED BY <2>3, <2>4, <2>5 DEF SessionInv
<1> QED BY <1>3, <1>4 DEF Start, Goes

LEMMA StopAcceptingKeeps ==
  ASSUME SessionInv, StopAccepting
  PROVE  SessionInv'
<1>1. /\ main.at = "stop" /\ ~control.locked /\ main \in MainState /\ control \in ControlState
      /\ control' = [control EXCEPT !.stopped = TRUE] /\ main' = [main EXCEPT !.at = "answer"]
      /\ UNCHANGED <<reader, ctx, stdin, output, wire, pipe>>
  BY DEF StopAccepting, Goes, SessionInv, SessionTypes
<1>2. /\ main' \in MainState /\ main'.at = "answer"
      /\ main'.id = main.id /\ main'.controlled = main.controlled
  BY <1>1 DEF MainState, MainPlaces
<1>3. /\ control' \in ControlState /\ control'.stopped /\ control'.locked = control.locked
      /\ control'.id = control.id
  BY <1>1 DEF ControlState
<1>4. SessionTypes'
  BY <1>1, <1>2, <1>3 DEF SessionInv, SessionTypes
<1>5. ControlInv'
  BY <1>1, <1>2, <1>3 DEF SessionInv, ControlInv, Closing
<1>6. OutputInv' /\ EndInv'
  BY <1>1, <1>2, BeforeTheAnswer DEF Closing
<1> QED BY <1>4, <1>5, <1>6 DEF SessionInv

LEMMA AnswerKeeps ==
  ASSUME SessionInv, Answer
  PROVE  SessionInv'
<1> DEFINE errs == main.errs \cup control.fault
           a == IF errs = {} THEN "result" ELSE "record"
<1>1. /\ main.at = "answer" /\ main \in MainState /\ control \in ControlState
      /\ main' = [main EXCEPT !.errs = errs, !.id = control.id, !.at = a]
      /\ UNCHANGED <<reader, control, ctx, stdin, output, wire, pipe>>
  BY DEF Answer, SessionInv, SessionTypes
<1>2. /\ errs \in SUBSET Codes /\ a \in {"result", "record"} /\ control.id \in Ids
      /\ a = "result" <=> errs = {}
  BY <1>1 DEF MainState, ControlState, Codes
<1> HIDE DEF errs, a
<1>3. /\ main' \in MainState /\ main'.at = a /\ main'.errs = errs
      /\ main'.id = control.id /\ main'.controlled = main.controlled
  BY <1>1, <1>2 DEF MainState, MainPlaces
<1>4. SessionTypes'
  BY <1>1, <1>3 DEF SessionInv, SessionTypes
<1>5. ControlInv'
  BY <1>1, <1>2, <1>3 DEF SessionInv, ControlInv, Closing
<1>6. Sent("error")' = {} /\ Sent("result")' = {} /\ ~output'.terminal
  BY <1>1, NothingEnds DEF Sent, Closing
<1>7. OutputInv'
  BY <1>1 DEF SessionInv, OutputInv, Sent
<1>8. EndInv'
  BY <1>2, <1>3, <1>6 DEF EndInv
<1> QED BY <1>4, <1>5, <1>7, <1>8 DEF SessionInv

LEMMA RecordFailureKeeps ==
  ASSUME SessionInv, RecordFailure
  PROVE  SessionInv'
<1> DEFINE t == main.logged /\ log[Me].at = "idle"
<1>1. /\ main.at = "record" /\ main \in MainState
      /\ main' = [main EXCEPT !.at = "error", !.told = t]
      /\ UNCHANGED <<reader, control, ctx, stdin, output, wire, pipe>>
  BY DEF RecordFailure, SessionInv, SessionTypes
<1>2. t \in BOOLEAN
  BY <1>1 DEF MainState
<1> HIDE DEF t
<1>3. /\ main' \in MainState /\ main'.at = "error" /\ main'.errs = main.errs
      /\ main'.id = main.id /\ main'.controlled = main.controlled
  BY <1>1, <1>2 DEF MainState, MainPlaces
<1>4. SessionTypes'
  BY <1>1, <1>3 DEF SessionInv, SessionTypes
<1>5. ControlInv'
  BY <1>1, <1>3 DEF SessionInv, ControlInv, Closing
<1>6. OutputInv'
  BY <1>1 DEF SessionInv, OutputInv, Sent
<1>7. EndInv'
  BY <1>1, <1>3 DEF SessionInv, OutputInv, EndInv, Sent
<1> QED BY <1>4, <1>5, <1>6, <1>7 DEF SessionInv

LEMMA HelloKeeps ==
  ASSUME SessionInv, Hello
  PROVE  SessionInv'
<1>1. PICK said \in {"ok", "failed"}, c \in BOOLEAN :
        /\ Emit(Event("hello", None), said)
        /\ main' = IF said = "ok" THEN [main EXCEPT !.at = "begin", !.controlled = c]
                   ELSE [main EXCEPT !.at = "done", !.exit = "PRECONDITION"]
  BY DEF Hello
<1>2. main.at = "hello" /\ UNCHANGED <<reader, control, ctx, stdin, pipe>> /\ main \in MainState
  BY DEF Hello, SessionInv, SessionTypes
<1>3. /\ OutputInv' /\ wire' \in Seq(Sendable) /\ output' \in OutputState
      /\ output'.terminal => output.terminal
      /\ Sent("error")' = Sent("error") /\ Sent("result")' = Sent("result")
      /\ said = "failed" => ~pipe
  <2>1. "hello" \in EventTypes /\ None \in Details \cup {None} /\ said \in Said
    BY DEF EventTypes, Said
  <2>2. /\ OutputInv' /\ wire' \in Seq(Sendable) /\ output' \in OutputState
        /\ said = "ok" => (output'.terminal <=> "hello" = "result")
             /\ \A t \in EventTypes \ {"hello"} : Sent(t)' = Sent(t)
        /\ said = "failed" => ~pipe
        /\ said # "ok" => wire' = wire /\ output'.terminal = output.terminal
    BY <1>1, <1>2, <2>1, EmitSends DEF SessionInv
  <2> QED BY <2>2 DEF EventTypes, Sent
<1>4. ~output.terminal /\ Sent("error") = {} /\ Sent("result") = {} /\ reader.at = "off"
      /\ main.id = None /\ control.id = None
  BY <1>2, NothingEnds DEF SessionInv, ControlInv, Closing
<1>5. /\ main' \in MainState /\ main'.id = main.id
      /\ said = "ok" => main'.at = "begin"
      /\ said = "failed" => main'.at = "done" /\ main'.exit = "PRECONDITION"
  BY <1>1, <1>2 DEF MainState, MainPlaces
<1>6. SessionTypes'
  BY <1>2, <1>3, <1>5 DEF SessionInv, SessionTypes
<1>7. ControlInv'
  BY <1>2, <1>4, <1>5 DEF SessionInv, ControlInv, Closing
<1>8. EndInv'
  BY <1>2, <1>3, <1>4, <1>5 DEF EndInv
<1> QED BY <1>3, <1>6, <1>7, <1>8 DEF SessionInv

LEMMA RunEmitsKeeps ==
  ASSUME SessionInv, RunEmits
  PROVE  SessionInv'
<1>1. PICK type \in {"progress", "warning"}, said \in Said :
        /\ Emit(Event(type, None), said)
        /\ main' = [main EXCEPT !.events = @ + 1,
                                !.at = IF said = "ok" THEN @ ELSE "leave",
                                !.errs = IF said = "ok" THEN @ ELSE @ \cup {"OUTPUT"}]
  BY DEF RunEmits, Said
<1>2. main.at = "run" /\ UNCHANGED <<reader, control, ctx, stdin, pipe>> /\ main \in MainState
  BY DEF RunEmits, Free, SessionInv, SessionTypes
<1>3. /\ OutputInv' /\ wire' \in Seq(Sendable) /\ output' \in OutputState
      /\ output'.terminal => output.terminal
      /\ Sent("error")' = Sent("error") /\ Sent("result")' = Sent("result")
  <2>1. type \in EventTypes /\ None \in Details \cup {None}
    BY DEF EventTypes
  <2>2. /\ OutputInv' /\ wire' \in Seq(Sendable) /\ output' \in OutputState
        /\ said = "ok" => (output'.terminal <=> type = "result")
             /\ \A t \in EventTypes \ {type} : Sent(t)' = Sent(t)
        /\ said # "ok" => wire' = wire /\ output'.terminal = output.terminal
    BY <1>1, <1>2, <2>1, EmitSends DEF SessionInv
  <2> QED BY <2>2 DEF EventTypes, Sent
<1> DEFINE n == main.events + 1
           a == IF said = "ok" THEN main.at ELSE "leave"
           e == IF said = "ok" THEN main.errs ELSE main.errs \cup {"OUTPUT"}
           m == [main EXCEPT !.events = n, !.at = a, !.errs = e]
<1>4. main' = m /\ n \in Nat /\ a \in {"run", "leave"} /\ e \in SUBSET Codes
  BY <1>1, <1>2 DEF MainState, Codes
<1> HIDE DEF n, a, e
<1>5. m \in MainState /\ m.at = a /\ m.id = main.id /\ m.controlled = main.controlled
  BY <1>2, <1>4 DEF MainState, MainPlaces
<1> HIDE DEF m
<1>6. SessionTypes'
  BY <1>2, <1>3, <1>4, <1>5 DEF SessionInv, SessionTypes
<1>7. ControlInv' /\ main.at \notin Closing /\ main'.at \notin Closing
  BY <1>2, <1>4, <1>5, MainGoes
<1>8. EndInv'
  BY <1>3, <1>7, NothingEnds DEF EndInv, Closing
<1> QED BY <1>3, <1>6, <1>7, <1>8 DEF SessionInv

LEMMA EmitErrorKeeps ==
  ASSUME SessionInv, EmitError
  PROVE  SessionInv'
<1>1. PICK said \in Said :
        /\ Emit(Event("error", None), said)
        /\ main' = IF said = "ok" THEN [main EXCEPT !.at = "result"]
                   ELSE [main EXCEPT !.at = "done", !.exit = classifyFailure(main.errs)]
  BY DEF EmitError, Said
<1>2. main.at = "error" /\ UNCHANGED <<reader, control, ctx, stdin, pipe>> /\ main \in MainState
      /\ wire \in Seq(Sendable)
  BY DEF EmitError, SessionInv, SessionTypes
<1>3. ~output.terminal /\ Sent("result") = {} /\ Sent("error") = {} /\ main.errs # {}
  BY <1>2 DEF SessionInv, OutputInv, EndInv
<1>4. /\ OutputInv' /\ wire' \in Seq(Sendable) /\ output' \in OutputState
      /\ ~output'.terminal /\ Sent("result")' = {}
      /\ IF said = "ok" THEN Sent("error")' # {} ELSE ~pipe /\ Sent("error")' = {}
  <2>1. "error" \in EventTypes /\ None \in Details \cup {None}
    BY DEF EventTypes
  <2>2. /\ OutputInv' /\ wire' \in Seq(Sendable) /\ output' \in OutputState
        /\ said = "ok" =>
             /\ output'.terminal <=> "error" = "result"
             /\ \A t \in EventTypes \ {"error"} : Sent(t)' = Sent(t)
             /\ Sent("error")' = Sent("error") \cup {Len(wire) + 1}
        /\ said = "failed" => ~pipe
        /\ said = "refused" => output.terminal \/ ~pipe
        /\ said # "ok" => wire' = wire /\ output'.terminal = output.terminal
    BY <1>1, <1>2, <2>1, EmitSends DEF SessionInv
  <2> QED BY <1>3, <2>2 DEF EventTypes, Sent, Said
<1>5. classifyFailure(main.errs) \in Codes
  BY <1>2, <1>3, FailureIsFound DEF MainState
<1>6. /\ main' \in MainState /\ main'.id = main.id /\ main'.controlled = main.controlled
      /\ main'.errs = main.errs
      /\ IF said = "ok" THEN main'.at = "result"
         ELSE main'.at = "done" /\ main'.exit = classifyFailure(main.errs)
  BY <1>1, <1>2, <1>5 DEF MainState, MainPlaces
<1>7. SessionTypes'
  BY <1>2, <1>4, <1>6 DEF SessionInv, SessionTypes
<1>8. ControlInv'
  BY <1>2, <1>6 DEF SessionInv, ControlInv, Closing
<1>9. classifyFailure(main.errs) # "ok"
  BY <1>5 DEF Codes
<1>10. EndInv'
  BY <1>2, <1>3, <1>4, <1>6, <1>9 DEF EndInv
<1> QED BY <1>4, <1>7, <1>8, <1>10 DEF SessionInv

LEMMA EmitResultKeeps ==
  ASSUME SessionInv, EmitResult
  PROVE  SessionInv'
<1>1. PICK said \in Said :
        /\ Emit(Event("result", resultDetails), said)
        /\ main' = [main EXCEPT !.at = "done",
                     !.exit = IF main.errs # {} THEN classifyFailure(main.errs)
                              ELSE IF said = "ok" THEN "ok" ELSE "PRECONDITION"]
  BY DEF EmitResult, Said
<1>2. main.at = "result" /\ UNCHANGED <<reader, control, ctx, stdin, pipe>> /\ main \in MainState
      /\ wire \in Seq(Sendable) /\ output \in OutputState
  BY DEF EmitResult, SessionInv, SessionTypes
<1>3. ~output.terminal /\ Sent("result") = {} /\ (main.errs = {} <=> Sent("error") = {})
  BY <1>2 DEF SessionInv, OutputInv, EndInv
<1>4. /\ resultDetails \in Details /\ resultDetails.warnings = output.warnings
      /\ resultDetails.id = main.id /\ (resultDetails.success <=> main.errs = {})
  BY <1>2 DEF resultDetails, Details, MainState, OutputState
<1>5. /\ OutputInv' /\ wire' \in Seq(Sendable) /\ output' \in OutputState
      /\ Sent("error")' = Sent("error") /\ output'.warnings = output.warnings
      /\ IF said = "ok"
         THEN /\ output'.terminal /\ Sent("result")' = {Len(wire) + 1}
              /\ wire'[Len(wire) + 1].extra = resultDetails
         ELSE ~pipe /\ ~output'.terminal /\ Sent("result")' = {}
  <2>1. "result" \in EventTypes /\ resultDetails \in Details \cup {None}
    BY <1>4 DEF EventTypes
  <2>2. /\ OutputInv' /\ wire' \in Seq(Sendable) /\ output' \in OutputState
        /\ said = "ok" =>
             /\ output'.terminal <=> "result" = "result"
             /\ output'.warnings = output.warnings
             /\ \A t \in EventTypes \ {"result"} : Sent(t)' = Sent(t)
             /\ Sent("result")' = Sent("result") \cup {Len(wire) + 1}
             /\ wire'[Len(wire) + 1].extra = resultDetails
        /\ said = "failed" => ~pipe
        /\ said = "refused" => output.terminal \/ ~pipe
        /\ said # "ok" => wire' = wire /\ output'.terminal = output.terminal
                          /\ output'.warnings = output.warnings
    <3> HIDE DEF resultDetails
    <3>1. pipe' = pipe
      BY <1>2
    <3> QED BY <1>1, <2>1, <3>1, EmitSends DEF SessionInv
  <2> QED BY <1>3, <2>2 DEF EventTypes, Sent, Said
<1> DEFINE x == IF main.errs # {} THEN classifyFailure(main.errs)
                ELSE IF said = "ok" THEN "ok" ELSE "PRECONDITION"
<1>6. x \in Codes \cup {"ok", "PRECONDITION"} /\ (x = "ok" <=> main.errs = {} /\ said = "ok")
  BY <1>2, FailureIsFound DEF MainState, Codes
<1>7. main' = [main EXCEPT !.at = "done", !.exit = x]
  BY <1>1
<1> HIDE DEF x
<1>8. /\ main' \in MainState /\ main'.id = main.id /\ main'.controlled = main.controlled
      /\ main'.errs = main.errs /\ main'.at = "done" /\ main'.exit = x
  BY <1>2, <1>6, <1>7 DEF MainState, MainPlaces
<1>9. SessionTypes'
  BY <1>2, <1>5, <1>8 DEF SessionInv, SessionTypes
<1>10. ControlInv'
  BY <1>2, <1>8 DEF SessionInv, ControlInv, Closing
<1>11. EndInv'
  BY <1>2, <1>3, <1>4, <1>5, <1>6, <1>8 DEF EndInv
<1> QED BY <1>5, <1>9, <1>10, <1>11 DEF SessionInv

-----------------------------------------------------------------------------
LEMMA SessionNextKeeps ==
  ASSUME SessionInv, [Next]_<<svars, lvars>>
  PROVE  SessionInv'
<1>1. CASE UNCHANGED svars
  <2>1. ctx' \subseteq {"host", "operation"} /\ pipe' \in BOOLEAN
    BY <1>1 DEF svars, SessionInv, SessionTypes
  <2> QED BY <1>1, <2>1, SessionStays DEF svars
<1>2. CASE Main
  <2>1. CASE RunOpensLog
    BY <1>1, <2>1 DEF RunOpensLog
  <2>2. CASE RunRecords
    <3>1. UNCHANGED <<main, reader, control, ctx, stdin, output, wire, pipe>>
      BY <2>2 DEF RunRecords
    <3>2. ctx' \subseteq {"host", "operation"} /\ pipe' \in BOOLEAN
      BY <3>1 DEF SessionInv, SessionTypes
    <3> QED BY <3>1, <3>2, SessionStays
  <2> QED BY <1>2, <2>1, <2>2, HelloKeeps, StartKeeps, RunEmitsKeeps, BindKeeps, RunEndsKeeps,
             LeaveKeeps, SettleKeeps, StopAcceptingKeeps, AnswerKeeps, RecordFailureKeeps,
             EmitErrorKeeps, EmitResultKeeps DEF Main
<1>3. CASE Reader
  BY <1>3, ReaderTopKeeps, ReaderReadsKeeps, ReaderTakesKeeps, AcceptKeeps, RepeatKeeps,
     RejectKeeps, ReaderReportsKeeps DEF Reader
<1>4. CASE BreakPipe
  <2>1. ctx' \subseteq {"host", "operation"} /\ pipe' \in BOOLEAN /\ (pipe' => pipe)
        /\ UNCHANGED <<main, reader, control, stdin, output, wire>>
    BY <1>4 DEF BreakPipe, SessionInv, SessionTypes
  <2> QED BY <2>1, SessionStays
<1>5. CASE Interrupt
  <2>1. ctx' \subseteq {"host", "operation"} /\ pipe' \in BOOLEAN /\ (pipe' => pipe)
        /\ UNCHANGED <<main, reader, control, stdin, output, wire>>
    BY <1>5 DEF Interrupt, SessionInv, SessionTypes
  <2> QED BY <2>1, SessionStays
<1>6. CASE Others
  <2>1. UNCHANGED <<main, reader, control, ctx, stdin, output, wire, pipe>>
    BY <1>6 DEF Others, svars
  <2>2. ctx' \subseteq {"host", "operation"} /\ pipe' \in BOOLEAN
    BY <2>1 DEF SessionInv, SessionTypes
  <2> QED BY <2>1, <2>2, SessionStays
<1>7. CASE Logging \/ Ended
  BY <1>1, <1>7 DEF Logging, Ended
<1> QED BY <1>1, <1>2, <1>3, <1>4, <1>5, <1>6, <1>7 DEF Next

LEMMA SessionInitKeeps ==
  ASSUME SInit
  PROVE  SessionInv
<1>1. /\ main = Unstarted /\ reader = [at |-> "off", line |-> None] /\ control = Uncontrolled
      /\ ctx = {} /\ wire = <<>> /\ pipe = TRUE
      /\ output = [terminal |-> FALSE, broken |-> FALSE, next |-> 1, warnings |-> 0]
  BY DEF SInit
<1>2. stdin \in Seq(ControlLine)
  <2>1. PICK n \in 0..MaxLines : stdin \in [1..n -> ControlLine]
    BY DEF SInit
  <2> QED BY <2>1, LinesAssumption
<1>3. SessionTypes
  BY <1>1, <1>2 DEF SessionTypes, Unstarted, Uncontrolled, MainState, MainPlaces, ReaderState,
                    ReaderPlaces, ControlState, OutputState, Ids
<1>4. \A t : Sent(t) = {}
  BY <1>1 DEF Sent
<1>5. OutputInv
  <2>1. DOMAIN wire = {} /\ Len(wire) = 0
    BY <1>1
  <2>2. Cardinality(Sent("warning")) = 0
    BY <1>4, FS_EmptySet
  <2> QED BY <1>1, <1>4, <2>1, <2>2 DEF OutputInv
<1>6. ControlInv /\ EndInv
  BY <1>1, <1>4 DEF ControlInv, EndInv, Unstarted, Uncontrolled, Closing
<1> QED BY <1>3, <1>5, <1>6 DEF SessionInv

(* The invariant of a session: what is on the wire, who holds the lock of  *)
(* the reader and what that means for the command, and how it ends.        *)
THEOREM SessionInvariant == Spec => []SessionInv
<1>1. Init => SessionInv
  BY SessionInitKeeps DEF Init
<1> QED BY <1>1, SessionNextKeeps, PTL DEF Spec

(* Types, of the session and of its logs. *)
THEOREM SessionTypesHold == Spec => [](STypeOK /\ LTypeOK)
<1>1. SessionInv => STypeOK
  BY DEF SessionInv, SessionTypes, OutputInv, STypeOK, MainState, MainPlaces, ReaderState,
         ReaderPlaces, ControlState, Ids
<1>2. LogInv => LTypeOK
  BY DEF LogInv, LogTypes, LTypeOK, LogState, LogPlaces
<1> QED BY <1>1, <1>2, SessionInvariant, LogInvariant, PTL

(* runOperationSession, whatever the host sends and whenever it closes the *)
(* pipe or interrupts the process: the events are numbered without a gap,  *)
(* a result is the last of them, counts the warnings and names the accepted*)
(* cancel, and the exit code agrees with it.                               *)
THEOREM AnswersAreWhole == Spec => []AnswerIsWhole
<1>1. SessionInv => AnswerIsWhole
  <2>1. SUFFICES ASSUME SessionInv PROVE AnswerIsWhole
    OBVIOUS
  <2>2. Sent("result") # {} => main.at = "done" /\ main.id = control.id
    BY <2>1 DEF SessionInv, OutputInv, EndInv, ControlInv, Closing
  <2>3. \A i \in Sent("result") :
          /\ i = Len(wire)
          /\ wire[i].extra.warnings = Cardinality(Sent("warning"))
          /\ wire[i].extra.id = control.id
          /\ wire[i].extra.success <=> Sent("error") = {}
    BY <2>1, <2>2 DEF SessionInv, OutputInv, EndInv
  <2>4. main.at = "done" =>
          /\ pipe => Sent("result") # {}
          /\ main.exit = "ok" <=> \E i \in Sent("result") : wire[i].extra.success
    <3>1. (\E i \in Sent("result") : wire[i].extra.success) <=>
            (Sent("result") # {} /\ main.errs = {})
      BY <2>1 DEF SessionInv, EndInv
    <3> QED BY <2>1, <3>1 DEF SessionInv, OutputInv, EndInv
  <2>5. \A i \in DOMAIN wire : wire[i].sequence = i
    BY <2>1 DEF SessionInv, OutputInv
  <2> QED BY <2>3, <2>4, <2>5 DEF AnswerIsWhole, Sent
<1> QED BY <1>1, SessionInvariant, PTL
=============================================================================
