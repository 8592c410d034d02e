---------------------------- MODULE RelayProofs -----------------------------
(***************************************************************************)
(* Theorems about modules Relay and Chunks.  Those about Relay are for     *)
(* every set of files and of requests and every limit of fetches and of    *)
(* cached files; those about Chunks for every set of upstreams, every      *)
(* length of a file and of its pieces and every number of workers.         *)
(***************************************************************************)
EXTENDS Relay, Chunks, SequenceTheorems, FiniteSetTheorems, TLAPS

Places == {"off", "queued", "indexSlot", "index", "empty", "join", "await", "serve"}
Phases == {"off", "slot", "get", "ok", "failed"}
Closings == {"open", "shutdown", "wait", "kept", "clean", "closed"}
Handling == [pc : Places, file : File \cup {Index}, found : {"none", "ok", "failed"}]

TypeInv ==
  /\ req \in [Request -> Handling]
  /\ fetch \in [File -> Phases]
  /\ files \in SUBSET File /\ disk \in SUBSET File
  /\ cancelled \in BOOLEAN /\ lease \in BOOLEAN
  /\ close \in Closings

(* A request that looks into the cache asks for a file, and one that is    *)
(* served was told that the file is there.                                 *)
AskInv ==
  \A r \in Request :
    /\ At(r, {"join", "await", "serve"}) => req[r].file \in File
    /\ At(r, {"serve"}) => req[r].found = "ok"

(* The lines of a channel hold exactly who waits for it, and once.         *)
Lined(q) == \A i, j \in DOMAIN q : q[i] = q[j] => i = j

LineInv ==
  /\ line = [handler |-> line.handler, fetch |-> line.fetch]
  /\ line.handler \in Seq(Request) /\ line.fetch \in Seq(File \cup Request)
  /\ Lined(line.handler) /\ Lined(line.fetch)
  /\ ToSet(line.handler) = {r \in Request : At(r, {"queued"})}
  /\ ToSet(line.fetch) =
       {r \in Request : At(r, {"indexSlot"})} \cup {f \in File : fetch[f] = "slot"}

(* The map has an entry for every fetch and for every file on the disk; a  *)
(* file is on the disk only after its fetch has delivered it.              *)
MapInv ==
  /\ \A f \in File : fetch[f] # "off" => f \in files
  /\ disk \subseteq files
  /\ \A f \in File : fetch[f] \in {"slot", "get", "failed"} => f \notin disk

(* Until the directory is cleaned the disk has what the map promises.      *)
DiskInv ==
  lease =>
    /\ \A f \in files : fetch[f] \in {"off", "ok"} => f \in disk
    /\ \A r \in Request : At(r, {"await", "serve"}) /\ req[r].found = "ok" => req[r].file \in disk

(* Close takes its steps in order, and nothing can begin after it.         *)
CloseInv ==
  /\ close # "open" => cancelled
  /\ close \in {"wait", "kept", "clean", "closed"} => \A r \in Request : ~At(r, {"join"})
  /\ close \in {"clean", "closed"} => Quiet
  /\ ~lease => close = "closed"

(* A map above its limit has an entry that is in use, whose release trims. *)
Busy(f) == fetch[f] # "off" \/ Refs(req, f) # {}

BoundInv ==
  /\ IsFiniteSet(files)
  /\ cancelled \/ Cardinality(files) <= MaxCachedFiles \/ \E f \in files : Busy(f)

IndInv ==
  /\ TypeInv /\ AskInv /\ LineInv /\ MapInv /\ DiskInv /\ CloseInv /\ BoundInv

-----------------------------------------------------------------------------
(* Lines.                                                                  *)

(* Who leaves a line leaves the others in it.                              *)
LEMMA GoneLeaves ==
  ASSUME NEW S, NEW q \in Seq(S), Lined(q), NEW x
  PROVE  Gone(q, x) \in Seq(S) /\ Lined(Gone(q, x)) /\ ToSet(Gone(q, x)) = ToSet(q) \ {x}
<1>1. CASE x \notin ToSet(q)
  BY <1>1 DEF Gone
<1>2. CASE x \in ToSet(q)
  <2> DEFINE k == CHOOSE i \in DOMAIN q : q[i] = x
             g == [i \in 1..(Len(q) - 1) |-> IF i < k THEN q[i] ELSE q[i + 1]]
  <2>1. k \in DOMAIN q /\ q[k] = x
    BY <1>2 DEF ToSet
  <2> HIDE DEF k
  <2>2. k \in 1..Len(q) /\ Len(q) \in Nat /\ DOMAIN q = 1..Len(q)
    BY <2>1
  <2>3. RemoveAt(q, k) = g
    <3> DEFINE n == Len(q)
               m == k + 1
               l == k - 1
               a == SubSeq(q, 1, l)
               b == SubSeq(q, m, n)
    <3>1. m \in Int /\ n \in Int /\ l \in Int /\ 1 \in Int
      BY <2>2
    <3>2. /\ \A i \in 1..l : q[i] \in S
          /\ \A i \in m..n : q[i] \in S
      BY <2>2
    <3> HIDE DEF m, n, l
    <3>3. /\ a \in Seq(S)
          /\ Len(a) = IF 1 <= l THEN l - 1 + 1 ELSE 0
          /\ \A i \in 1..(l - 1 + 1) : a[i] = q[1 + i - 1]
      BY <3>1, <3>2, SubSeqProperties
    <3>4. /\ b \in Seq(S)
          /\ Len(b) = IF m <= n THEN n - m + 1 ELSE 0
          /\ \A i \in 1..(n - m + 1) : b[i] = q[m + i - 1]
      BY <3>1, <3>2, SubSeqProperties
    <3> HIDE DEF a, b
    <3>5. Len(a) = k - 1 /\ \A i \in 1..(k - 1) : a[i] = q[i]
      BY <2>2, <3>3 DEF l
    <3>6. Len(b) = Len(q) - k /\ \A i \in 1..(Len(q) - k) : b[i] = q[k + i]
      <4>1. Len(b) = IF m <= n THEN n - m + 1 ELSE 0
        BY <3>4
      <4>2. Len(b) = Len(q) - k
        <5>1. CASE m <= n
          BY <2>2, <4>1, <5>1 DEF m, n
        <5>2. CASE n < m
          <6>1. Len(q) - k = 0
            <7>1. Len(q) < k + 1
              BY <5>2 DEF m, n
            <7>2. k \in Int /\ Len(q) \in Int /\ k <= Len(q)
              BY <2>2
            <7> QED
              BY <7>1, <7>2
          <6> QED
            BY <3>1, <4>1, <5>2, <6>1
        <5> QED
          BY <3>1, <5>1, <5>2
      <4>3. ASSUME NEW i \in 1..(Len(q) - k) PROVE b[i] = q[k + i]
        <5>1. i \in 1..(n - m + 1) /\ m + i - 1 = k + i
          BY <2>2 DEF m, n
        <5>2. b[i] = q[m + i - 1]
          BY <3>4, <5>1
        <5> QED
          BY <5>1, <5>2
      <4> QED
        BY <4>2, <4>3
    <3>7. /\ a \o b \in Seq(S) /\ Len(a \o b) = Len(a) + Len(b)
          /\ \A i \in 1..(Len(a) + Len(b)) :
               (a \o b)[i] = IF i <= Len(a) THEN a[i] ELSE b[i - Len(a)]
      BY <3>3, <3>4, ConcatProperties
    <3> DEFINE c == a \o b
    <3> HIDE DEF c
    <3>8. Len(c) = Len(q) - 1 /\ c \in Seq(S)
      BY <2>2, <3>5, <3>6, <3>7 DEF c
    <3>9. \A i \in 1..(Len(q) - 1) : c[i] = g[i]
      <4> SUFFICES ASSUME NEW i \in 1..(Len(q) - 1) PROVE c[i] = g[i]
        OBVIOUS
      <4>1. c[i] = IF i <= k - 1 THEN a[i] ELSE b[i - (k - 1)]
        BY <2>2, <3>5, <3>6, <3>7 DEF c
      <4>2. CASE i < k
        BY <2>2, <3>5, <4>1, <4>2
      <4>3. CASE ~(i < k)
        <5>1. i - (k - 1) \in 1..(Len(q) - k) /\ k + (i - (k - 1)) = i + 1 /\ ~(i <= k - 1)
          BY <2>2, <4>3
        <5>2. b[i - (k - 1)] = q[k + (i - (k - 1))]
          BY <3>6, <5>1
        <5> QED
          BY <4>1, <4>3, <5>1, <5>2
      <4> QED
        BY <4>2, <4>3
    <3>10. c = g
      <4>1. DOMAIN c = 1..(Len(q) - 1) /\ c = [i \in 1..(Len(q) - 1) |-> c[i]]
        BY <3>8
      <4> QED
        BY <3>9, <4>1
    <3> QED
      BY <3>10 DEF RemoveAt, a, b, c, l, m, n
  <2>4. Gone(q, x) = g
    BY <1>2, <2>3 DEF Gone, k
  <2>5. g \in Seq(S) /\ DOMAIN g = 1..(Len(q) - 1)
    <3>1. \A i \in 1..(Len(q) - 1) : g[i] \in S
      BY <2>2
    <3> QED
      BY <2>2, <3>1
  <2>6. Lined(g)
    BY <2>2, <2>5 DEF Lined
  <2>7. \A i \in DOMAIN g : g[i] \in ToSet(q) \ {x}
    BY <2>1, <2>2, <2>5 DEF Lined, ToSet
  <2>8. \A i \in DOMAIN q : q[i] # x => \E j \in DOMAIN g : g[j] = q[i]
    <3> SUFFICES ASSUME NEW i \in 1..Len(q), q[i] # x
                 PROVE  \E j \in 1..(Len(q) - 1) : g[j] = q[i]
      BY <2>2, <2>5
    <3>1. CASE i < k
      <4>1. i \in 1..(Len(q) - 1) /\ g[i] = q[i]
        BY <2>2, <3>1
      <4> QED
        BY <4>1
    <3>2. CASE i > k
      <4>1. i - 1 \in 1..(Len(q) - 1) /\ g[i - 1] = q[i]
        BY <2>2, <3>2
      <4> QED
        BY <4>1
    <3> QED
      BY <2>1, <2>2, <3>1, <3>2
  <2>9. ToSet(g) = ToSet(q) \ {x}
    BY <2>7, <2>8 DEF ToSet
  <2> QED
    BY <2>4, <2>5, <2>6, <2>9
<1> QED
  BY <1>1, <1>2

(* Who joins a line joins at its end.                                      *)
LEMMA AppendJoins ==
  ASSUME NEW S, NEW q \in Seq(S), Lined(q), NEW x \in S, x \notin ToSet(q)
  PROVE  /\ Append(q, x) \in Seq(S) /\ Lined(Append(q, x))
         /\ ToSet(Append(q, x)) = ToSet(q) \cup {x}
<1> DEFINE g == Append(q, x)
<1>1. g \in Seq(S) /\ Len(g) = Len(q) + 1 /\ DOMAIN g = 1..(Len(q) + 1) /\ DOMAIN q = 1..Len(q)
      /\ Len(q) \in Nat
  OBVIOUS
<1>2. g[Len(q) + 1] = x /\ \A i \in 1..Len(q) : g[i] = q[i]
  OBVIOUS
<1> HIDE DEF g
<1>3. Lined(g)
  BY <1>1, <1>2 DEF Lined, ToSet
<1>4. ToSet(g) = ToSet(q) \cup {x}
  BY <1>1, <1>2 DEF ToSet
<1> QED
  BY <1>1, <1>3, <1>4 DEF g

(* The first one is served.                                                *)
LEMMA TailServes ==
  ASSUME NEW S, NEW q \in Seq(S), Lined(q), q # <<>>
  PROVE  /\ Head(q) \in ToSet(q) /\ Tail(q) \in Seq(S) /\ Lined(Tail(q))
         /\ ToSet(Tail(q)) = ToSet(q) \ {Head(q)}
<1> DEFINE g == Tail(q)
<1>1. g \in Seq(S) /\ Len(q) \in Nat \ {0} /\ DOMAIN g = 1..(Len(q) - 1) /\ DOMAIN q = 1..Len(q)
      /\ Head(q) = q[1]
  OBVIOUS
<1>2. \A i \in 1..(Len(q) - 1) : g[i] = q[i + 1]
  OBVIOUS
<1> HIDE DEF g
<1>3. Lined(g)
  <2> SUFFICES ASSUME NEW i \in 1..(Len(q) - 1), NEW j \in 1..(Len(q) - 1), g[i] = g[j]
               PROVE  i = j
    BY <1>1 DEF Lined
  <2>1. i + 1 \in DOMAIN q /\ j + 1 \in DOMAIN q /\ q[i + 1] = q[j + 1]
    BY <1>1, <1>2
  <2>2. i + 1 = j + 1
    BY <2>1 DEF Lined
  <2> QED
    BY <2>2
<1>4. ToSet(g) \subseteq ToSet(q) \ {q[1]}
  BY <1>1, <1>2 DEF ToSet, Lined
<1>5. ASSUME NEW i \in 1..Len(q), q[i] # q[1] PROVE q[i] \in ToSet(g)
  <2>1. i - 1 \in 1..(Len(q) - 1) /\ g[i - 1] = q[i]
    BY <1>1, <1>2, <1>5
  <2> QED
    BY <1>1, <2>1 DEF ToSet
<1>6. ToSet(q) \ {q[1]} \subseteq ToSet(g)
  BY <1>1, <1>5 DEF ToSet
<1>7. ToSet(g) = ToSet(q) \ {Head(q)}
  BY <1>1, <1>4, <1>6
<1>8. Head(q) \in ToSet(q)
  BY <1>1 DEF ToSet
<1> QED
  BY <1>1, <1>3, <1>7, <1>8 DEF g

-----------------------------------------------------------------------------
(* Steps of one request.                                                   *)

(* The record of a handler and its changes.                                *)
LEMMA HandlingFields ==
  /\ Off \in Handling /\ Off.pc = "off" /\ Off.file = Index /\ Off.found = "none"
  /\ \A h \in Handling :
       h.pc \in Places /\ h.file \in File \cup {Index} /\ h.found \in {"none", "ok", "failed"}
  /\ \A h \in Handling, p \in Places :
       /\ [h EXCEPT !.pc = p] \in Handling /\ [h EXCEPT !.pc = p].pc = p
       /\ [h EXCEPT !.pc = p].file = h.file /\ [h EXCEPT !.pc = p].found = h.found
  /\ \A x \in File \cup {Index}, p \in Places :
       /\ [Off EXCEPT !.file = x, !.pc = p] \in Handling
       /\ [Off EXCEPT !.file = x, !.pc = p].pc = p
       /\ [Off EXCEPT !.file = x, !.pc = p].file = x
       /\ [Off EXCEPT !.file = x, !.pc = p].found = "none"
BY DEF Off, Handling, Places

Moved(r) ==
  /\ req' \in [Request -> Handling]
  /\ \A q \in Request : q # r => req'[q] = req[q]

(* A handler that goes on, or returns.                                     *)
LEMMA GoesMoves ==
  ASSUME TypeInv, NEW r \in Request, NEW p \in Places, Goes(r, p)
  PROVE  /\ Moved(r)
         /\ req'[r].pc = p
         /\ p # "off" => req'[r].file = req[r].file /\ req'[r].found = req[r].found
<1>1. req[r] \in Handling
  BY DEF TypeInv
<1> DEFINE h == IF p = "off" THEN Off ELSE [req[r] EXCEPT !.pc = p]
<1>2. /\ h \in Handling /\ h.pc = p
      /\ p # "off" => h.file = req[r].file /\ h.found = req[r].found
  <2>1. CASE p = "off"
    BY <2>1, HandlingFields
  <2>2. CASE p # "off"
    BY <1>1, <2>2 DEF Handling
  <2> QED
    BY <2>1, <2>2
<1>3. req' = [req EXCEPT ![r] = h]
  BY DEF Goes
<1> HIDE DEF h
<1> QED
  BY <1>2, <1>3 DEF Moved, TypeInv

(* Who waits at a place after the step.                                    *)
LEMMA WhoWaits ==
  ASSUME NEW r \in Request, Moved(r), NEW p
  PROVE  {q \in Request : At(q, {p})'} =
           IF req'[r].pc = p THEN {q \in Request : At(q, {p})} \cup {r}
           ELSE {q \in Request : At(q, {p})} \ {r}
BY DEF Moved, At

(* A step that changes nothing the cache or Close look at.                 *)
Reads(h) == h.pc \in {"await", "serve"}

Calm(r) ==
  /\ Moved(r)
  /\ UNCHANGED <<fetch, files, disk, cancelled, close, lease>>
  /\ Reads(req[r]) \/ Reads(req'[r]) =>
       /\ Reads(req[r]) /\ Reads(req'[r])
       /\ req'[r].file = req[r].file /\ req'[r].found = req[r].found
  /\ req'[r].pc = "serve" => req[r].file \in File /\ req[r].found = "ok"
  /\ req'[r].pc = "join" => req'[r].file \in File /\ ~cancelled

CacheInv == TypeInv /\ AskInv /\ MapInv /\ DiskInv /\ CloseInv /\ BoundInv

(* A calm step keeps everything but, perhaps, the lines.                   *)
LEMMA CalmKept ==
  ASSUME CacheInv, NEW r \in Request, Calm(r)
  PROVE  CacheInv'
<1> USE DEF CacheInv
<1>1. TypeInv'
  BY DEF Calm, Moved, TypeInv
<1>2. AskInv'
  BY DEF Calm, Moved, AskInv, At, Reads
<1>3. MapInv'
  BY DEF Calm, MapInv
<1>4. DiskInv'
  BY DEF Calm, Moved, DiskInv, At, Reads
<1>5. CloseInv'
  BY DEF Calm, Moved, CloseInv, At, Quiet
<1>6. \A f \in File : Refs(req, f) \subseteq Refs(req', f)
  BY DEF Calm, Moved, Refs, Reads
<1>7. BoundInv'
  <2>1. \A f \in files : Busy(f) => Busy(f)'
    BY <1>6 DEF Calm, Busy, TypeInv
  <2> QED
    BY <2>1 DEF Calm, BoundInv
<1> QED
  BY <1>1, <1>2, <1>3, <1>4, <1>5, <1>7

(* The steps of handlers that leave the cache alone.                       *)

(* A request comes to the channel of the handlers, or gets through it.     *)
LEMMA DispatchedMoves ==
  ASSUME TypeInv, NEW r \in Request, NEW x \in File \cup {Index}, Dispatched(r, x)
  PROVE  /\ Moved(r) /\ req'[r].file = x
         /\ req'[r].pc = IF x = Index THEN "indexSlot" ELSE "join"
<1> DEFINE p == IF x = Index THEN "indexSlot" ELSE "join"
           h == [Off EXCEPT !.file = x, !.pc = p]
<1>1. p \in Places
  BY DEF Places
<1>2. req' = [req EXCEPT ![r] = h]
  BY DEF Dispatched
<1> HIDE DEF p
<1>3. h \in Handling /\ h.pc = p /\ h.file = x
  BY <1>1 DEF Off, Handling
<1> HIDE DEF h
<1> QED
  BY <1>2, <1>3 DEF Moved, TypeInv, p

(* The lines after a dispatch, for a request that stood in no other.       *)
LEMMA DispatchedLines ==
  ASSUME TypeInv, LineInv, NEW r \in Request, NEW x \in File \cup {Index}, Dispatched(r, x),
         At(r, {"off", "queued"}), UNCHANGED fetch
  PROVE  LineInv'
<1> DEFINE a == line.handler
           b == line.fetch
<1>1. /\ a \in Seq(Request) /\ Lined(a) /\ ToSet(a) = {q \in Request : At(q, {"queued"})}
      /\ b \in Seq(File \cup Request) /\ Lined(b)
      /\ ToSet(b) = {q \in Request : At(q, {"indexSlot"})} \cup {f \in File : fetch[f] = "slot"}
  BY DEF LineInv
<1>2. line' = [handler |-> Gone(a, r), fetch |-> IF x = Index THEN Append(b, r) ELSE b]
  BY DEF Dispatched
<1> HIDE DEF a, b
<1>3. /\ Moved(r)
      /\ req'[r].pc = IF x = Index THEN "indexSlot" ELSE "join"
  BY DispatchedMoves
<1>4. /\ Gone(a, r) \in Seq(Request) /\ Lined(Gone(a, r)) /\ ToSet(Gone(a, r)) = ToSet(a) \ {r}
  BY <1>1, GoneLeaves
<1>5. {q \in Request : At(q, {"queued"})'} = {q \in Request : At(q, {"queued"})} \ {r}
  BY <1>3, WhoWaits
<1>6. r \notin ToSet(b)
  BY <1>1, RequestAssumption DEF At
<1>7. CASE x = Index
  <2>1. /\ Append(b, r) \in Seq(File \cup Request) /\ Lined(Append(b, r))
        /\ ToSet(Append(b, r)) = ToSet(b) \cup {r}
    BY <1>1, <1>6, AppendJoins
  <2>2. {q \in Request : At(q, {"indexSlot"})'} = {q \in Request : At(q, {"indexSlot"})} \cup {r}
    BY <1>3, <1>7, WhoWaits
  <2>3. line'.handler = Gone(a, r) /\ line'.fetch = Append(b, r)
        /\ line' = [handler |-> line'.handler, fetch |-> line'.fetch]
    BY <1>2, <1>7
  <2> QED
    BY <1>1, <1>4, <1>5, <2>1, <2>2, <2>3 DEF LineInv
<1>8. CASE x # Index
  <2>1. {q \in Request : At(q, {"indexSlot"})'} = {q \in Request : At(q, {"indexSlot"})} \ {r}
    BY <1>3, <1>8, WhoWaits
  <2>2. r \notin {q \in Request : At(q, {"indexSlot"})}
    BY DEF At
  <2>3. line'.handler = Gone(a, r) /\ line'.fetch = b
        /\ line' = [handler |-> line'.handler, fetch |-> line'.fetch]
    BY <1>2, <1>8
  <2> QED
    BY <1>1, <1>4, <1>5, <2>1, <2>2, <2>3 DEF LineInv
<1> QED
  BY <1>7, <1>8

(* A request arrives and takes a slot or a place in the line.              *)
LEMMA ArriveKept ==
  ASSUME IndInv, NEW r \in Request, NEW x \in File \cup {Index}, Arrive(r, x)
  PROVE  IndInv'
<1>1. /\ At(r, {"off"}) /\ ~cancelled
      /\ UNCHANGED <<fetch, files, disk, cancelled, close, lease>>
  BY DEF Arrive, Same, cache, ends
<1>2. CASE Dispatched(r, x)
  <2>1. LineInv'
    BY <1>1, <1>2, DispatchedLines DEF IndInv, At
  <2>2. Calm(r)
    BY <1>1, <1>2, DispatchedMoves, IndexAssumption DEF IndInv, Calm, Reads, At
  <2> QED
    BY <2>1, <2>2, CalmKept DEF IndInv, CacheInv
<1>3. CASE /\ req' = [req EXCEPT ![r] = [Off EXCEPT !.file = x, !.pc = "queued"]]
           /\ line' = [line EXCEPT !.handler = Append(@, r)]
  <2> DEFINE h == [Off EXCEPT !.file = x, !.pc = "queued"]
  <2>1. h \in Handling /\ h.pc = "queued"
    BY DEF Off, Handling, Places
  <2> HIDE DEF h
  <2>2. Moved(r) /\ req'[r].pc = "queued"
    BY <1>3, <2>1 DEF IndInv, TypeInv, Moved, h
  <2>3. Calm(r)
    BY <1>1, <2>2 DEF Calm, Reads, At
  <2>4. /\ {q \in Request : At(q, {"queued"})'} = {q \in Request : At(q, {"queued"})} \cup {r}
        /\ {q \in Request : At(q, {"indexSlot"})'} = {q \in Request : At(q, {"indexSlot"})} \ {r}
    BY <2>2, WhoWaits
  <2>5. /\ r \notin {q \in Request : At(q, {"indexSlot"})}
        /\ r \notin {q \in Request : At(q, {"queued"})}
    BY <1>1 DEF At
  <2>6. r \notin ToSet(line.handler)
    BY <2>5 DEF IndInv, LineInv
  <2>7. /\ Append(line.handler, r) \in Seq(Request) /\ Lined(Append(line.handler, r))
        /\ ToSet(Append(line.handler, r)) = ToSet(line.handler) \cup {r}
    BY <2>6, AppendJoins DEF IndInv, LineInv
  <2>8. line'.handler = Append(line.handler, r) /\ line'.fetch = line.fetch
        /\ line' = [handler |-> line'.handler, fetch |-> line'.fetch]
    BY <1>3 DEF IndInv, LineInv
  <2>9. LineInv'
    BY <1>1, <2>4, <2>5, <2>7, <2>8 DEF IndInv, LineInv
  <2> QED
    BY <2>3, <2>9, CalmKept DEF IndInv, CacheInv
<1> QED
  BY <1>2, <1>3 DEF Arrive

(* The first in line gets a handler slot.                                  *)
LEMMA AdmitKept ==
  ASSUME IndInv, NEW r \in Request, Admit(r)
  PROVE  IndInv'
<1>1. /\ line.handler # <<>> /\ r = Head(line.handler) /\ ~cancelled
      /\ Dispatched(r, req[r].file)
      /\ UNCHANGED <<fetch, files, disk, cancelled, close, lease>>
  BY DEF Admit, Same, cache, ends
<1>2. req[r].file \in File \cup {Index}
  BY HandlingFields DEF IndInv, TypeInv
<1>3. At(r, {"queued"})
  BY <1>1, TailServes DEF IndInv, LineInv
<1>4. LineInv'
  BY <1>1, <1>2, <1>3, DispatchedLines DEF IndInv, At
<1>5. Calm(r)
  BY <1>1, <1>2, <1>3, DispatchedMoves, IndexAssumption DEF IndInv, Calm, Reads, At
<1> QED
  BY <1>4, <1>5, CalmKept DEF IndInv, CacheInv

(* A request leaves the line of the handlers.                              *)
LEMMA RefuseKept ==
  ASSUME IndInv, NEW r \in Request, Refuse(r)
  PROVE  IndInv'
<1>1. /\ At(r, {"queued"}) /\ Goes(r, "off")
      /\ line' = [line EXCEPT !.handler = Gone(@, r)]
      /\ UNCHANGED <<fetch, files, disk, cancelled, close, lease>>
  BY DEF Refuse, Same, cache, ends
<1>2. Moved(r) /\ req'[r].pc = "off"
  BY <1>1, GoesMoves DEF IndInv, Places
<1>3. Calm(r)
  BY <1>1, <1>2 DEF Calm, Reads, At
<1>4. /\ {q \in Request : At(q, {"queued"})'} = {q \in Request : At(q, {"queued"})} \ {r}
      /\ {q \in Request : At(q, {"indexSlot"})'} = {q \in Request : At(q, {"indexSlot"})} \ {r}
  BY <1>2, WhoWaits
<1>5. r \notin {q \in Request : At(q, {"indexSlot"})}
  BY <1>1 DEF At
<1>6. /\ Gone(line.handler, r) \in Seq(Request) /\ Lined(Gone(line.handler, r))
      /\ ToSet(Gone(line.handler, r)) = ToSet(line.handler) \ {r}
  BY GoneLeaves DEF IndInv, LineInv
<1>7. line'.handler = Gone(line.handler, r) /\ line'.fetch = line.fetch
      /\ line' = [handler |-> line'.handler, fetch |-> line'.fetch]
  BY <1>1 DEF IndInv, LineInv
<1>8. LineInv'
  BY <1>1, <1>4, <1>5, <1>6, <1>7 DEF IndInv, LineInv
<1> QED
  BY <1>3, <1>8, CalmKept DEF IndInv, CacheInv

(* A request for an index leaves the line of the fetches.                  *)
LEMMA IndexLeavesKept ==
  ASSUME IndInv, NEW r \in Request, IndexLeaves(r)
  PROVE  IndInv'
<1>1. /\ At(r, {"indexSlot"}) /\ (Goes(r, "empty") \/ Goes(r, "off"))
      /\ line' = [line EXCEPT !.fetch = Gone(@, r)]
      /\ UNCHANGED <<fetch, files, disk, cancelled, close, lease>>
  BY DEF IndexLeaves, Quits, Same, cache, ends
<1>2. Moved(r) /\ req'[r].pc \in {"off", "empty"}
  BY <1>1, GoesMoves DEF IndInv, Places
<1>3. Calm(r)
  BY <1>1, <1>2 DEF Calm, Reads, At
<1>4. /\ {q \in Request : At(q, {"queued"})'} = {q \in Request : At(q, {"queued"})} \ {r}
      /\ {q \in Request : At(q, {"indexSlot"})'} = {q \in Request : At(q, {"indexSlot"})} \ {r}
  BY <1>2, WhoWaits
<1>5. r \notin {q \in Request : At(q, {"queued"})} /\ r \notin File
  BY <1>1, RequestAssumption DEF At
<1>6. /\ Gone(line.fetch, r) \in Seq(File \cup Request) /\ Lined(Gone(line.fetch, r))
      /\ ToSet(Gone(line.fetch, r)) = ToSet(line.fetch) \ {r}
  BY GoneLeaves DEF IndInv, LineInv
<1>7. line'.handler = line.handler /\ line'.fetch = Gone(line.fetch, r)
      /\ line' = [handler |-> line'.handler, fetch |-> line'.fetch]
  BY <1>1 DEF IndInv, LineInv
<1>8. LineInv'
  BY <1>1, <1>4, <1>5, <1>6, <1>7 DEF IndInv, LineInv
<1> QED
  BY <1>3, <1>8, CalmKept DEF IndInv, CacheInv

(* Steps that leave the lines alone too.                                   *)
LEMMA LineStays ==
  ASSUME LineInv, NEW r \in Request, Moved(r), UNCHANGED line,
         ~At(r, {"queued", "indexSlot"}), req'[r].pc \notin {"queued", "indexSlot"},
         \A f \in File : fetch'[f] = "slot" <=> fetch[f] = "slot"
  PROVE  LineInv'
<1>1. /\ {q \in Request : At(q, {"queued"})'} = {q \in Request : At(q, {"queued"})}
      /\ {q \in Request : At(q, {"indexSlot"})'} = {q \in Request : At(q, {"indexSlot"})}
  BY DEF Moved, At
<1> QED
  BY <1>1 DEF LineInv

(* An index has been answered or not, a file is opened.                    *)
LEMMA PlainKept ==
  ASSUME IndInv, NEW r \in Request, IndexEnds(r) \/ Unanswered(r) \/ Open(r)
  PROVE  IndInv'
<1>1. /\ UNCHANGED <<line, fetch, files, disk, cancelled, close, lease>>
      /\ \/ At(r, {"index", "empty"}) /\ (Goes(r, "empty") \/ Goes(r, "off"))
         \/ At(r, {"await"}) /\ req[r].found = "ok" /\ Goes(r, "serve")
  BY DEF IndexEnds, Unanswered, Open, Same, cache, ends, At
<1>2. /\ Moved(r) /\ req'[r].pc \in {"empty", "off", "serve"}
      /\ req'[r].pc = "serve" =>
           /\ At(r, {"await"}) /\ req[r].found = "ok"
           /\ req'[r].file = req[r].file /\ req'[r].found = req[r].found
      /\ req'[r].pc # "serve" => At(r, {"index", "empty"})
  BY <1>1, GoesMoves DEF IndInv, Places
<1>3. req'[r].pc = "serve" => req[r].file \in File
  BY <1>2 DEF IndInv, AskInv, At
<1>4. Calm(r)
  BY <1>1, <1>2, <1>3 DEF Calm, Reads, At
<1>5. LineInv'
  BY <1>1, <1>2, LineStays DEF IndInv, At
<1> QED
  BY <1>4, <1>5, CalmKept DEF IndInv, CacheInv

-----------------------------------------------------------------------------
(* The cache.                                                              *)

(* What trimCache takes away is used by nobody, and it stops above the     *)
(* limit only when everything left is in use.                              *)
Trimmed(fs, on) ==
  \E out \in SUBSET fs :
    /\ files' = fs \ out /\ disk' = on \ out
    /\ \A f \in out : fetch'[f] = "off" /\ Refs(req', f) = {}
    /\ cancelled => cancelled'
    /\ \/ cancelled' \/ Cardinality(files') <= MaxCachedFiles
       \/ \E f \in files' : fetch'[f] # "off" \/ Refs(req', f) # {}

(* trimCache is such a trimming.                                           *)
LEMMA TrimTrims ==
  ASSUME NEW fs, IsFiniteSet(fs), NEW on, Trim(fs, on, req'), cancelled \in BOOLEAN
  PROVE  Trimmed(fs, on) /\ cancelled' \in BOOLEAN
<1> DEFINE idle == Evictable(fs, req')
           over == Cardinality(fs) - MaxCachedFiles
           need == IF over <= 0 THEN 0
                   ELSE IF over < Cardinality(idle) THEN over ELSE Cardinality(idle)
<1>1. PICK out \in SUBSET idle :
        /\ Cardinality(out) <= need
        /\ files' = fs \ out /\ disk' = on \ out
        /\ cancelled' = (cancelled \/ Cardinality(out) < need)
  BY DEF Trim
<1>2. idle \subseteq fs /\ \A f \in fs : f \in idle <=> fetch'[f] = "off" /\ Refs(req', f) = {}
  BY DEF Evictable
<1> HIDE DEF idle
<1>3. /\ Cardinality(fs) \in Nat /\ IsFiniteSet(out) /\ Cardinality(out) \in Nat
      /\ IsFiniteSet(idle) /\ Cardinality(idle) \in Nat
      /\ (Cardinality(idle) = Cardinality(out) => idle = out)
  BY <1>2, FS_CardinalityType, FS_Subset
<1>4. MaxCachedFiles \in Nat \ {0}
  BY LimitsAssumption
<1>5. Cardinality(fs \ out) = Cardinality(fs) - Cardinality(out)
  <2>1. fs \cap out = out
    BY <1>2
  <2> QED
    BY <2>1, FS_Difference
<1>6. ASSUME ~cancelled', ~(Cardinality(files') <= MaxCachedFiles)
      PROVE  \E f \in files' : fetch'[f] # "off" \/ Refs(req', f) # {}
  <2>1. ~(Cardinality(out) < need) /\ Cardinality(fs) - Cardinality(out) > MaxCachedFiles
    <3>1. ~(Cardinality(out) < need)
      BY <1>1, <1>6, Zenon
    <3>2. ~(Cardinality(fs) - Cardinality(out) <= MaxCachedFiles)
      BY <1>1, <1>5, <1>6, Zenon
    <3> QED
      BY <1>3, <1>4, <3>1, <3>2
  <2>2. idle = out
    BY <1>1, <1>3, <1>4, <2>1
  <2>3. files' # {}
    BY <1>1, <1>3, <1>4, <1>5, <2>1, FS_EmptySet
  <2> QED
    BY <1>1, <1>2, <2>2, <2>3
<1>7. out \in SUBSET fs /\ \A f \in out : fetch'[f] = "off" /\ Refs(req', f) = {}
  BY <1>2
<1>8. (cancelled => cancelled') /\ cancelled' \in BOOLEAN
  BY <1>1, Zenon
<1> QED
  BY <1>1, <1>6, <1>7, <1>8 DEF Trimmed

(* A handler returns its reference.                                        *)
LEMMA ReleaseKept ==
  ASSUME IndInv, NEW r \in Request, At(r, {"await", "serve"}), Release(r)
  PROVE  IndInv'
<1>1. Goes(r, "off") /\ UNCHANGED <<line, fetch, close, lease>>
  BY DEF Release, ends
<1>2. Moved(r) /\ req'[r].pc = "off"
  BY <1>1, GoesMoves DEF IndInv, Places
<1>3. Trimmed(files, disk) /\ cancelled' \in BOOLEAN
  BY TrimTrims DEF IndInv, Release, BoundInv, TypeInv
<1>4. PICK out \in SUBSET files :
        /\ files' = files \ out /\ disk' = disk \ out
        /\ \A f \in out : fetch'[f] = "off" /\ Refs(req', f) = {}
        /\ cancelled => cancelled'
        /\ \/ cancelled' \/ Cardinality(files') <= MaxCachedFiles
           \/ \E f \in files' : fetch'[f] # "off" \/ Refs(req', f) # {}
  BY <1>3 DEF Trimmed
<1>5. TypeInv'
  BY <1>1, <1>2, <1>3, <1>4 DEF IndInv, TypeInv, Moved
<1>6. AskInv'
  BY <1>2 DEF IndInv, AskInv, Moved, At
<1>7. LineInv'
  BY <1>1, <1>2, LineStays DEF IndInv, At
<1>8. MapInv'
  BY <1>1, <1>4 DEF IndInv, MapInv
<1>9. \A q \in Request : At(q, {"await", "serve"})' /\ req'[q].found = "ok" =>
        q \in Refs(req', req'[q].file) /\ q # r
  BY <1>2 DEF Refs, At
<1>10. DiskInv'
  BY <1>1, <1>2, <1>4, <1>9 DEF IndInv, DiskInv, Moved, At
<1>11. CloseInv'
  BY <1>1, <1>2, <1>4 DEF IndInv, CloseInv, Moved, At, Quiet
<1>12. BoundInv'
  BY <1>4, FS_Subset DEF IndInv, BoundInv, Busy
<1> QED
  BY <1>5, <1>6, <1>7, <1>8, <1>10, <1>11, <1>12 DEF IndInv

(* Who waits for a fetch is told how it ended; all others go on as before. *)
LEMMA ToldTells ==
  ASSUME TypeInv, NEW f \in File, fetch[f] \in {"ok", "failed"}, req' = Told(f)
  PROVE  /\ req' \in [Request -> Handling]
         /\ \A q \in Request : req'[q].pc = req[q].pc /\ req'[q].file = req[q].file
         /\ \A q \in Request : Waits(q, f) => req'[q].found = fetch[f]
         /\ \A q \in Request : ~Waits(q, f) => req'[q].found = req[q].found
<1>1. ASSUME NEW q \in Request
      PROVE  /\ req'[q] \in Handling
             /\ req'[q].pc = req[q].pc /\ req'[q].file = req[q].file
             /\ Waits(q, f) => req'[q].found = fetch[f]
             /\ ~Waits(q, f) => req'[q].found = req[q].found
  <2>1. req[q] \in Handling
    BY DEF TypeInv
  <2>2. req'[q] = IF Waits(q, f) THEN [req[q] EXCEPT !.found = fetch[f]] ELSE req[q]
    BY DEF Told
  <2>3. CASE Waits(q, f)
    BY <2>1, <2>2, <2>3 DEF Handling
  <2>4. CASE ~Waits(q, f)
    BY <2>1, <2>2, <2>4
  <2> QED
    BY <2>3, <2>4
<1>2. DOMAIN req' = Request /\ req' = [q \in Request |-> req'[q]]
  BY DEF Told
<1> QED
  BY <1>1, <1>2

(* runFetch tells who waits, drops a failed entry and trims.               *)
LEMMA FinishKept ==
  ASSUME IndInv, NEW f \in File, Finish(f)
  PROVE  IndInv'
<1>1. /\ fetch[f] \in {"ok", "failed"} /\ req' = Told(f)
      /\ fetch' = [fetch EXCEPT ![f] = "off"]
      /\ UNCHANGED <<line, close, lease>>
  BY DEF Finish, ends
<1>2. /\ req' \in [Request -> Handling]
      /\ \A q \in Request : req'[q].pc = req[q].pc /\ req'[q].file = req[q].file
      /\ \A q \in Request : Waits(q, f) => req'[q].found = fetch[f]
      /\ \A q \in Request : ~Waits(q, f) => req'[q].found = req[q].found
  BY <1>1, ToldTells DEF IndInv
<1>3. /\ fetch' \in [File -> Phases] /\ fetch'[f] = "off"
      /\ \A g \in File : g # f => fetch'[g] = fetch[g]
  BY <1>1 DEF IndInv, TypeInv, Phases
<1> DEFINE fs == Kept(f)
<1>4. /\ fs \subseteq files
      /\ \A g \in files : g # f => g \in fs
      /\ fetch[f] = "ok" => fs = files
      /\ fetch[f] = "failed" => f \notin fs
  BY DEF Kept
<1>5. IsFiniteSet(fs)
  BY <1>4, FS_Subset DEF IndInv, BoundInv
<1>6. Trim(fs, disk, req')
  BY DEF Finish
<1> HIDE DEF fs
<1>7. Trimmed(fs, disk) /\ cancelled' \in BOOLEAN
  BY <1>5, <1>6, TrimTrims DEF IndInv, TypeInv
<1>8. PICK out \in SUBSET fs :
        /\ files' = fs \ out /\ disk' = disk \ out
        /\ \A g \in out : fetch'[g] = "off" /\ Refs(req', g) = {}
        /\ cancelled => cancelled'
        /\ \/ cancelled' \/ Cardinality(files') <= MaxCachedFiles
           \/ \E g \in files' : fetch'[g] # "off" \/ Refs(req', g) # {}
  BY <1>7 DEF Trimmed
<1>9. TypeInv'
  BY <1>1, <1>2, <1>3, <1>4, <1>7, <1>8 DEF IndInv, TypeInv
<1>10. AskInv'
  BY <1>2 DEF IndInv, AskInv, At, Waits
<1>11. LineInv'
  <2>1. /\ {q \in Request : At(q, {"queued"})'} = {q \in Request : At(q, {"queued"})}
        /\ {q \in Request : At(q, {"indexSlot"})'} = {q \in Request : At(q, {"indexSlot"})}
    BY <1>2 DEF At
  <2>2. {g \in File : fetch'[g] = "slot"} = {g \in File : fetch[g] = "slot"}
    BY <1>1, <1>3
  <2> QED
    BY <1>1, <2>1, <2>2 DEF IndInv, LineInv
<1>12. MapInv'
  <2>1. fetch[f] = "failed" => f \notin disk
    BY DEF IndInv, MapInv
  <2>2. disk \subseteq fs
    BY <1>1, <1>4, <2>1 DEF IndInv, MapInv
  <2> QED
    BY <1>3, <1>4, <1>8, <2>2 DEF IndInv, MapInv
<1>13. ASSUME lease
       PROVE  \A q \in Request : At(q, {"await", "serve"})' /\ req'[q].found = "ok" =>
                req'[q].file \in disk /\ q \in Refs(req', req'[q].file)
  BY <1>1, <1>2, <1>13 DEF IndInv, DiskInv, MapInv, At, Waits, Refs
<1>14. DiskInv'
  <2>1. ASSUME lease, NEW g \in files', fetch'[g] \in {"off", "ok"} PROVE g \in disk'
    BY <1>1, <1>3, <1>4, <1>8, <2>1 DEF IndInv, DiskInv, TypeInv
  <2>2. ASSUME lease PROVE \A q \in Request : At(q, {"await", "serve"})' /\ req'[q].found = "ok"
                             => req'[q].file \in disk'
    BY <1>8, <1>13, <2>2
  <2> QED
    BY <1>1, <2>1, <2>2 DEF DiskInv
<1>15. CloseInv'
  BY <1>1, <1>2, <1>3, <1>8 DEF IndInv, CloseInv, At, Quiet
<1>16. BoundInv'
  BY <1>4, <1>5, <1>8, FS_Subset DEF BoundInv, Busy
<1> QED
  BY <1>9, <1>10, <1>11, <1>12, <1>14, <1>15, <1>16 DEF IndInv

(* awaitFile finds an entry, or makes one and starts its fetch.            *)
LEMMA JoinKept ==
  ASSUME IndInv, NEW r \in Request, Join(r)
  PROVE  IndInv'
<1> DEFINE f == req[r].file
           y == IF f \in files /\ fetch[f] = "off" THEN "ok" ELSE "none"
<1>1. /\ At(r, {"join"})
      /\ files' = files \cup {f}
      /\ fetch' = [fetch EXCEPT ![f] = IF f \notin files THEN "slot" ELSE @]
      /\ req' = [req EXCEPT ![r].pc = "await", ![r].found = y]
      /\ IF f \notin files THEN Queues(f) ELSE UNCHANGED line
      /\ UNCHANGED <<disk, cancelled, close, lease>>
  BY DEF Join, ends
<1>2. f \in File
  BY <1>1 DEF IndInv, AskInv, At
<1>3. /\ Moved(r) /\ req'[r].pc = "await" /\ req'[r].file = f /\ req'[r].found = y
  <2>1. req[r] \in Handling /\ y \in {"none", "ok"}
    BY DEF IndInv, TypeInv
  <2> DEFINE h == [req[r] EXCEPT !.pc = "await", !.found = y]
  <2>2. req' = [req EXCEPT ![r] = h]
    BY <1>1 DEF IndInv, TypeInv
  <2>3. h \in Handling /\ h.pc = "await" /\ h.file = f /\ h.found = y
    BY <2>1 DEF Handling, Places
  <2> HIDE DEF h, f, y
  <2> QED
    BY <2>2, <2>3 DEF IndInv, TypeInv, Moved
<1> HIDE DEF f, y
<1>4. /\ fetch' \in [File -> Phases]
      /\ fetch'[f] = IF f \notin files THEN "slot" ELSE fetch[f]
      /\ \A g \in File : g # f => fetch'[g] = fetch[g]
  BY <1>1, <1>2 DEF IndInv, TypeInv, Phases
<1>5. TypeInv'
  BY <1>1, <1>2, <1>3, <1>4 DEF IndInv, TypeInv, Moved
<1>6. AskInv'
  BY <1>2, <1>3 DEF IndInv, AskInv, Moved, At
<1>7. f \notin files => fetch[f] = "off" /\ f \notin disk
  BY <1>2 DEF IndInv, MapInv
<1>8. LineInv'
  <2>1. /\ {q \in Request : At(q, {"queued"})'} = {q \in Request : At(q, {"queued"})}
        /\ {q \in Request : At(q, {"indexSlot"})'} = {q \in Request : At(q, {"indexSlot"})}
    BY <1>1, <1>3 DEF Moved, At
  <2>2. CASE f \in files
    <3>1. {g \in File : fetch'[g] = "slot"} = {g \in File : fetch[g] = "slot"}
      BY <1>4, <2>2
    <3> QED
      BY <1>1, <2>1, <2>2, <3>1 DEF IndInv, LineInv
  <2>3. CASE f \notin files
    <3>1. {g \in File : fetch'[g] = "slot"} = {g \in File : fetch[g] = "slot"} \cup {f}
      BY <1>2, <1>4, <2>3
    <3>2. f \notin ToSet(line.fetch)
      BY <1>2, <1>7, <2>3, RequestAssumption DEF IndInv, LineInv
    <3>3. /\ Append(line.fetch, f) \in Seq(File \cup Request) /\ Lined(Append(line.fetch, f))
          /\ ToSet(Append(line.fetch, f)) = ToSet(line.fetch) \cup {f}
      BY <1>2, <3>2, AppendJoins DEF IndInv, LineInv
    <3>4. line' = [line EXCEPT !.fetch = Append(@, f)]
      BY <1>1, <2>3 DEF Queues
    <3>5. line'.handler = line.handler /\ line'.fetch = Append(line.fetch, f)
          /\ line' = [handler |-> line'.handler, fetch |-> line'.fetch]
      BY <3>4 DEF IndInv, LineInv
    <3> QED
      BY <2>1, <3>1, <3>3, <3>5 DEF IndInv, LineInv
  <2> QED
    BY <2>2, <2>3
<1>9. MapInv'
  BY <1>1, <1>2, <1>4, <1>7 DEF IndInv, MapInv
<1>10. DiskInv'
  <2>1. lease => \A g \in files' : fetch'[g] \in {"off", "ok"} => g \in disk
    BY <1>1, <1>2, <1>4 DEF IndInv, DiskInv, TypeInv
  <2>2. lease => \A q \in Request : At(q, {"await", "serve"})' /\ req'[q].found = "ok"
                   => req'[q].file \in disk
    BY <1>2, <1>3 DEF IndInv, DiskInv, Moved, At, y
  <2> QED
    BY <1>1, <2>1, <2>2 DEF DiskInv
<1>11. close \notin {"wait", "kept", "clean", "closed"}
  BY <1>1 DEF IndInv, CloseInv
<1>12. CloseInv'
  BY <1>1, <1>11 DEF IndInv, CloseInv
<1>13. BoundInv'
  <2>1. IsFiniteSet(files')
    BY <1>1, FS_AddElement DEF IndInv, BoundInv
  <2>2. Refs(req', f) # {}
    BY <1>3 DEF Refs, y
  <2> QED
    BY <1>1, <2>1, <2>2 DEF BoundInv, Busy
<1> QED
  BY <1>5, <1>6, <1>8, <1>9, <1>10, <1>12, <1>13 DEF IndInv

-----------------------------------------------------------------------------
(* Fetches and the end of the relay.                                       *)

(* A fetch goes on without leaving the map.                                *)
LEMMA FetchGoesOn ==
  ASSUME CacheInv, NEW f \in File, NEW ph \in {"get", "ok", "failed"},
         fetch[f] \in {"slot", "get"}, fetch' = [fetch EXCEPT ![f] = ph],
         disk' = IF ph = "ok" THEN disk \cup {f} ELSE disk,
         UNCHANGED <<req, files, cancelled, close, lease>>
  PROVE  CacheInv'
<1> USE DEF CacheInv
<1>1. /\ fetch' \in [File -> Phases] /\ fetch'[f] = ph
      /\ \A g \in File : g # f => fetch'[g] = fetch[g]
  BY DEF TypeInv, Phases
<1>2. f \in files
  BY DEF MapInv
<1>3. TypeInv' /\ AskInv'
  BY <1>1 DEF TypeInv, AskInv, At
<1>4. MapInv'
  BY <1>1, <1>2 DEF MapInv
<1>5. DiskInv'
  BY <1>1, <1>2 DEF DiskInv, At, TypeInv
<1>6. CloseInv'
  BY <1>1 DEF CloseInv, At, Quiet
<1>7. BoundInv'
  <2>1. Busy(f)'
    BY <1>1 DEF Busy
  <2> QED
    BY <1>2, <2>1 DEF BoundInv
<1> QED
  BY <1>3, <1>4, <1>5, <1>6, <1>7

(* A slot of the fetches is handed to the first in line.                   *)
LEMMA TakeKept ==
  ASSUME IndInv, Take
  PROVE  IndInv'
<1> DEFINE x == Head(line.fetch)
<1>1. /\ line.fetch # <<>>
      /\ IF x \in File THEN fetch' = [fetch EXCEPT ![x] = "get"] /\ UNCHANGED req
         ELSE req' = [req EXCEPT ![x].pc = "index"] /\ UNCHANGED fetch
      /\ line' = [line EXCEPT !.fetch = Tail(@)]
      /\ UNCHANGED <<files, disk, cancelled, close, lease>>
  BY DEF Take, cache, ends
<1>2. /\ x \in ToSet(line.fetch) /\ Tail(line.fetch) \in Seq(File \cup Request)
      /\ Lined(Tail(line.fetch)) /\ ToSet(Tail(line.fetch)) = ToSet(line.fetch) \ {x}
  BY <1>1, TailServes DEF IndInv, LineInv
<1>3. line'.handler = line.handler /\ line'.fetch = Tail(line.fetch)
      /\ line' = [handler |-> line'.handler, fetch |-> line'.fetch]
  BY <1>1 DEF IndInv, LineInv
<1> HIDE DEF x
<1>4. CASE x \in File
  <2>1. fetch[x] = "slot"
    BY <1>2, <1>4, RequestAssumption DEF IndInv, LineInv
  <2>2. CacheInv'
    BY <1>1, <1>4, <2>1, FetchGoesOn DEF IndInv, CacheInv
  <2>3. {g \in File : fetch'[g] = "slot"} = {g \in File : fetch[g] = "slot"} \ {x}
    BY <1>1, <1>4 DEF IndInv, TypeInv
  <2>4. x \notin {q \in Request : At(q, {"indexSlot"})}
    BY <1>4, RequestAssumption
  <2>5. /\ {q \in Request : At(q, {"queued"})'} = {q \in Request : At(q, {"queued"})}
        /\ {q \in Request : At(q, {"indexSlot"})'} = {q \in Request : At(q, {"indexSlot"})}
    BY <1>1, <1>4 DEF At
  <2>6. LineInv'
    BY <1>2, <1>3, <2>3, <2>4, <2>5 DEF IndInv, LineInv
  <2> QED
    BY <2>2, <2>6 DEF IndInv, CacheInv
<1>5. CASE x \notin File
  <2>1. x \in Request /\ req[x].pc = "indexSlot"
    BY <1>2, <1>5 DEF IndInv, LineInv, At
  <2> DEFINE h == [req[x] EXCEPT !.pc = "index"]
  <2>2. req' = [req EXCEPT ![x] = h]
    BY <1>1, <1>5, <2>1 DEF IndInv, TypeInv
  <2>3. req[x] \in Handling
    BY <2>1 DEF IndInv, TypeInv
  <2>4. h \in Handling /\ h.pc = "index"
    BY <2>3 DEF Handling, Places
  <2> HIDE DEF h
  <2>5. Moved(x) /\ req'[x].pc = "index"
    BY <2>1, <2>2, <2>4 DEF IndInv, TypeInv, Moved
  <2>6. Calm(x)
    BY <1>1, <1>5, <2>1, <2>5 DEF Calm, Reads
  <2>7. CacheInv'
    BY <2>1, <2>6, CalmKept DEF IndInv, CacheInv
  <2>8. /\ {q \in Request : At(q, {"queued"})'} = {q \in Request : At(q, {"queued"})} \ {x}
        /\ {q \in Request : At(q, {"indexSlot"})'} = {q \in Request : At(q, {"indexSlot"})} \ {x}
    BY <2>1, <2>5, WhoWaits
  <2>9. x \notin {q \in Request : At(q, {"queued"})}
    BY <2>1 DEF At
  <2>10. LineInv'
    BY <1>1, <1>2, <1>3, <1>5, <2>8, <2>9 DEF IndInv, LineInv
  <2> QED
    BY <2>7, <2>10 DEF IndInv, CacheInv
<1> QED
  BY <1>4, <1>5

(* The engine has written the file before its entry says so.               *)
LEMMA DeliverKept ==
  ASSUME IndInv, NEW f \in File, Deliver(f)
  PROVE  IndInv'
<1>1. /\ fetch[f] = "get" /\ fetch' = [fetch EXCEPT ![f] = "ok"] /\ disk' = disk \cup {f}
      /\ UNCHANGED <<req, line, files, cancelled, close, lease>>
  BY DEF Deliver, ends
<1>2. CacheInv'
  BY <1>1, FetchGoesOn DEF IndInv, CacheInv
<1>3. {g \in File : fetch'[g] = "slot"} = {g \in File : fetch[g] = "slot"}
  BY <1>1 DEF IndInv, TypeInv
<1>4. LineInv'
  BY <1>1, <1>3 DEF IndInv, LineInv, At
<1> QED
  BY <1>2, <1>4 DEF IndInv, CacheInv

(* A fetch that fails leaves its line.                                     *)
LEMMA GivesUpKept ==
  ASSUME IndInv, NEW f \in File, GivesUp(f)
  PROVE  IndInv'
<1>1. /\ fetch[f] \in {"slot", "get"} /\ fetch' = [fetch EXCEPT ![f] = "failed"]
      /\ line' = [line EXCEPT !.fetch = Gone(@, f)]
      /\ UNCHANGED <<req, files, disk, cancelled, close, lease>>
  BY DEF GivesUp, Quits, cache, ends
<1>2. CacheInv'
  BY <1>1, FetchGoesOn DEF IndInv, CacheInv
<1>3. {g \in File : fetch'[g] = "slot"} = {g \in File : fetch[g] = "slot"} \ {f}
  BY <1>1 DEF IndInv, TypeInv
<1>4. f \notin {q \in Request : At(q, {"indexSlot"})}
  BY RequestAssumption
<1>5. /\ Gone(line.fetch, f) \in Seq(File \cup Request) /\ Lined(Gone(line.fetch, f))
      /\ ToSet(Gone(line.fetch, f)) = ToSet(line.fetch) \ {f}
  BY GoneLeaves DEF IndInv, LineInv
<1>6. line'.handler = line.handler /\ line'.fetch = Gone(line.fetch, f)
      /\ line' = [handler |-> line'.handler, fetch |-> line'.fetch]
  BY <1>1 DEF IndInv, LineInv
<1>7. LineInv'
  BY <1>1, <1>3, <1>4, <1>5, <1>6 DEF IndInv, LineInv, At
<1> QED
  BY <1>2, <1>7 DEF IndInv, CacheInv

(* Cancellation and the steps of Close.                                    *)
LEMMA ClosingKept ==
  ASSUME IndInv, Cancel \/ Close \/ Closing
  PROVE  IndInv'
<1>1. UNCHANGED <<req, line, fetch, files>>
  BY DEF Cancel, Close, Closing, Drained, Waited, Clean, cache
<1>2. LineInv' /\ AskInv'
  BY <1>1 DEF IndInv, LineInv, AskInv, At
<1>3. disk' \subseteq disk /\ (lease' => disk' = disk)
  BY DEF Cancel, Close, Closing, Drained, Waited, Clean, cache, ends
<1>4. cancelled' = cancelled \/ cancelled' = TRUE
  BY DEF Cancel, Close, Closing, Drained, Waited, Clean
<1>5. lease' = lease \/ lease' = FALSE
  BY DEF Cancel, Close, Closing, Drained, Waited, Clean, ends
<1>6. close' \in Closings
  BY DEF Cancel, Close, Closing, Drained, Waited, Clean, ends, Closings, IndInv, TypeInv
<1>7. TypeInv'
  <2>1. cancelled' \in BOOLEAN /\ lease' \in BOOLEAN
    BY <1>4, <1>5 DEF IndInv, TypeInv
  <2> QED
    BY <1>1, <1>3, <1>6, <2>1 DEF IndInv, TypeInv
<1>8. MapInv'
  BY <1>1, <1>3 DEF IndInv, MapInv
<1>9. DiskInv'
  BY <1>1, <1>3, <1>5 DEF IndInv, DiskInv, At
<1>10. BoundInv'
  <2>1. \A f \in files : Busy(f)' <=> Busy(f)
    BY <1>1 DEF Busy
  <2>2. cancelled => cancelled'
    BY <1>4
  <2> QED
    BY <1>1, <2>1, <2>2 DEF IndInv, BoundInv
<1>11. CloseInv'
  <2>1. CASE Cancel
    BY <1>1, <2>1 DEF IndInv, CloseInv, Cancel, ends, At, Quiet
  <2>2. CASE Close
    BY <1>1, <2>2 DEF IndInv, CloseInv, Close, At, Quiet
  <2>3. CASE Drained
    BY <1>1, <2>3 DEF IndInv, CloseInv, Drained, At, Quiet
  <2>4. CASE Waited
    BY <1>1, <2>4 DEF IndInv, CloseInv, Waited, At, Quiet
  <2>5. CASE Clean
    BY <1>1, <2>5 DEF IndInv, CloseInv, Clean, At, Quiet
  <2> QED
    BY <2>1, <2>2, <2>3, <2>4, <2>5 DEF Closing
<1> QED
  BY <1>2, <1>7, <1>8, <1>9, <1>10, <1>11 DEF IndInv

-----------------------------------------------------------------------------
(* Theorems.                                                               *)

(* A new server has no requests and an empty cache.                        *)
LEMMA InitHolds == Init => IndInv
<1> SUFFICES ASSUME Init PROVE IndInv
  OBVIOUS
<1> USE DEF Init
<1>1. TypeInv
  BY HandlingFields DEF TypeInv, Phases, Closings
<1>2. \A r \in Request : req[r] = Off /\ req[r].pc = "off"
  BY HandlingFields
<1>3. ToSet(<<>>) = {}
  BY DEF ToSet
<1>4. LineInv
  BY <1>2, <1>3, EmptySeq DEF LineInv, At, Lined
<1>5. AskInv /\ MapInv /\ DiskInv /\ CloseInv
  BY <1>2 DEF AskInv, MapInv, DiskInv, CloseInv, At, Quiet
<1>6. BoundInv
  BY FS_EmptySet, LimitsAssumption DEF BoundInv
<1> QED
  BY <1>1, <1>4, <1>5, <1>6 DEF IndInv

(* IndInv is inductive.                                                    *)
LEMMA NextKept ==
  ASSUME IndInv, [Next]_vars
  PROVE  IndInv'
<1>1. CASE UNCHANGED vars
  BY <1>1 DEF vars, cache, ends, IndInv, TypeInv, AskInv, LineInv, MapInv, DiskInv, CloseInv,
              BoundInv, Busy, At, Quiet
<1>2. CASE Next
  <2>1. ASSUME NEW r \in Request, Handler(r) \/ Admit(r) \/ Hangup(r) PROVE IndInv'
    <3>1. CASE Ends(r) \/ (At(r, {"await"}) /\ Release(r))
      BY <3>1, ReleaseKept DEF Ends, At
    <3> QED
      BY <2>1, <3>1, AdmitKept, RefuseKept, IndexLeavesKept, PlainKept, JoinKept DEF Handler, Hangup
  <2>2. ASSUME NEW f \in File, Fetching(f) PROVE IndInv'
    BY <2>2, DeliverKept, GivesUpKept, FinishKept DEF Fetching
  <2> QED
    BY <1>2, <2>1, <2>2, ArriveKept, TakeKept, ClosingKept DEF Next
<1> QED
  BY <1>1, <1>2

(* The invariant of the map, the disk, the lines and Close that the        *)
(* results below rest on.                                                  *)
THEOREM RelayInvariant == Spec => []IndInv
<1>1. Init => IndInv
  BY InitHolds
<1>2. IndInv /\ [Next]_vars => IndInv'
  BY NextKept
<1> QED
  BY <1>1, <1>2, PTL DEF Spec

(* What awaitFile promises a request is on the disk until the request has  *)
(* read it, whatever other requests, fetches and trimCache do meanwhile.   *)
THEOREM PromiseIsKept == Spec => []PromisedIsThere
<1>1. IndInv => PromisedIsThere
  BY DEF IndInv, AskInv, DiskInv, PromisedIsThere, At
<1> QED
  BY <1>1, RelayInvariant, PTL

(* trimCache brings the cache back to its limit by the time the last       *)
(* reader and the last fetch have gone.                                    *)
THEOREM CacheStaysBounded == Spec => []CacheIsBounded
<1>1. IndInv => CacheIsBounded
  <2> SUFFICES ASSUME IndInv, \A r \in Request : ~At(r, {"await", "serve"}), Quiet, ~cancelled
               PROVE  Cardinality(files) <= MaxCachedFiles /\ disk \subseteq files
    BY DEF CacheIsBounded
  <2>1. \A f \in files : ~Busy(f)
    BY DEF IndInv, TypeInv, Busy, Refs, At, Quiet
  <2> QED
    BY <2>1 DEF IndInv, BoundInv, MapInv
<1> QED
  BY <1>1, RelayInvariant, PTL

(* Close unpins the staging directory only when no fetch can write to it.  *)
THEOREM LeaseIsKept == Spec => []LeaseOutlivesFetches
<1>1. IndInv => LeaseOutlivesFetches
  BY DEF IndInv, CloseInv, LeaseOutlivesFetches
<1> QED
  BY <1>1, RelayInvariant, PTL
-----------------------------------------------------------------------------
(* The fetch of one file in pieces (module Chunks). *)

(* What a worker keeps, whatever the order of the upstreams is.            *)
WorkerPlaces == {"off", "pop", "fetch", "return", "count", "giveBack", "listen", "await"}
Job ==
  [pc : WorkerPlaces, piece : Piece \cup {None}, got : Nat, lead : 0..2,
   did : BOOLEAN, ok : BOOLEAN, cut : BOOLEAN, woken : BOOLEAN]

(* A worker that returns without an error has the whole piece.             *)
HeldInv ==
  \A s \in Upstream :
    /\ Holds(s) => work[s].piece \in Piece
    /\ In(s, {"return"}) /\ work[s].ok => work[s].got = Length(work[s].piece)

ChunksTypes ==
  /\ phase \in {"idle", "round", "workers", "publish", "single"}
  /\ pending \in Seq(Piece)
  /\ work \in [Upstream -> Job]
  /\ staged \in [Unit -> {"none", "good", "bad"}]
  /\ target \in [Unit -> {"none", "good", "bad"}] \cup {None}

(* Workers run only while the file is fetched in pieces.                   *)
PhaseInv ==
  /\ phase # "workers" => \A s \in Upstream : In(s, {"off"})
  /\ phase = "publish" => Verified(staged) /\ \A u \in Unit : staged[u] # "none"

(* A unit is on the stack at most once and in the hands of at most one     *)
(* worker, not both; one that is in neither has been written.              *)
Claims(s, u) == Holds(s) /\ u \in UnitsOf(work[s].piece)
Stacked(i, u) == u \in UnitsOf(pending[i])

Disjoint ==
  /\ \A i, j \in DOMAIN pending, u \in Unit : Stacked(i, u) /\ Stacked(j, u) => i = j
  /\ \A s, t \in Upstream, u \in Unit : Claims(s, u) /\ Claims(t, u) => s = t
  /\ \A i \in DOMAIN pending, s \in Upstream, u \in Unit : ~(Stacked(i, u) /\ Claims(s, u))

Covered ==
  phase \in {"round", "workers"} =>
    \A u \in Unit : staged[u] = "none" =>
      (\E i \in DOMAIN pending : Stacked(i, u)) \/ (\E s \in Upstream : Claims(s, u))

Written ==
  \A s \in Upstream : Holds(s) =>
    \A u \in Unit : work[s].piece.first <= u /\ u < work[s].piece.first + work[s].got =>
      staged[u] # "none"

(* All but the cardinalities.                                              *)
ChunksInv ==
  /\ ChunksTypes /\ HeldInv /\ PhaseInv
  /\ Disjoint /\ Covered /\ Written
  /\ DeliveredIsWhole

-----------------------------------------------------------------------------
(* The pieces of a file.                                                   *)

Number == (Units + PieceLen - 1) \div PieceLen
Upto(i) == IF i * PieceLen > Units THEN Units ELSE i * PieceLen
PieceAt(i) == [first |-> (i - 1) * PieceLen + 1, last |-> Upto(i)]

(* Products are monotonic.                                                 *)
LEMMA Products ==
  ASSUME NEW i \in Nat, NEW j \in Nat, NEW n \in Nat
  PROVE  /\ i * n \in Nat /\ j * n \in Nat
         /\ i <= j => i * n <= j * n
         /\ i < j => i * n + n <= j * n
OBVIOUS

(* The quotient of a length by the length of a piece.                      *)
LEMMA Quotient ==
  ASSUME NEW a \in Nat, NEW n \in Nat \ {0}
  PROVE  /\ a \div n \in Nat
         /\ (a \div n) * n <= a /\ a < (a \div n) * n + n
OBVIOUS

(* The first byte of a piece follows the last one of the piece before it.  *)
LEMMA Successor ==
  ASSUME NEW i \in Nat \ {0}, NEW n \in Nat
  PROVE  i * n = (i - 1) * n + n
OBVIOUS

(* The last piece is the first one that reaches the end of the file.       *)
LEMMA NumberOfPieces ==
  /\ Units \in Nat \ {0} /\ PieceLen \in Nat \ {0} /\ Number \in Nat
  /\ Number * PieceLen >= Units
  /\ \A i \in 1 .. Number : (i - 1) * PieceLen < Units
<1>1. Units \in Nat \ {0} /\ PieceLen \in Nat \ {0}
  BY SizesAssumption
<1>2. Units + PieceLen - 1 \in Nat
  BY <1>1
<1>3. /\ Number \in Nat /\ Number * PieceLen <= Units + PieceLen - 1
      /\ Units + PieceLen - 1 < Number * PieceLen + PieceLen
  BY <1>1, <1>2, Quotient DEF Number
<1>4. Number * PieceLen \in Nat
  BY <1>1, <1>3, Products
<1>5. ASSUME NEW i \in 1 .. Number
      PROVE  (i - 1) * PieceLen < Units
  <2>1. i - 1 \in Nat /\ i - 1 < Number
    BY <1>3
  <2>2. (i - 1) * PieceLen + PieceLen <= Number * PieceLen /\ (i - 1) * PieceLen \in Nat
    BY <2>1, <1>1, <1>3, Products
  <2> HIDE DEF Number
  <2> QED BY <1>1, <1>3, <1>4, <2>2
<1> HIDE DEF Number
<1> QED BY <1>1, <1>3, <1>4, <1>5

(* Each piece lies in the file.                                            *)
LEMMA PieceInFile ==
  ASSUME NEW i \in 1 .. Number
  PROVE  /\ PieceAt(i) \in Piece
         /\ PieceAt(i).first = (i - 1) * PieceLen + 1
         /\ PieceAt(i).last <= i * PieceLen
         /\ i * PieceLen = (i - 1) * PieceLen + PieceLen
         /\ \A u \in Unit : u <= i * PieceLen => u <= PieceAt(i).last
<1>1. Units \in Nat \ {0} /\ PieceLen \in Nat \ {0} /\ Number \in Nat /\ i \in Nat \ {0}
  BY NumberOfPieces
<1>2. (i - 1) * PieceLen \in Nat /\ (i - 1) * PieceLen < Units
  <2>1. i - 1 \in Nat
    BY <1>1
  <2> QED BY <1>1, <2>1, Products, NumberOfPieces
<1>3. i * PieceLen = (i - 1) * PieceLen + PieceLen
  BY <1>1, Successor
<1> DEFINE a == (i - 1) * PieceLen
           b == i * PieceLen
<1>4. a \in Nat /\ a < Units /\ b = a + PieceLen
  BY <1>2, <1>3
<1>5. PieceAt(i) = [first |-> a + 1, last |-> IF b > Units THEN Units ELSE b]
  BY DEF PieceAt, Upto
<1> HIDE DEF a, b
<1>6. a + 1 \in Unit /\ (IF b > Units THEN Units ELSE b) \in Unit
      /\ (IF b > Units THEN Units ELSE b) <= b
      /\ \A u \in Unit : u <= b => u <= IF b > Units THEN Units ELSE b
  BY <1>1, <1>4 DEF Unit
<1>7. PieceAt(i) \in Piece /\ PieceAt(i).first = a + 1
      /\ PieceAt(i).last = IF b > Units THEN Units ELSE b
  BY <1>5, <1>6 DEF Piece
<1> QED BY <1>4, <1>6, <1>7 DEF a, b

(* engine.download: the pieces are a partition of the file.                *)
LEMMA PiecesPartition ==
  /\ Pieces \in Seq(Piece)
  /\ \A i, j \in DOMAIN Pieces, u \in Unit :
       u \in UnitsOf(Pieces[i]) /\ u \in UnitsOf(Pieces[j]) => i = j
  /\ \A u \in Unit : \E i \in DOMAIN Pieces : u \in UnitsOf(Pieces[i])
<1> DEFINE s == [i \in 1 .. Number |-> PieceAt(i)]
<1>1. s \in Seq(Piece) /\ Len(s) = Number
  BY PieceInFile, NumberOfPieces, IsASeq
<1>2. Pieces = Reverse(s)
  BY DEF Pieces, Number, PieceAt, Upto
<1>3. Pieces = [k \in 1 .. Number |-> PieceAt(Number - k + 1)]
  BY <1>1, <1>2, NumberOfPieces DEF Reverse
<1>4. \A k \in 1 .. Number : Number - k + 1 \in 1 .. Number
  BY NumberOfPieces
<1>5. Pieces \in Seq(Piece) /\ DOMAIN Pieces = 1 .. Number
  BY <1>3, <1>4, PieceInFile, NumberOfPieces, IsASeq
<1>6. ASSUME NEW u \in Unit, NEW i \in 1 .. Number, NEW j \in 1 .. Number, i < j,
             u \in UnitsOf(PieceAt(i)), u \in UnitsOf(PieceAt(j))
      PROVE  FALSE
  <2>1. u <= i * PieceLen /\ i * PieceLen \in Nat /\ u \in Nat
    BY <1>6, PieceInFile, NumberOfPieces, Products DEF UnitsOf, Piece, Unit
  <2>2. i <= j - 1 /\ i \in Nat /\ j - 1 \in Nat
    BY <1>6, NumberOfPieces
  <2>3. i * PieceLen <= (j - 1) * PieceLen /\ (j - 1) * PieceLen \in Nat
    BY <2>2, NumberOfPieces, Products
  <2>4. (j - 1) * PieceLen + 1 <= u
    BY <1>6, PieceInFile DEF UnitsOf, Piece, Unit
  <2> QED BY <2>1, <2>3, <2>4
<1>7. ASSUME NEW i \in DOMAIN Pieces, NEW j \in DOMAIN Pieces, NEW u \in Unit,
             u \in UnitsOf(Pieces[i]), u \in UnitsOf(Pieces[j])
      PROVE  i = j
  <2>1. i \in 1 .. Number /\ j \in 1 .. Number
        /\ u \in UnitsOf(PieceAt(Number - i + 1)) /\ u \in UnitsOf(PieceAt(Number - j + 1))
    BY <1>3, <1>5, <1>7
  <2>2. ~(Number - i + 1 < Number - j + 1) /\ ~(Number - j + 1 < Number - i + 1)
    BY <2>1, <1>4, <1>6
  <2> QED BY <2>1, <2>2, NumberOfPieces
<1>8. ASSUME NEW u \in Unit
      PROVE  \E i \in DOMAIN Pieces : u \in UnitsOf(Pieces[i])
  <2> DEFINE q == (u - 1) \div PieceLen
  <2>1. u - 1 \in Nat /\ u \in Nat /\ u <= Units
    BY NumberOfPieces DEF Unit
  <2>2. q \in Nat /\ q * PieceLen <= u - 1 /\ u - 1 < q * PieceLen + PieceLen
    BY <2>1, NumberOfPieces, Quotient
  <2> HIDE DEF q
  <2>3. q * PieceLen \in Nat /\ Number * PieceLen \in Nat
        /\ (Number <= q => Number * PieceLen <= q * PieceLen)
    BY <2>2, NumberOfPieces, Products
  <2>4. q < Number
    BY <2>1, <2>2, <2>3, NumberOfPieces
  <2>5. q + 1 \in 1 .. Number /\ (q + 1) - 1 = q
    BY <2>2, <2>4, NumberOfPieces
  <2>6. PieceAt(q + 1) \in Piece /\ PieceAt(q + 1).first = q * PieceLen + 1
        /\ (u <= (q + 1) * PieceLen => u <= PieceAt(q + 1).last)
        /\ (q + 1) * PieceLen = q * PieceLen + PieceLen
    BY <2>5, PieceInFile
  <2>7. u \in UnitsOf(PieceAt(q + 1))
    BY <2>1, <2>2, <2>3, <2>6, NumberOfPieces DEF UnitsOf, Piece, Unit
  <2>8. Number - q \in 1 .. Number /\ Number - (Number - q) + 1 = q + 1
    BY <2>2, <2>4, NumberOfPieces
  <2>9. Pieces[Number - q] = PieceAt(q + 1)
    BY <1>3, <2>8
  <2> QED BY <1>5, <2>7, <2>8, <2>9
<1> QED BY <1>5, <1>7, <1>8

-----------------------------------------------------------------------------
(* What a worker can do with the pieces.                                   *)

Keeps(t) ==
  /\ work'[t].pc = work[t].pc /\ work'[t].piece = work[t].piece
  /\ work'[t].got = work[t].got /\ work'[t].ok = work[t].ok

HoldsNext(s) == work'[s].pc \in {"fetch", "return", "giveBack"}
ReturnsNext(s) == work'[s].pc = "return"

(* It has no piece before and after.                                       *)
WaitsForPiece(s) == ~Holds(s) /\ ~HoldsNext(s) /\ UNCHANGED <<pending, staged>>

(* It takes the piece on top of the stack.                                 *)
Takes(s) ==
  /\ ~Holds(s) /\ HoldsNext(s) /\ ~ReturnsNext(s) /\ UNCHANGED staged
  /\ Len(pending) > 0 /\ Len(pending') = Len(pending) - 1 /\ pending' \in Seq(Piece)
  /\ \A i \in 1 .. Len(pending) - 1 : pending'[i] = pending[i]
  /\ work'[s].piece = pending[Len(pending)] /\ work'[s].got = 0

(* It writes the next unit of its piece.                                   *)
Writes(s) ==
  /\ Holds(s) /\ HoldsNext(s) /\ ~ReturnsNext(s) /\ UNCHANGED pending
  /\ work'[s].piece = work[s].piece /\ work'[s].got = work[s].got + 1
  /\ work[s].got < Length(work[s].piece)
  /\ \E c \in {"good", "bad"} :
       staged' = [staged EXCEPT ![work[s].piece.first + work[s].got] = c]

(* It has returned, or is to give the piece back.                          *)
Turns(s) ==
  /\ Holds(s) /\ HoldsNext(s) /\ UNCHANGED <<pending, staged>>
  /\ work'[s].piece = work[s].piece /\ work'[s].got = work[s].got
  /\ ReturnsNext(s) /\ work'[s].ok => work[s].got = Length(work[s].piece)

(* It is done with its piece.                                              *)
Drops(s) ==
  /\ Holds(s) /\ ~HoldsNext(s) /\ UNCHANGED <<pending, staged>>
  /\ work[s].got >= Length(work[s].piece)

(* It puts its piece back, without the first units of it or with them.     *)
Gives(s) ==
  /\ Holds(s) /\ ~HoldsNext(s) /\ UNCHANGED staged
  /\ \E first \in Unit :
       LET p == [first |-> first, last |-> work[s].piece.last]
       IN /\ p \in Piece /\ pending' = Append(pending, p)
          /\ work[s].piece.first <= first /\ first <= work[s].piece.first + work[s].got

Steps(s) ==
  /\ ~In(s, {"off"}) /\ work' \in [Upstream -> Job]
  /\ \A t \in Upstream \ {s} : Keeps(t)
  /\ UNCHANGED <<phase, registered, target>>
  /\ WaitsForPiece(s) \/ Takes(s) \/ Writes(s) \/ Turns(s) \/ Drops(s) \/ Gives(s)

(* A worker that does not run has nothing.                                 *)
LEMMA IdleJob == Idle \in Job /\ Idle.pc = "off"
BY DEF Idle, Job, WorkerPlaces

(* A worker that leaves, finds nothing, listens or wakes up keeps its      *)
(* hands as they are.                                                      *)
LEMMA WaitingSteps ==
  ASSUME ChunksTypes, NEW s \in Upstream,
         Leave(s) \/ NothingLeft(s) \/ Listen(s) \/ Wakes(s)
  PROVE  Steps(s)
<1>1. work[s] \in Job
  BY DEF ChunksTypes
<1>2. PICK r \in Job : work' = [work EXCEPT ![s] = r] /\ r.pc \in {"off", "pop", "await"}
  <2>1. CASE Becomes(s, "off") \/ Becomes(s, "pop")
    <3>1. /\ [work[s] EXCEPT !.pc = "off"] \in Job /\ [work[s] EXCEPT !.pc = "off"].pc = "off"
          /\ [work[s] EXCEPT !.pc = "pop"] \in Job /\ [work[s] EXCEPT !.pc = "pop"].pc = "pop"
      BY <1>1 DEF Job, WorkerPlaces
    <3> QED BY <2>1, <3>1 DEF Becomes, Set
  <2>2. CASE Set(s, [work[s] EXCEPT !.pc = "await", !.woken = FALSE])
    <3>1. /\ [work[s] EXCEPT !.pc = "await", !.woken = FALSE] \in Job
          /\ [work[s] EXCEPT !.pc = "await", !.woken = FALSE].pc = "await"
      BY <1>1 DEF Job, WorkerPlaces
    <3> QED BY <2>2, <3>1 DEF Set
  <2> QED BY <2>1, <2>2 DEF Leave, NothingLeft, Listen, Wakes, Awake
<1>3. UNCHANGED <<phase, registered, target, pending, staged>> /\ In(s, {"pop", "listen", "await"})
  BY DEF Leave, NothingLeft, Listen, Wakes, Awake, ByWorkers, file, In
<1> QED BY <1>2, <1>3 DEF ChunksTypes, Steps, Keeps, WaitsForPiece, HoldsNext, Holds, In

(* A worker without work cuts a slower one off, which keeps its piece.     *)
LEMMA TakeOverSteps ==
  ASSUME ChunksTypes, NEW s \in Upstream, TakeOver(s)
  PROVE  Steps(s)
<1>1. PICK k \in Upstream \ {s} : work' = [work EXCEPT ![s].pc = "listen", ![k].cut = TRUE]
  BY DEF TakeOver, Laggards
<1>2. work[s] \in Job /\ work[k] \in Job
  BY DEF ChunksTypes
<1>3. [work[s] EXCEPT !.pc = "listen"] \in Job /\ [work[k] EXCEPT !.cut = TRUE] \in Job
  BY <1>2 DEF Job, WorkerPlaces
<1>4. work' = [work EXCEPT ![s] = [work[s] EXCEPT !.pc = "listen"],
                           ![k] = [work[k] EXCEPT !.cut = TRUE]]
  BY <1>1 DEF ChunksTypes
<1>5. work' \in [Upstream -> Job] /\ \A t \in Upstream \ {s} : Keeps(t)
  BY <1>2, <1>3, <1>4 DEF ChunksTypes, Keeps, Job
<1>6. work'[s].pc = "listen"
  BY <1>2, <1>4 DEF ChunksTypes, Job
<1>7. UNCHANGED <<phase, registered, target, pending, staged>> /\ In(s, {"pop"})
  BY DEF TakeOver, ByWorkers, file
<1> QED BY <1>5, <1>6, <1>7 DEF Steps, WaitsForPiece, HoldsNext, Holds, In

(* A worker takes the piece on the top of the stack.                       *)
LEMMA PopSteps ==
  ASSUME ChunksTypes, NEW s \in Upstream, Pop(s)
  PROVE  Steps(s)
<1>1. work[s] \in Job /\ pending \in Seq(Piece) /\ Len(pending) > 0
  BY DEF ChunksTypes, Pop
<1> DEFINE p == pending[Len(pending)]
           r == [work[s] EXCEPT !.pc = "fetch", !.piece = p, !.got = 0,
                                !.lead = 0, !.cut = FALSE]
<1>2. p \in Piece
  BY <1>1
<1>4. work' = [work EXCEPT ![s] = r]
  BY DEF Pop, Set, Last
<1> HIDE DEF p
<1>3. r \in Job /\ r.pc = "fetch" /\ r.piece = p /\ r.got = 0
  <2> DEFINE q == [work[s] EXCEPT !.pc = "fetch", !.piece = p]
  <2>1. q \in Job /\ q.pc = "fetch" /\ q.piece = p
    BY <1>1, <1>2 DEF Job, WorkerPlaces
  <2> DEFINE q0 == [q EXCEPT !.got = 0]
  <2>2. r = [q0 EXCEPT !.lead = 0, !.cut = FALSE]
    BY <1>1 DEF Job
  <2> HIDE DEF q
  <2>3. q0 \in Job /\ q0.pc = q.pc /\ q0.piece = q.piece /\ q0.got = 0
    BY <2>1 DEF Job
  <2> HIDE DEF q0, r
  <2>4. [q0 EXCEPT !.lead = 0] \in Job
    BY <2>3 DEF Job
  <2>5. r = [[q0 EXCEPT !.lead = 0] EXCEPT !.cut = FALSE]
    BY <2>2, <2>3 DEF Job
  <2>6. r.pc = q0.pc /\ r.piece = q0.piece /\ r.got = q0.got
    BY <2>2, <2>3 DEF Job
  <2>7. r \in Job
    BY <2>4, <2>5 DEF Job
  <2> QED BY <2>1, <2>3, <2>6, <2>7
<1> HIDE DEF r
<1>5. /\ Len(pending') = Len(pending) - 1 /\ pending' \in Seq(Piece)
      /\ \A i \in 1 .. Len(pending) - 1 : pending'[i] = pending[i]
  <2>1. pending' = SubSeq(pending, 1, Len(pending) - 1)
    BY DEF Pop, Front
  <2>2. \A i \in 1 .. Len(pending) - 1 : pending[i] \in Piece
    BY <1>1
  <2> DEFINE n == Len(pending) - 1
  <2>3. n \in Nat /\ 1 \in Int /\ n \in Int
    BY <1>1
  <2> HIDE DEF n
  <2>4. /\ SubSeq(pending, 1, n) \in Seq(Piece)
        /\ Len(SubSeq(pending, 1, n)) = IF 1 <= n THEN n - 1 + 1 ELSE 0
        /\ \A i \in 1 .. n - 1 + 1 : SubSeq(pending, 1, n)[i] = pending[1 + i - 1]
    BY <2>2, <2>3, SubSeqProperties DEF n
  <2>5. Len(SubSeq(pending, 1, n)) = n /\ \A i \in 1 .. n : SubSeq(pending, 1, n)[i] = pending[i]
    BY <2>3, <2>4
  <2> QED BY <2>1, <2>4, <2>5 DEF n
<1>6. UNCHANGED <<phase, registered, target, staged>> /\ In(s, {"pop"})
  BY DEF Pop, ByWorkers, file
<1>7. work' \in [Upstream -> Job] /\ work'[s] = r /\ \A t \in Upstream \ {s} : Keeps(t)
  BY <1>3, <1>4 DEF ChunksTypes, Keeps
<1> QED BY <1>1, <1>3, <1>5, <1>6, <1>7 DEF p, Steps, Takes, HoldsNext, ReturnsNext, Holds, In

(* A worker writes the next unit of its piece.                             *)
LEMMA ReceiveSteps ==
  ASSUME ChunksTypes, NEW s \in Upstream, Receive(s)
  PROVE  Steps(s)
<1>1. work[s] \in Job
  BY DEF ChunksTypes
<1> DEFINE r == [work[s] EXCEPT !.got = @ + 1]
<1>2. r \in Job /\ r.pc = work[s].pc /\ r.piece = work[s].piece /\ r.got = work[s].got + 1
  BY <1>1 DEF Job
<1>3. work' = [work EXCEPT ![s] = r]
  BY DEF Receive, Set
<1> HIDE DEF r
<1>4. work' \in [Upstream -> Job] /\ work'[s] = r /\ \A t \in Upstream \ {s} : Keeps(t)
  BY <1>2, <1>3 DEF ChunksTypes, Keeps
<1>5. Content(s) \in {"good", "bad"}
  BY DEF Content
<1>6. UNCHANGED <<phase, registered, target, pending>> /\ work[s].pc = "fetch"
      /\ work[s].got < Length(work[s].piece)
      /\ staged' = [staged EXCEPT ![work[s].piece.first + work[s].got] = Content(s)]
  BY DEF Receive, ByWorkers, file, In
<1> QED BY <1>2, <1>4, <1>5, <1>6 DEF Steps, Writes, HoldsNext, ReturnsNext, Holds, In

(* A request returns: nothing moves between the hands and the stack.       *)
LEMMA ReturnSteps ==
  ASSUME ChunksTypes, NEW s \in Upstream, Return(s)
  PROVE  Steps(s)
<1>1. work[s] \in Job
  BY DEF ChunksTypes
<1>2. PICK ok \in BOOLEAN :
        /\ ok => work[s].got = Length(work[s].piece)
        /\ work' = [work EXCEPT ![s] = [work[s] EXCEPT !.pc = "return", !.ok = ok]]
  BY DEF Return, Set
<1> DEFINE r == [work[s] EXCEPT !.pc = "return", !.ok = ok]
<1>3. r \in Job /\ r.pc = "return" /\ r.piece = work[s].piece /\ r.got = work[s].got /\ r.ok = ok
  BY <1>1 DEF Job, WorkerPlaces
<1> HIDE DEF r
<1>4. work' \in [Upstream -> Job] /\ work'[s] = r /\ \A t \in Upstream \ {s} : Keeps(t)
  BY <1>2, <1>3 DEF ChunksTypes, Keeps, r
<1>5. UNCHANGED <<phase, registered, target, pending, staged>> /\ work[s].pc = "fetch"
  BY DEF Return, ByWorkers, file, In
<1> QED BY <1>2, <1>3, <1>4, <1>5 DEF Steps, Turns, HoldsNext, ReturnsNext, Holds, In

(* notifyLocked changes nothing but the wakings.                           *)
LEMMA NotifiedKeeps ==
  ASSUME NEW w \in [Upstream -> Job]
  PROVE  /\ Notified(w) \in [Upstream -> Job]
         /\ \A t \in Upstream :
              /\ Notified(w)[t].pc = w[t].pc /\ Notified(w)[t].piece = w[t].piece
              /\ Notified(w)[t].got = w[t].got /\ Notified(w)[t].ok = w[t].ok
BY DEF Notified, Job

(* A worker leaves the flight and wakes who waits; it keeps its piece.     *)
LEMMA EndedSteps ==
  ASSUME ChunksTypes, HeldInv, NEW s \in Upstream, Ended(s)
  PROVE  Steps(s)
<1>1. work[s] \in Job
  BY DEF ChunksTypes
<1> DEFINE r == [work[s] EXCEPT !.pc = IF work[s].ok THEN "count" ELSE "giveBack"]
           w == [work EXCEPT ![s] = r]
<1>2. /\ r \in Job /\ r.piece = work[s].piece /\ r.got = work[s].got
      /\ r.pc = IF work[s].ok THEN "count" ELSE "giveBack"
  BY <1>1 DEF Job, WorkerPlaces
<1>3. w = [work EXCEPT ![s].pc = IF work[s].ok THEN "count" ELSE "giveBack"]
  BY DEF ChunksTypes
<1>4. work' = Notified(w)
  BY <1>3 DEF Ended
<1> HIDE DEF r
<1>5. w \in [Upstream -> Job] /\ w[s] = r /\ \A t \in Upstream \ {s} : w[t] = work[t]
  BY <1>2 DEF ChunksTypes
<1> HIDE DEF w
<1>6. /\ work' \in [Upstream -> Job] /\ \A t \in Upstream \ {s} : Keeps(t)
      /\ work'[s].pc = r.pc /\ work'[s].piece = r.piece /\ work'[s].got = r.got
  BY <1>4, <1>5, NotifiedKeeps DEF Keeps
<1>7. UNCHANGED <<phase, registered, target, pending, staged>> /\ work[s].pc = "return"
  BY DEF Ended, ByWorkers, file, In
<1>8. CASE work[s].ok
  <2>1. work[s].got = Length(work[s].piece) /\ work[s].piece \in Piece
    BY <1>7, <1>8 DEF HeldInv, Holds, In
  <2>2. work[s].got >= Length(work[s].piece)
    BY <2>1 DEF Piece, Unit, Length
  <2> QED BY <1>2, <1>6, <1>7, <1>8, <2>2 DEF Steps, Drops, HoldsNext, Holds, In
<1>9. CASE ~work[s].ok
  BY <1>2, <1>6, <1>7, <1>9 DEF Steps, Turns, HoldsNext, ReturnsNext, Holds, In
<1> QED BY <1>8, <1>9

(* A finished piece is let go; laggards are cut off and keep theirs.       *)
LEMMA CountSteps ==
  ASSUME ChunksTypes, NEW s \in Upstream, Count(s)
  PROVE  Steps(s)
<1> DEFINE led == [k \in Upstream |->
                     IF Flying(k) /\ work[k].lead < 2 THEN [work[k] EXCEPT !.lead = @ + 1] ELSE work[k]]
<1>1. PICK old \in SUBSET Upstream :
        work' = [k \in Upstream |->
                   IF k = s THEN [led[k] EXCEPT !.pc = "pop", !.piece = None, !.did = TRUE]
                   ELSE IF k \in old THEN [led[k] EXCEPT !.cut = TRUE] ELSE led[k]]
  BY DEF Count
<1>2. ASSUME NEW k \in Upstream
      PROVE  /\ led[k] \in Job /\ led[k].pc = work[k].pc /\ led[k].piece = work[k].piece
             /\ led[k].got = work[k].got /\ led[k].ok = work[k].ok
  <2>1. work[k] \in Job
    BY DEF ChunksTypes
  <2>2. CASE Flying(k) /\ work[k].lead < 2
    <3>1. led[k] = [work[k] EXCEPT !.lead = @ + 1] /\ work[k].lead + 1 \in 0..2
      BY <2>1, <2>2 DEF Job
    <3> HIDE DEF led
    <3> QED BY <2>1, <3>1 DEF Job
  <2>3. CASE ~(Flying(k) /\ work[k].lead < 2)
    BY <2>1, <2>3
  <2> QED BY <2>2, <2>3
<1> HIDE DEF led
<1>3. ASSUME NEW k \in Upstream
      PROVE  /\ [led[k] EXCEPT !.pc = "pop", !.piece = None, !.did = TRUE] \in Job
             /\ [led[k] EXCEPT !.pc = "pop", !.piece = None, !.did = TRUE].pc = "pop"
             /\ [led[k] EXCEPT !.cut = TRUE] \in Job
             /\ [led[k] EXCEPT !.cut = TRUE].pc = work[k].pc
             /\ [led[k] EXCEPT !.cut = TRUE].piece = work[k].piece
             /\ [led[k] EXCEPT !.cut = TRUE].got = work[k].got
             /\ [led[k] EXCEPT !.cut = TRUE].ok = work[k].ok
  BY <1>2 DEF Job, WorkerPlaces
<1>4. work' \in [Upstream -> Job] /\ work'[s].pc = "pop"
  BY <1>1, <1>2, <1>3
<1>5. \A t \in Upstream \ {s} : Keeps(t)
  BY <1>1, <1>2, <1>3 DEF Keeps
<1>6. UNCHANGED <<phase, registered, target, pending, staged>> /\ work[s].pc = "count"
  BY DEF Count, ByWorkers, file, In
<1> QED BY <1>4, <1>5, <1>6 DEF Steps, WaitsForPiece, HoldsNext, Holds, In

(* push: the worker is idle, its piece or the rest of it is on the stack.  *)
LEMMA PushSteps ==
  ASSUME ChunksTypes, NEW s \in Upstream,
         work' = [work EXCEPT ![s] = Idle] \/ work' = Notified([work EXCEPT ![s] = Idle])
  PROVE  work' \in [Upstream -> Job] /\ ~HoldsNext(s) /\ \A t \in Upstream \ {s} : Keeps(t)
<1> DEFINE w == [work EXCEPT ![s] = Idle]
<1>1. w \in [Upstream -> Job] /\ w[s].pc = "off" /\ \A t \in Upstream \ {s} : w[t] = work[t]
  BY IdleJob DEF ChunksTypes
<1>2. work' = w \/ work' = Notified(w)
  OBVIOUS
<1> HIDE DEF w
<1> QED BY <1>1, <1>2, NotifiedKeeps DEF Keeps, HoldsNext

(* A worker that is too slow puts back what it has not received.           *)
LEMMA SlowGivesBackSteps ==
  ASSUME ChunksTypes, HeldInv, NEW s \in Upstream, SlowGivesBack(s)
  PROVE  Steps(s)
<1>1. work[s].piece \in Piece /\ work[s].got \in Nat /\ work[s].pc = "giveBack"
  BY DEF SlowGivesBack, HeldInv, Holds, In, ChunksTypes, Job
<1>2. work' \in [Upstream -> Job] /\ ~HoldsNext(s) /\ \A t \in Upstream \ {s} : Keeps(t)
  BY PushSteps DEF SlowGivesBack
<1>3. UNCHANGED <<phase, registered, target, staged>>
  BY DEF SlowGivesBack, ByWorkers, file
<1> DEFINE p == work[s].piece
           f == p.first + work[s].got
<1>4. p.first \in Unit /\ p.last \in Unit
  BY <1>1 DEF Piece
<1>5. CASE f <= p.last
  <2>1. pending' = Append(pending, [first |-> f, last |-> p.last])
    BY <1>5 DEF SlowGivesBack, Rest
  <2>2. f \in Unit /\ p.first <= f /\ f <= p.first + work[s].got
    BY <1>1, <1>4, <1>5, SizesAssumption DEF Unit
  <2>3. [first |-> f, last |-> p.last] \in Piece
    BY <1>4, <2>2 DEF Piece
  <2>4. Gives(s)
    BY <1>1, <1>2, <1>3, <2>1, <2>2, <2>3 DEF Gives, Holds, In
  <2> QED BY <1>1, <1>2, <1>3, <2>4 DEF Steps, In
<1>6. CASE ~(f <= p.last)
  <2>1. UNCHANGED pending
    BY <1>6 DEF SlowGivesBack, Rest
  <2>2. work[s].got >= Length(p)
    BY <1>1, <1>4, <1>6, SizesAssumption DEF Unit, Length
  <2> QED BY <1>1, <1>2, <1>3, <2>1, <2>2 DEF Steps, Drops, Holds, In
<1> QED BY <1>5, <1>6

(* A worker that failed puts its whole piece back.                         *)
LEMMA FailedGivesBackSteps ==
  ASSUME ChunksTypes, HeldInv, NEW s \in Upstream, FailedGivesBack(s)
  PROVE  Steps(s)
<1>1. work[s].piece \in Piece /\ work[s].got \in Nat /\ work[s].pc = "giveBack"
  BY DEF FailedGivesBack, HeldInv, Holds, In, ChunksTypes, Job
<1>2. work' \in [Upstream -> Job] /\ ~HoldsNext(s) /\ \A t \in Upstream \ {s} : Keeps(t)
  BY PushSteps DEF FailedGivesBack
<1>3. UNCHANGED <<phase, registered, target, staged>>
      /\ pending' = Append(pending, work[s].piece)
  BY DEF FailedGivesBack, ByWorkers, file
<1> DEFINE p == work[s].piece
<1>4. p.first \in Unit /\ p = [first |-> p.first, last |-> p.last]
      /\ p.first <= p.first + work[s].got
  BY <1>1 DEF Piece, Unit
<1> DEFINE f == p.first
<1>5. f \in Unit /\ [first |-> f, last |-> p.last] \in Piece /\ p.first <= f
      /\ pending' = Append(pending, [first |-> f, last |-> p.last]) /\ f <= p.first + work[s].got
  BY <1>1, <1>3, <1>4 DEF Unit
<1> HIDE DEF f
<1>6. Gives(s)
  BY <1>1, <1>2, <1>3, <1>5 DEF Gives, Holds, In
<1> QED BY <1>1, <1>2, <1>3, <1>6 DEF Steps, In

(* Every step of a worker is of one of the kinds above.                    *)
LEMMA WorkerSteps ==
  ASSUME ChunksTypes, HeldInv, NEW s \in Upstream, Worker(s)
  PROVE  Steps(s)
BY WaitingSteps, TakeOverSteps, PopSteps, ReceiveSteps, ReturnSteps, EndedSteps, CountSteps,
   SlowGivesBackSteps, FailedGivesBackSteps DEF Worker

-----------------------------------------------------------------------------
(* The steps of the workers keep the invariant.                            *)

(* What the others hold stays as it is.                                    *)
LEMMA OthersKeep ==
  ASSUME NEW s \in Upstream, Steps(s)
  PROVE  \A t \in Upstream \ {s} :
           /\ Holds(t)' <=> Holds(t)
           /\ In(t, {"return"})' <=> In(t, {"return"})
           /\ work'[t].piece = work[t].piece /\ work'[t].got = work[t].got
           /\ work'[t].ok = work[t].ok
           /\ \A u \in Unit : Claims(t, u)' <=> Claims(t, u)
BY DEF Steps, Keeps, Holds, In, Claims

(* What a worker holds after a step, in terms of its new record.           *)
LEMMA OwnHolds ==
  ASSUME NEW s \in Upstream
  PROVE  /\ Holds(s)' <=> HoldsNext(s)
         /\ In(s, {"return"})' <=> ReturnsNext(s)
         /\ \A u \in Unit : Claims(s, u)' <=> HoldsNext(s) /\ u \in UnitsOf(work'[s].piece)
BY DEF Holds, HoldsNext, ReturnsNext, In, Claims

(* The pieces a worker holds, in numbers.                                  *)
LEMMA PieceFields ==
  ASSUME NEW p \in Piece
  PROVE  /\ p.first \in Nat /\ p.last \in Nat /\ Length(p) = p.last - p.first + 1
         /\ p.first >= 1 /\ p.last <= Units /\ p.last >= 1 /\ p.first <= Units
         /\ \A u \in Unit : u \in UnitsOf(p) <=> p.first <= u /\ u <= p.last
BY SizesAssumption DEF Piece, Unit, UnitsOf, Length

(* The stack after a step.                                                 *)
LEMMA StackKept ==
  ASSUME UNCHANGED pending
  PROVE  /\ DOMAIN pending' = DOMAIN pending
         /\ \A i \in DOMAIN pending, u \in Unit : Stacked(i, u)' <=> Stacked(i, u)
BY DEF Stacked

(* The stack without its top, which is now in the hands of the worker.     *)
LEMMA StackPopped ==
  ASSUME ChunksTypes, NEW s \in Upstream, Takes(s)
  PROVE  /\ DOMAIN pending = 1 .. Len(pending) /\ Len(pending) \in Nat \ {0}
         /\ DOMAIN pending' = 1 .. Len(pending) - 1
         /\ \A i \in 1 .. Len(pending) - 1, u \in Unit : Stacked(i, u)' <=> Stacked(i, u)
         /\ \A u \in Unit : Claims(s, u)' <=> Stacked(Len(pending), u)
         /\ work'[s].piece \in Piece
<1>1. DOMAIN pending = 1 .. Len(pending) /\ Len(pending) \in Nat \ {0}
  BY DEF ChunksTypes, Takes
<1>2. DOMAIN pending' = 1 .. Len(pending) - 1
  BY DEF Takes
<1>3. \A i \in 1 .. Len(pending) - 1, u \in Unit : Stacked(i, u)' <=> Stacked(i, u)
  BY DEF Takes, Stacked
<1>4. \A u \in Unit : Claims(s, u)' <=> Stacked(Len(pending), u)
  BY OwnHolds DEF Takes, Stacked
<1>5. work'[s].piece \in Piece
  BY <1>1 DEF ChunksTypes, Takes
<1> QED BY <1>1, <1>2, <1>3, <1>4, <1>5

OnTop(u) == u \in UnitsOf(pending'[Len(pending) + 1])

(* The stack with what is left of a piece; the rest of it has been         *)
(* written.                                                                *)
LEMMA StackPushed ==
  ASSUME ChunksTypes, HeldInv, NEW s \in Upstream, Gives(s)
  PROVE  /\ DOMAIN pending = 1 .. Len(pending) /\ Len(pending) \in Nat
         /\ DOMAIN pending' = 1 .. Len(pending) + 1 /\ pending' \in Seq(Piece)
         /\ \A i \in 1 .. Len(pending), u \in Unit : Stacked(i, u)' <=> Stacked(i, u)
         /\ \A u \in Unit : OnTop(u) => Claims(s, u)
         /\ \A u \in Unit :
              Claims(s, u) /\ ~OnTop(u) =>
                work[s].piece.first <= u /\ u < work[s].piece.first + work[s].got
<1> DEFINE q == work[s].piece
<1>1. q \in Piece /\ work[s].got \in Nat
  BY DEF HeldInv, Gives, ChunksTypes, Job
<1>2. PICK f \in Unit :
        /\ [first |-> f, last |-> q.last] \in Piece
        /\ pending' = Append(pending, [first |-> f, last |-> q.last])
        /\ q.first <= f /\ f <= q.first + work[s].got
  BY DEF Gives
<1> DEFINE p == [first |-> f, last |-> q.last]
<1>3. p \in Piece /\ p.first = f /\ p.last = q.last /\ pending' = Append(pending, p)
  BY <1>2
<1> HIDE DEF p
<1>4. DOMAIN pending = 1 .. Len(pending) /\ Len(pending) \in Nat /\ pending \in Seq(Piece)
  BY DEF ChunksTypes
<1>5. /\ pending' \in Seq(Piece) /\ DOMAIN pending' = 1 .. Len(pending) + 1
      /\ \A i \in 1 .. Len(pending) : pending'[i] = pending[i]
      /\ pending'[Len(pending) + 1] = p
  BY <1>3, <1>4, AppendProperties
<1>6. \A i \in 1 .. Len(pending), u \in Unit : Stacked(i, u)' <=> Stacked(i, u)
  BY <1>5 DEF Stacked
<1>7. \A u \in Unit : OnTop(u) <=> u \in UnitsOf(p)
  BY <1>5 DEF OnTop
<1>8. \A u \in Unit : Claims(s, u) <=> u \in UnitsOf(q)
  BY DEF Claims, Gives
<1>9. Unit \subseteq Nat
  BY DEF Unit
<1> HIDE DEF q
<1>10. \A u \in Unit : u \in UnitsOf(p) => u \in UnitsOf(q)
  BY <1>1, <1>2, <1>3, <1>9, PieceFields
<1>11. \A u \in Unit : u \in UnitsOf(q) /\ u \notin UnitsOf(p) =>
                         q.first <= u /\ u < q.first + work[s].got
  BY <1>1, <1>2, <1>3, <1>9, PieceFields
<1> QED BY <1>4, <1>5, <1>6, <1>7, <1>8, <1>10, <1>11 DEF q

(* Nothing that is written gets lost.                                      *)
LEMMA StagedGrows ==
  ASSUME ChunksTypes, HeldInv, NEW s \in Upstream, Steps(s)
  PROVE  /\ staged' \in [Unit -> {"none", "good", "bad"}]
         /\ \A u \in Unit : staged[u] # "none" => staged'[u] # "none"
         /\ Writes(s) =>
              \A u \in Unit : u = work[s].piece.first + work[s].got => staged'[u] # "none"
BY DEF ChunksTypes, Steps, WaitsForPiece, Takes, Writes, Turns, Drops, Gives

(* The steps of a worker keep the types.                                   *)
LEMMA TypesOfSteps ==
  ASSUME ChunksTypes, HeldInv, NEW s \in Upstream, Steps(s)
  PROVE  ChunksTypes'
<1>1. pending' \in Seq(Piece)
  BY StackPushed DEF ChunksTypes, Steps, WaitsForPiece, Takes, Writes, Turns, Drops
<1> QED BY <1>1, StagedGrows DEF ChunksTypes, Steps

(* A worker that returns without an error has all of its piece.            *)
LEMMA HeldOfSteps ==
  ASSUME ChunksTypes, HeldInv, NEW s \in Upstream, Steps(s)
  PROVE  HeldInv'
<1>1. ASSUME NEW t \in Upstream \ {s}
      PROVE  /\ Holds(t)' => work'[t].piece \in Piece
             /\ In(t, {"return"})' /\ work'[t].ok => work'[t].got = Length(work'[t].piece)
  BY OthersKeep DEF HeldInv
<1>2. /\ HoldsNext(s) => work'[s].piece \in Piece
      /\ ReturnsNext(s) /\ work'[s].ok => work'[s].got = Length(work'[s].piece)
  <2>1. ReturnsNext(s) => HoldsNext(s)
    BY DEF ReturnsNext, HoldsNext
  <2>2. CASE WaitsForPiece(s) \/ Drops(s) \/ Gives(s)
    BY <2>1, <2>2 DEF WaitsForPiece, Drops, Gives
  <2>3. CASE Takes(s)
    BY <2>3, StackPopped DEF Takes
  <2>4. CASE Writes(s)
    BY <2>4 DEF Writes, HeldInv
  <2>5. CASE Turns(s)
    BY <2>5 DEF Turns, HeldInv
  <2> QED BY <2>2, <2>3, <2>4, <2>5 DEF Steps
<1> QED BY <1>1, <1>2, OwnHolds DEF HeldInv

(* No unit comes into two hands, nor into a hand and the stack.            *)
LEMMA DisjointOfSteps ==
  ASSUME ChunksTypes, HeldInv, Disjoint, NEW s \in Upstream, Steps(s)
  PROVE  Disjoint'
<1> USE OthersKeep
<1>1. CASE UNCHANGED pending /\ \A u \in Unit : Claims(s, u)' => Claims(s, u)
  BY <1>1, StackKept DEF Disjoint
<1>2. CASE Takes(s)
  BY SMTT(30), <1>2, StackPopped DEF Disjoint, Claims, Takes
<1>3. CASE Gives(s)
  <2>1. \A u \in Unit : ~Claims(s, u)'
    BY <1>3, OwnHolds DEF Gives
  <2>2. /\ DOMAIN pending = 1 .. Len(pending) /\ Len(pending) \in Nat
        /\ DOMAIN pending' = 1 .. Len(pending) + 1
    BY <1>3, StackPushed
  <2>3. \A i \in DOMAIN pending' : i \in DOMAIN pending \/ i = Len(pending) + 1
    BY <2>2
  <2>4. \A i \in DOMAIN pending', u \in Unit : Stacked(i, u)' =>
          (i \in DOMAIN pending /\ Stacked(i, u)) \/ (i = Len(pending) + 1 /\ Claims(s, u))
    BY <1>3, <2>2, <2>3, StackPushed DEF Stacked, OnTop
  <2> QED BY <2>1, <2>4 DEF Disjoint
<1>4. CASE WaitsForPiece(s) \/ Writes(s) \/ Turns(s) \/ Drops(s)
  BY <1>1, <1>4, OwnHolds DEF WaitsForPiece, Writes, Turns, Drops, Claims
<1> QED BY <1>2, <1>3, <1>4 DEF Steps

(* Units that a worker has done with are written.                          *)
LEMMA DoneIsWritten ==
  ASSUME ChunksTypes, HeldInv, Written, NEW s \in Upstream, Drops(s), NEW u \in Unit, Claims(s, u)
  PROVE  staged[u] # "none"
<1>1. work[s].piece \in Piece /\ work[s].got \in Nat /\ u \in Nat
  BY DEF Drops, HeldInv, ChunksTypes, Job, Unit
<1>2. work[s].piece.first <= u /\ u < work[s].piece.first + work[s].got
  BY <1>1, PieceFields DEF Drops, Claims
<1> QED BY <1>2 DEF Written, Drops

(* No unit is lost that has not been written.                              *)
LEMMA CoveredOfSteps ==
  ASSUME ChunksTypes, HeldInv, Covered, Written, NEW s \in Upstream, Steps(s)
  PROVE  Covered'
<1> SUFFICES ASSUME phase \in {"round", "workers"}, NEW u \in Unit, staged'[u] = "none"
             PROVE  (\E i \in DOMAIN pending' : Stacked(i, u)') \/ (\E t \in Upstream : Claims(t, u)')
  BY DEF Covered, Steps
<1>1. staged[u] = "none"
  BY StagedGrows
<1>2. (\E i \in DOMAIN pending : Stacked(i, u)) \/ (\E t \in Upstream : Claims(t, u))
  BY <1>1 DEF Covered
<1>3. CASE UNCHANGED pending /\ (Claims(s, u) => Claims(s, u)')
  BY <1>2, <1>3, StackKept, OthersKeep
<1>4. CASE Takes(s)
  <2>1. ~Claims(s, u)
    BY <1>4 DEF Takes, Claims
  <2>2. CASE \E t \in Upstream : Claims(t, u)
    BY <2>1, <2>2, OthersKeep
  <2>3. CASE \E i \in DOMAIN pending : Stacked(i, u)
    BY <2>3, <1>4, StackPopped
  <2> QED BY <1>2, <2>2, <2>3
<1>5. CASE Gives(s)
  <2>1. CASE Claims(s, u)
    <3>1. OnTop(u)
      BY <1>1, <1>5, <2>1, StackPushed DEF Written, Gives
    <3> QED BY <1>5, <3>1, StackPushed DEF Stacked, OnTop
  <2>2. CASE ~Claims(s, u)
    <3>1. CASE \E i \in DOMAIN pending : Stacked(i, u)
      BY <1>5, <3>1, StackPushed
    <3>2. CASE \E t \in Upstream : Claims(t, u)
      BY <2>2, <3>2, OthersKeep
    <3> QED BY <1>2, <3>1, <3>2
  <2> QED BY <2>1, <2>2
<1>6. CASE WaitsForPiece(s)
  BY <1>3, <1>6 DEF WaitsForPiece, Claims
<1>7. CASE Writes(s) \/ Turns(s)
  BY <1>3, <1>7, OwnHolds DEF Writes, Turns, Claims
<1>8. CASE Drops(s)
  BY <1>1, <1>3, <1>8, DoneIsWritten DEF Drops
<1> QED BY <1>4, <1>5, <1>6, <1>7, <1>8 DEF Steps

(* What a worker has counted as received has been written.                 *)
LEMMA WrittenOfSteps ==
  ASSUME ChunksTypes, HeldInv, Written, NEW s \in Upstream, Steps(s)
  PROVE  Written'
<1>1. ASSUME NEW t \in Upstream \ {s}, Holds(t)', NEW u \in Unit,
             work'[t].piece.first <= u, u < work'[t].piece.first + work'[t].got
      PROVE  staged'[u] # "none"
  BY <1>1, OthersKeep, StagedGrows DEF Written
<1>2. ASSUME HoldsNext(s), NEW u \in Unit,
             work'[s].piece.first <= u, u < work'[s].piece.first + work'[s].got
      PROVE  staged'[u] # "none"
  <2>1. CASE Takes(s)
    <3>1. work'[s].piece \in Piece /\ work'[s].got = 0 /\ u \in Nat
      BY <2>1, StackPopped DEF Takes, Unit
    <3> QED BY <1>2, <3>1, PieceFields
  <2>2. CASE Writes(s)
    <3>1. work[s].piece \in Piece /\ work[s].got \in Nat /\ u \in Nat
      BY <2>2 DEF Writes, HeldInv, ChunksTypes, Job, Unit
    <3>2. u < work[s].piece.first + work[s].got \/ u = work[s].piece.first + work[s].got
      BY <1>2, <2>2, <3>1, PieceFields DEF Writes
    <3> QED BY <1>2, <2>2, <3>2, StagedGrows DEF Written, Writes
  <2>3. CASE Turns(s)
    BY <1>2, <2>3 DEF Turns, Written
  <2> QED BY <1>2, <2>1, <2>2, <2>3 DEF Steps, WaitsForPiece, Drops, Gives
<1> QED BY <1>1, <1>2, OwnHolds DEF Written

-----------------------------------------------------------------------------
(* The steps of engine.download keep it.                                   *)

(* Without workers there are no pieces but those on the stack.             *)
Resting == \A s \in Upstream : ~Holds(s)

(* Workers that do not run hold nothing.                                   *)
LEMMA OffIsResting ==
  ASSUME \A s \in Upstream : In(s, {"off"})
  PROVE  Resting
BY DEF Resting, Holds, In

(* Idle workers do not run.                                                *)
LEMMA IdleIsOff ==
  ASSUME work = [s \in Upstream |-> Idle]
  PROVE  work \in [Upstream -> Job] /\ \A s \in Upstream : In(s, {"off"})
BY IdleJob DEF In

(* Without workers only the stack has to be partitioned.                   *)
LEMMA RestingInvs ==
  ASSUME Resting
  PROVE  /\ HeldInv /\ Written
         /\ (\A i, j \in DOMAIN pending, u \in Unit : Stacked(i, u) /\ Stacked(j, u) => i = j)
              => Disjoint
BY DEF Resting, HeldInv, Written, Disjoint, Claims, Holds, In

(* Every step of engine.download but the first one.                        *)
LEMMA DownloadSteps ==
  ASSUME ChunksInv, Download
  PROVE  /\ Resting' /\ work' \in [Upstream -> Job]
         /\ staged' \in [Unit -> {"none", "good", "bad"}]
         /\ UNCHANGED pending \/ pending' = << >>
         /\ phase' # "workers" => \A s \in Upstream : In(s, {"off"})'
         /\ phase' \in {"idle", "round", "workers", "publish", "single"}
<1>1. phase # "workers" => \A s \in Upstream : In(s, {"off"})
  BY DEF ChunksInv, PhaseInv
<1>2. CASE StartRound
  <2> DEFINE r == [Idle EXCEPT !.pc = "pop"]
  <2>1. r \in Job /\ r.pc = "pop"
    BY IdleJob DEF Job, WorkerPlaces
  <2>2. work' = [s \in Upstream |-> IF s \in Chosen THEN r ELSE Idle]
    BY <1>2 DEF StartRound
  <2> HIDE DEF r
  <2>3. work' \in [Upstream -> Job] /\ \A s \in Upstream : work'[s].pc \in {"pop", "off"}
    BY <2>1, <2>2, IdleJob
  <2>4. Resting'
    BY <2>3 DEF Resting, Holds, In
  <2> QED BY <1>2, <2>3, <2>4 DEF StartRound, ChunksInv, ChunksTypes
<1>3. CASE EndRound
  <2>1. \A s \in Upstream : In(s, {"off"})'
    BY <1>3 DEF EndRound, plan, In
  <2>2. Resting'
    BY <2>1 DEF Resting, Holds, In
  <2> QED BY <1>3, <2>1, <2>2 DEF EndRound, plan, ChunksInv, ChunksTypes
<1>4. ASSUME phase # "workers", UNCHANGED work
      PROVE  Resting' /\ (\A s \in Upstream : In(s, {"off"})') /\ work' \in [Upstream -> Job]
  BY <1>1, <1>4 DEF Resting, Holds, In, ChunksInv, ChunksTypes
<1>5. CASE StagingFails \/ GiveUpPieces
  BY <1>4, <1>5 DEF StagingFails, GiveUpPieces, ChunksInv, ChunksTypes
<1>6. CASE Verify \/ Unpublished \/ Publish
  BY <1>4, <1>6 DEF Verify, Unpublished, Publish, plan, ChunksInv, ChunksTypes
<1>7. CASE Stream
  <2>1. staged' \in [Unit -> {"none", "good", "bad"}]
    BY <1>7 DEF Stream, Content
  <2> QED BY <1>4, <1>7, <2>1 DEF Stream, plan
<1>8. CASE StreamFails \/ StreamMismatch \/ GiveUp
  BY <1>4, <1>8 DEF StreamFails, StreamMismatch, GiveUp, plan, ChunksInv, ChunksTypes
<1> QED BY <1>2, <1>3, <1>5, <1>6, <1>7, <1>8 DEF Download

(* A file gets its final name when its checksum was right.                 *)
LEMMA DeliveredOfDownload ==
  ASSUME ChunksInv, Download
  PROVE  DeliveredIsWhole' /\ target' \in [Unit -> {"none", "good", "bad"}] \cup {None}
<1>1. CASE UNCHANGED <<target, registered>>
  BY <1>1 DEF ChunksInv, ChunksTypes, DeliveredIsWhole, Whole
<1>2. CASE Publish
  BY <1>2 DEF Publish, file, ChunksInv, ChunksTypes, PhaseInv, DeliveredIsWhole, Verified, Whole
<1>3. CASE Stream
  <2>1. Content(Head(Untried)) \in {"good", "bad"}
    BY DEF Content
  <2>2. staged' \in [Unit -> {"good", "bad"}] /\ target' = staged' /\ UNCHANGED registered
    BY <1>3, <2>1 DEF Stream, file
  <2>3. registered => Whole(staged')
    BY <1>3 DEF Stream, Verified
  <2>4. \A u \in Unit : target'[u] # "none"
    BY <2>2
  <2>5. target' \in [Unit -> {"none", "good", "bad"}]
    BY <2>2
  <2> QED BY <2>2, <2>3, <2>4, <2>5 DEF DeliveredIsWhole, Whole
<1> QED BY <1>1, <1>2, <1>3
        DEF Download, StagingFails, StartRound, EndRound, GiveUpPieces, Verify, Unpublished,
            StreamFails, StreamMismatch, GiveUp, file

(* A file is published when the stack is empty and its checksum agrees.    *)
LEMMA PublishOfDownload ==
  ASSUME ChunksInv, Download, phase' = "publish"
  PROVE  Verified(staged)' /\ \A u \in Unit : staged'[u] # "none"
<1>1. Verify /\ Verified(staged)
  BY DEF Download, StagingFails, StartRound, EndRound, GiveUpPieces, Verify, Unpublished, Publish,
         Stream, StreamFails, StreamMismatch, GiveUp
<1>2. pending = << >> /\ phase = "round" /\ UNCHANGED <<staged, registered>>
  BY <1>1 DEF Verify, file
<1>3. Resting
  BY <1>2, OffIsResting DEF ChunksInv, PhaseInv
<1>4. \A u \in Unit : staged[u] # "none"
  BY <1>2, <1>3 DEF ChunksInv, Covered, Resting, Claims
<1> QED BY <1>1, <1>2, <1>4 DEF Verified, Whole

(* A round begins with every unit on the stack.                            *)
LEMMA CoveredOfDownload ==
  ASSUME ChunksInv, Download
  PROVE  Covered'
<1> SUFFICES ASSUME phase' \in {"round", "workers"}
             PROVE  Covered'
  BY DEF Covered
<1>1. StartRound \/ EndRound
  BY DEF Download, StagingFails, GiveUpPieces, Verify, Unpublished, Publish,
         Stream, StreamFails, StreamMismatch, GiveUp
<1>2. UNCHANGED <<pending, staged>> /\ phase \in {"round", "workers"} /\ Resting
  <2>1. Resting
    BY <1>1, OffIsResting DEF StartRound, EndRound, ChunksInv, PhaseInv
  <2> QED BY <1>1, <2>1 DEF StartRound, EndRound, plan
<1>3. \A u \in Unit : staged[u] = "none" => \E i \in DOMAIN pending : Stacked(i, u)
  BY <1>2 DEF ChunksInv, Covered, Resting, Claims
<1> QED BY <1>2, <1>3 DEF Covered, Stacked

(* The steps of the download itself keep the invariant.                    *)
LEMMA DownloadKeeps ==
  ASSUME ChunksInv, Download
  PROVE  ChunksInv'
<1>1. pending' \in Seq(Piece)
  <2>1. << >> \in Seq(Piece) /\ pending \in Seq(Piece)
    BY EmptySeq DEF ChunksInv, ChunksTypes
  <2> QED BY <2>1, DownloadSteps
<1>2. ChunksTypes'
  BY <1>1, DownloadSteps, DeliveredOfDownload DEF ChunksTypes
<1>3. PhaseInv'
  BY DownloadSteps, PublishOfDownload DEF PhaseInv
<1>4. \A i, j \in DOMAIN pending', u \in Unit : Stacked(i, u)' /\ Stacked(j, u)' => i = j
  <2>1. CASE UNCHANGED pending
    BY <2>1, StackKept DEF ChunksInv, Disjoint
  <2>2. CASE pending' = << >>
    BY <2>2
  <2> QED BY <2>1, <2>2, DownloadSteps
<1>5. HeldInv' /\ Written' /\ Disjoint'
  <2>1. Resting'
    BY DownloadSteps
  <2>2. (Resting => HeldInv /\ Written /\
           ((\A i, j \in DOMAIN pending, u \in Unit : Stacked(i, u) /\ Stacked(j, u) => i = j)
              => Disjoint))'
    BY RestingInvs, PTL
  <2> QED BY <1>4, <2>1, <2>2
<1> QED BY <1>2, <1>3, <1>5, CoveredOfDownload, DeliveredOfDownload DEF ChunksInv

(* A new file begins with a blank part file and all of its pieces.         *)
LEMMA FetchKeeps ==
  ASSUME ChunksInv, Fetch
  PROVE  ChunksInv'
<1>1. /\ phase' \in {"round", "single"} /\ target' = None /\ staged' = Blank
      /\ work' = [s \in Upstream |-> Idle]
      /\ pending' = IF phase' = "round" THEN Pieces ELSE << >>
  BY DEF Fetch
<1>2. work' \in [Upstream -> Job] /\ \A s \in Upstream : In(s, {"off"})'
  BY <1>1, IdleJob DEF In
<1>3. Resting'
  BY <1>2 DEF Resting, Holds, In
<1>4. /\ pending' \in Seq(Piece)
      /\ \A i, j \in DOMAIN pending', u \in Unit : Stacked(i, u)' /\ Stacked(j, u)' => i = j
  BY <1>1, PiecesPartition DEF Stacked
<1>5. HeldInv' /\ Written' /\ Disjoint'
  <2>1. (Resting => HeldInv /\ Written /\
           ((\A i, j \in DOMAIN pending, u \in Unit : Stacked(i, u) /\ Stacked(j, u) => i = j)
              => Disjoint))'
    BY RestingInvs, PTL
  <2> QED BY <1>3, <1>4, <2>1
<1>6. Covered'
  BY <1>1, PiecesPartition DEF Covered, Stacked
<1>7. ChunksTypes' /\ PhaseInv'
  BY <1>1, <1>2, <1>4 DEF ChunksTypes, PhaseInv, Blank
<1> QED BY <1>1, <1>5, <1>6, <1>7 DEF ChunksInv, DeliveredIsWhole

(* The steps of the workers keep the invariant.                            *)
LEMMA WorkerKeeps ==
  ASSUME ChunksInv, NEW s \in Upstream, Worker(s)
  PROVE  ChunksInv'
<1>1. Steps(s)
  BY WorkerSteps DEF ChunksInv
<1>2. ChunksTypes' /\ HeldInv' /\ Disjoint' /\ Covered' /\ Written'
  BY <1>1, TypesOfSteps, HeldOfSteps, DisjointOfSteps, CoveredOfSteps, WrittenOfSteps DEF ChunksInv
<1>3. phase' = "workers"
  BY <1>1 DEF Steps, ChunksInv, PhaseInv
<1>4. PhaseInv'
  BY <1>3 DEF PhaseInv
<1>5. DeliveredIsWhole'
  BY <1>1 DEF Steps, ChunksInv, DeliveredIsWhole, Whole
<1> QED BY <1>2, <1>4, <1>5 DEF ChunksInv

(* A cancellation, and steps of others, change nothing here.               *)
LEMMA RestKeeps ==
  ASSUME ChunksInv, UNCHANGED <<phase, registered, pending, work, staged, target>>
  PROVE  ChunksInv'
<1>1. ChunksTypes' /\ HeldInv' /\ PhaseInv'
  BY DEF ChunksInv, ChunksTypes, HeldInv, PhaseInv, Holds, In, Verified, Whole
<1>2. Disjoint' /\ Covered' /\ Written'
  BY DEF ChunksInv, Disjoint, Covered, Written, Claims, Stacked, Holds, In
<1>3. DeliveredIsWhole'
  BY DEF ChunksInv, DeliveredIsWhole, Whole
<1> QED BY <1>1, <1>2, <1>3 DEF ChunksInv

(* Nothing has been fetched yet.                                           *)
LEMMA Initial == ChunksInit => ChunksInv
<1> SUFFICES ASSUME ChunksInit PROVE ChunksInv
  OBVIOUS
<1>1. work \in [Upstream -> Job] /\ (\A s \in Upstream : In(s, {"off"})) /\ Resting
  BY IdleIsOff, OffIsResting DEF ChunksInit
<1>2. pending = << >> /\ phase = "idle" /\ target = None /\ staged = Blank
  BY DEF ChunksInit
<1>3. ChunksTypes /\ PhaseInv /\ Covered /\ DeliveredIsWhole
  BY <1>1, <1>2 DEF ChunksTypes, PhaseInv, Covered, DeliveredIsWhole, Blank
<1> QED BY <1>1, <1>2, <1>3, RestingInvs DEF ChunksInv

(* ChunksInv is inductive.                                                 *)
LEMMA Inductive == ChunksInv /\ [ChunksNext]_chunksVars => ChunksInv'
<1> SUFFICES ASSUME ChunksInv, [ChunksNext]_chunksVars PROVE ChunksInv'
  OBVIOUS
<1>1. CASE Fetch
  BY <1>1, FetchKeeps
<1>2. CASE Download
  BY <1>2, DownloadKeeps
<1>3. CASE \E s \in Upstream : Worker(s)
  BY <1>3, WorkerKeeps
<1>4. CASE CancelContext \/ UNCHANGED chunksVars
  BY <1>4, RestKeeps DEF CancelContext, chunksVars, file, plan
<1> QED BY <1>1, <1>2, <1>3, <1>4 DEF ChunksNext, NotYet

-----------------------------------------------------------------------------
(* What the invariant is for.                                              *)

(* A set without two different elements has none or one.                   *)
LEMMA AtMostOne ==
  ASSUME NEW S, \A x, y \in S : x = y
  PROVE  (S = {} /\ Cardinality(S) = 0) \/ (S # {} /\ Cardinality(S) = 1)
<1>1. CASE S = {}
  BY <1>1, FS_EmptySet
<1>2. CASE S # {}
  <2>1. PICK x \in S : TRUE
    BY <1>2
  <2>2. S = {x}
    BY <2>1
  <2> QED BY <1>2, <2>2, FS_Singleton
<1> QED BY <1>1, <1>2

(* The inductive invariant of the relay's engine: types, phases, and where *)
(* the units of the file are.                                              *)
THEOREM ChunksInvariant == ChunksSpec => []ChunksInv
BY Initial, Inductive, PTL DEF ChunksSpec

(* chunkPlan: no unit of the file is forgotten and none is fetched by two  *)
(* workers, however often pieces are cut short, taken over and given back. *)
THEOREM PiecesArePartitioned == ChunksSpec => []WorkIsPartitioned
<1>1. ChunksInv => WorkIsPartitioned
  <2> SUFFICES ASSUME ChunksInv, phase \in {"round", "workers"}, NEW u \in Unit
               PROVE  LET A == {i \in DOMAIN pending : u \in UnitsOf(pending[i])}
                          B == {s \in Upstream : Holds(s) /\ u \in UnitsOf(work[s].piece)}
                      IN /\ Cardinality(A) + Cardinality(B) <= 1
                         /\ staged[u] = "none" => Cardinality(A) + Cardinality(B) = 1
    BY DEF WorkIsPartitioned
  <2> DEFINE A == {i \in DOMAIN pending : Stacked(i, u)}
             B == {s \in Upstream : Claims(s, u)}
  <2>1. (A = {} /\ Cardinality(A) = 0) \/ (A # {} /\ Cardinality(A) = 1)
    <3>1. \A x, y \in A : x = y
      BY DEF ChunksInv, Disjoint
    <3> HIDE DEF A
    <3> QED BY <3>1, AtMostOne
  <2>2. (B = {} /\ Cardinality(B) = 0) \/ (B # {} /\ Cardinality(B) = 1)
    <3>1. \A x, y \in B : x = y
      BY DEF ChunksInv, Disjoint
    <3> HIDE DEF B
    <3> QED BY <3>1, AtMostOne
  <2>3. A = {} \/ B = {}
    BY DEF ChunksInv, Disjoint
  <2>4. staged[u] = "none" => A # {} \/ B # {}
    BY DEF ChunksInv, Covered
  <2>5. /\ Cardinality(A) + Cardinality(B) <= 1
        /\ staged[u] = "none" => Cardinality(A) + Cardinality(B) = 1
    <3> HIDE DEF A, B
    <3> QED BY <2>1, <2>2, <2>3, <2>4
  <2> QED BY <2>5 DEF Stacked, Claims
<1> QED BY <1>1, ChunksInvariant, PTL

(* engine.download: a file that is served has no holes, and one whose      *)
(* checksum is known is the file, whether it came in pieces or in a stream.*)
THEOREM FileIsWhole == ChunksSpec => []DeliveredIsWhole
<1>1. ChunksInv => DeliveredIsWhole
  BY DEF ChunksInv
<1> QED BY <1>1, ChunksInvariant, PTL
=============================================================================
