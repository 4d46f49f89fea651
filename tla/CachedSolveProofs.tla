-------------------------- MODULE CachedSolveProofs -------------------------
(***************************************************************************)
(* Proofs about CachedSolve, for every set of handlers, keys and requests, *)
(* any limits and any number of publications: with at most one pool        *)
(* process, what is retained under markers of repodata.json was solved     *)
(* from the metadata that they name, and no answer is older than what was  *)
(* on disk when its request was captured.                                  *)
(*                                                                         *)
(* A job's content lies between the metadata that its handler captured     *)
(* before it and what is on disk (JobOK), and contents only grow, so equal *)
(* markers before and after the solve pin it down.  That a kept index and  *)
(* its markers agree (Exact) needs that nobody fetches metadata between    *)
(* its load and the capture of its markers: a worker with one process for  *)
(* a request does one thing at a time (Alone).  With two pool processes    *)
(* this is what fails.                                                     *)
(***************************************************************************)
EXTENDS CachedSolve, SequenceLemmas, SequenceTheorems, TLAPS

\* What the theorems assume of the pool.
OnePoolProcess == \A p, q \in Pool : p = q

-----------------------------------------------------------------------------
(* The inductive invariant.                                                 *)

Phases == {"none", "waiting", "index", "load", "mark", "done", "failed"}

JobTypes == [phase : Phases, process : Processes \cup {NoProcess}, content : Contents]

Entries == [key : Keys, content : Contents, snapshot : SnapshotType]

HandlerTypes ==
    [step : {"idle"}]
    \cup [step : {"capture"}, request : Requests]
    \cup [step : {"lookup", "run", "solving", "gone"}, request : Requests,
          initial : SnapshotType]
    \cup [step : {"recheck"}, request : Requests, initial : SnapshotType,
          found : SUBSET Contents]

StateInv ==
    /\ options \in [worker : BOOLEAN, useIndexCache : BOOLEAN, sharded : BOOLEAN]
    /\ upstream \in Contents
    /\ files \in [Files -> [content : Contents, expired : BOOLEAN]]
    /\ \A f \in Files : files[f].content <= upstream
    /\ jobs \in [Handlers -> [Keys -> JobTypes]]
    /\ handlers \in [Handlers -> HandlerTypes]

\* A kept index was loaded from the metadata that its markers name.
Exact(s) ==
    /\ s \in Seq(Entries)
    /\ \A i \in 1..Len(s) : s[i].content = s[i].snapshot.marker
    /\ \A i, j \in 1..Len(s) : s[i].key = s[j].key => i = j

IndexesInv ==
    /\ indexes \in [Processes -> Seq(Entries)]
    /\ \A p \in Processes : Exact(indexes[p]) /\ Len(indexes[p]) <= MaxIndexes

\* The processes that solve a request.
ProcessesFor(request) ==
    IF Cardinality(request.keys) = 1 \/ request.kind = "workspace" THEN {Main} ELSE Pool

\* What a handler has captured is not newer than what is on disk.
Since(d) ==
    /\ d.initial.source = Source(d.request)
    /\ d.initial.marker <= files[d.initial.source].content

HandlerOK(d) ==
    /\ d.step \notin {"idle", "capture"} => Since(d)
    /\ d.step = "recheck" /\ d.initial.source = "json" => d.found = {d.initial.marker}

HandlersInv == \A h \in Handlers : HandlerOK(handlers[h])

JobOK(d, j) ==
    /\ d.step \notin {"solving", "gone"} => j = NoJob
    /\ j.process # NoProcess <=> options.worker /\ j.phase \notin {"none", "waiting"}
    /\ j.process # NoProcess => j.process \in ProcessesFor(d.request)
    /\ j.phase \in {"index", "mark"} => options.worker /\ d.request.kind = "plain"
    /\ j.phase = "mark" => j.content = files["json"].content
    /\ j.phase = "done" /\ d.initial.source = "json" =>
          d.initial.marker <= j.content /\ j.content <= files["json"].content

JobsInv == \A h \in Handlers, k \in Keys : JobOK(handlers[h], jobs[h][k])

Working(h, k) == jobs[h][k].phase \in {"index", "load", "mark"}

\* The worker does one thing at a time.
Alone ==
    options.worker =>
        \A g, h \in Handlers, j, k \in Keys :
            Working(g, j) /\ Working(h, k) => g = h /\ j = k

CacheInv ==
    /\ cache = [key \in DOMAIN cache |-> cache[key]]
    /\ \A key \in DOMAIN cache :
          /\ key.request.retain /\ cache[key] \subseteq Contents
          /\ key.source = "json" => cache[key] = {key.marker}

IInv == StateInv /\ IndexesInv /\ HandlersInv /\ JobsInv /\ Alone /\ CacheInv

-----------------------------------------------------------------------------
(* The index caches.                                                        *)

\* The entries of r are entries of s.
Part(r, s) ==
    \E f \in [1..Len(r) -> 1..Len(s)] :
        /\ \A i, j \in 1..Len(r) : f[i] = f[j] => i = j
        /\ \A i \in 1..Len(r) : r[i] = s[f[i]]

\* A part of an exact cache is exact.
LEMMA ExactPart ==
  ASSUME NEW s, Exact(s), NEW r \in Seq(Entries), Part(r, s)
  PROVE  Exact(r)
<1>0. PICK f \in [1..Len(r) -> 1..Len(s)] :
        /\ \A i, j \in 1..Len(r) : f[i] = f[j] => i = j
        /\ \A i \in 1..Len(r) : r[i] = s[f[i]]
  BY DEF Part
<1>1. ASSUME NEW i \in 1..Len(r)
      PROVE  r[i].content = r[i].snapshot.marker
  <2>1. f[i] \in 1..Len(s) /\ r[i] = s[f[i]]
    BY <1>0
  <2> QED
    BY <2>1 DEF Exact
<1>2. ASSUME NEW i \in 1..Len(r), NEW j \in 1..Len(r), r[i].key = r[j].key
      PROVE  i = j
  <2>1. /\ f[i] \in 1..Len(s) /\ r[i] = s[f[i]]
        /\ f[j] \in 1..Len(s) /\ r[j] = s[f[j]]
    BY <1>0
  <2>2. f[i] = f[j]
    BY <1>2, <2>1 DEF Exact
  <2> QED
    BY <1>0, <2>2
<1> QED
  BY <1>1, <1>2 DEF Exact

\* An entry is removed.
LEMMA ExactRemoved ==
  ASSUME NEW s, Exact(s), NEW i \in 1..Len(s)
  PROVE  /\ Exact(RemoveAt(s, i)) /\ Len(RemoveAt(s, i)) = Len(s) - 1
         /\ \A j \in 1..Len(RemoveAt(s, i)) : RemoveAt(s, i)[j].key # s[i].key
<1> DEFINE r == RemoveAt(s, i)
           f == [j \in 1..Len(r) |-> IF j < i THEN j ELSE j + 1]
<1>1. /\ Len(s) \in Nat /\ r \in Seq(Entries) /\ Len(r) = Len(s) - 1
      /\ \A j \in 1..(Len(s) - 1) : r[j] = IF j < i THEN s[j] ELSE s[j + 1]
  BY RemoveAtElements, LenProperties DEF Exact
<1> HIDE DEF r
<1>2. f \in [1..Len(r) -> 1..Len(s)]
  BY <1>1
<1>3. \A j, n \in 1..Len(r) : f[j] = f[n] => j = n
  BY <1>1
<1>4. \A j \in 1..Len(r) : f[j] # i /\ r[j] = s[f[j]]
  BY <1>1
<1> HIDE DEF f
<1>5. Exact(r)
  <2>1. Part(r, s)
    BY <1>2, <1>3, <1>4 DEF Part
  <2> QED
    BY <1>1, <2>1, ExactPart
<1>6. ASSUME NEW j \in 1..Len(r)
      PROVE  r[j].key # s[i].key
  <2>1. f[j] \in 1..Len(s) /\ f[j] # i /\ r[j] = s[f[j]]
    BY <1>2, <1>4
  <2> QED
    BY <2>1 DEF Exact
<1> QED
  BY <1>1, <1>5, <1>6 DEF r

\* An entry is added, for a key that has none.
LEMMA ExactAppended ==
  ASSUME NEW s, Exact(s), NEW e \in Entries, e.content = e.snapshot.marker,
         \A j \in 1..Len(s) : s[j].key # e.key
  PROVE  Exact(Append(s, e)) /\ Len(Append(s, e)) = Len(s) + 1
<1> DEFINE a == Append(s, e)
<1>1. /\ a \in Seq(Entries) /\ Len(a) = Len(s) + 1 /\ Len(s) \in Nat
      /\ \A j \in 1..Len(s) : a[j] = s[j]
      /\ a[Len(s) + 1] = e
  BY AppendProperties, LenProperties DEF Exact
<1> HIDE DEF a
<1>2. \A j \in 1..Len(a) : j \in 1..Len(s) \/ j = Len(s) + 1
  BY <1>1
<1>3. \A j \in 1..Len(a) : a[j].content = a[j].snapshot.marker
  BY <1>1, <1>2 DEF Exact
<1>4. \A i, j \in 1..Len(a) : a[i].key = a[j].key => i = j
  BY <1>1, <1>2 DEF Exact
<1> QED
  BY <1>1, <1>3, <1>4 DEF Exact, a

\* The used index becomes the youngest.
LEMMA ExactMoved ==
  ASSUME NEW s, Exact(s), NEW i \in 1..Len(s)
  PROVE  Exact(Append(RemoveAt(s, i), s[i])) /\ Len(Append(RemoveAt(s, i), s[i])) = Len(s)
<1>1. /\ s[i] \in Entries /\ s[i].content = s[i].snapshot.marker /\ Len(s) \in Nat
  BY ElementOfSeq, LenProperties DEF Exact
<1>2. /\ Exact(RemoveAt(s, i)) /\ Len(RemoveAt(s, i)) = Len(s) - 1
      /\ \A j \in 1..Len(RemoveAt(s, i)) : RemoveAt(s, i)[j].key # s[i].key
  BY ExactRemoved
<1> QED
  BY <1>1, <1>2, ExactAppended

\* A loaded index takes the place of the older one for its key, and of the
\* oldest.
LEMMA ExactKept ==
  ASSUME NEW s, Exact(s), NEW e \in Entries, e.content = e.snapshot.marker
  PROVE  /\ Exact(Kept(Append(Others(s, e.key), e)))
         /\ Len(Kept(Append(Others(s, e.key), e))) <= MaxIndexes
<1> DEFINE o == Others(s, e.key)
           a == Append(o, e)
           first == IF Len(a) > MaxIndexes THEN Len(a) - MaxIndexes + 1 ELSE 1
           r == SubSeq(a, first, Len(a))
           f == [j \in 1..Len(r) |-> first + j - 1]
<1>1. Exact(o) /\ \A j \in 1..Len(o) : o[j].key # e.key
  <2>1. DOMAIN s = 1..Len(s)
    BY LenProperties DEF Exact
  <2>2. CASE \E i \in DOMAIN s : s[i].key = e.key
    <3>1. PICK i \in DOMAIN s : s[i].key = e.key /\ o = RemoveAt(s, i)
      BY <2>2 DEF Others
    <3> QED
      BY <2>1, <3>1, ExactRemoved
  <2>3. CASE ~\E i \in DOMAIN s : s[i].key = e.key
    BY <2>1, <2>3 DEF Others
  <2> QED
    BY <2>2, <2>3
<1> HIDE DEF o
<1>2. Exact(a) /\ Len(a) \in Nat /\ \A i \in 1..Len(a) : a[i] \in Entries
  BY <1>1, ExactAppended, LenProperties, ElementOfSeq DEF Exact
<1> HIDE DEF a
<1>3. first \in Nat /\ first >= 1 /\ first <= Len(a) + 1 /\ Len(a) - first + 1 <= MaxIndexes
  BY <1>2, SolveAssumption DEF SolveAssumption
<1>4. Kept(a) = r
  BY DEF Kept
<1> HIDE DEF first
<1>5. /\ r \in Seq(Entries) /\ Len(r) = Len(a) - first + 1
      /\ \A i \in 1..Len(r) : r[i] = a[first + i - 1]
  <2>1. \A i \in first..Len(a) : a[i] \in Entries
    BY <1>2, <1>3
  <2>2. /\ r \in Seq(Entries)
        /\ Len(r) = IF first <= Len(a) THEN Len(a) - first + 1 ELSE 0
        /\ \A i \in 1..(Len(a) - first + 1) : r[i] = a[first + i - 1]
    BY <1>2, <1>3, <2>1, SubSeqProperties
  <2> HIDE DEF r
  <2> QED
    BY <1>2, <1>3, <2>2
<1> HIDE DEF r
<1>6. f \in [1..Len(r) -> 1..Len(a)]
  BY <1>2, <1>3, <1>5
<1>7. /\ \A i, j \in 1..Len(r) : f[i] = f[j] => i = j
      /\ \A i \in 1..Len(r) : r[i] = a[f[i]]
  BY <1>2, <1>3, <1>5
<1> HIDE DEF f
<1>8. Exact(r)
  <2>1. Part(r, a)
    BY <1>6, <1>7 DEF Part
  <2> QED
    BY <1>2, <1>5, <2>1, ExactPart
<1> QED
  BY <1>3, <1>4, <1>5, <1>8 DEF a, o

-----------------------------------------------------------------------------
(* What a step of a handler, of a job and of the metadata have in common.   *)

Work == {"index", "load", "mark"}

\* A handler goes on; its jobs stay as they are, or do no work.
LEMMA HandlerMoves ==
  ASSUME IInv, NEW h \in Handlers, NEW d \in HandlerTypes, NEW row \in [Keys -> JobTypes],
         handlers' = [handlers EXCEPT ![h] = d], jobs' = [jobs EXCEPT ![h] = row],
         HandlerOK(d), \A k \in Keys : JobOK(d, row[k]),
         \A k \in Keys : row[k].phase \in Work => row[k] = jobs[h][k],
         UNCHANGED <<options, upstream, files, indexes>>, CacheInv'
  PROVE  IInv'
<1>1. StateInv /\ IndexesInv /\ HandlersInv /\ JobsInv /\ Alone
  BY DEF IInv
<1>2. /\ handlers'[h] = d /\ jobs'[h] = row
      /\ \A g \in Handlers : g # h => handlers'[g] = handlers[g] /\ jobs'[g] = jobs[g]
  BY <1>1 DEF StateInv
<1>3. StateInv'
  BY <1>1 DEF StateInv
<1>4. IndexesInv'
  BY <1>1 DEF IndexesInv
<1>5. HandlersInv'
  <2> SUFFICES ASSUME NEW g \in Handlers
               PROVE  HandlerOK(handlers[g])'
    BY DEF HandlersInv
  <2>1. HandlerOK(handlers'[g])
    BY <1>1, <1>2 DEF HandlersInv
  <2> QED
    BY <2>1 DEF HandlerOK, Since, Source
<1>6. JobsInv'
  <2> SUFFICES ASSUME NEW g \in Handlers, NEW k \in Keys
               PROVE  JobOK(handlers[g], jobs[g][k])'
    BY DEF JobsInv
  <2>1. CASE g = h
    BY <1>2, <2>1 DEF JobOK
  <2>2. CASE g # h
    <3>1. JobOK(handlers[g], jobs[g][k])
      BY <1>1 DEF JobsInv
    <3> QED
      BY <1>2, <2>2, <3>1 DEF JobOK
  <2> QED
    BY <2>1, <2>2
<1>7. Alone'
  <2>1. \A g \in Handlers, k \in Keys : Working(g, k)' => Working(g, k)
    BY <1>2 DEF Working, Work
  <2> QED
    BY <1>1, <2>1 DEF Alone
<1> QED
  BY <1>3, <1>4, <1>5, <1>6, <1>7 DEF IInv

\* A job goes on; metadata only grows, and nobody else captures markers while
\* repodata.json is fetched.
LEMMA JobMoves ==
  ASSUME IInv, NEW h \in Handlers, NEW k \in Keys, NEW job \in JobTypes,
         jobs' = [jobs EXCEPT ![h][k] = job],
         UNCHANGED <<options, upstream, handlers, cache>>, IndexesInv',
         files' \in [Files -> [content : Contents, expired : BOOLEAN]],
         \A f \in Files : files[f].content <= files'[f].content
                          /\ files'[f].content <= upstream,
         \/ files'["json"].content = files["json"].content
         \/ \A g \in Handlers, i \in Keys :
               g # h \/ i # k => jobs[g][i].phase # "mark",
         JobOK(handlers[h], job)',
         options.worker /\ job.phase \in Work =>
            \/ Working(h, k)
            \/ \A g \in Handlers, i \in Keys : ~Working(g, i)
  PROVE  IInv'
<1>1. StateInv /\ HandlersInv /\ JobsInv /\ Alone /\ CacheInv
  BY DEF IInv
<1>2. /\ jobs'[h][k] = job
      /\ \A g \in Handlers, i \in Keys : g # h \/ i # k => jobs'[g][i] = jobs[g][i]
  BY <1>1 DEF StateInv
<1>3. StateInv'
  <2>1. jobs' \in [Handlers -> [Keys -> JobTypes]]
    BY <1>1 DEF StateInv
  <2> QED
    BY <1>1, <2>1 DEF StateInv
<1>4. HandlersInv'
  <2> SUFFICES ASSUME NEW g \in Handlers
               PROVE  HandlerOK(handlers[g])'
    BY DEF HandlersInv
  <2>1. HandlerOK(handlers[g]) /\ handlers[g] \in HandlerTypes
    BY <1>1 DEF HandlersInv, StateInv
  <2>2. ASSUME handlers[g].step \notin {"idle", "capture"}
        PROVE  Since(handlers[g])'
    <3>1. Since(handlers[g]) /\ handlers[g].initial \in SnapshotType
      BY <2>1, <2>2 DEF HandlerOK, HandlerTypes
    <3>2. /\ handlers[g].initial.source \in Files /\ handlers[g].initial.marker \in Nat
      BY <3>1, SolveAssumption DEF SnapshotType, Contents, SolveAssumption
    <3>3. /\ files[handlers[g].initial.source].content \in Nat
          /\ files'[handlers[g].initial.source].content \in Nat
      BY <1>1, <3>2, SolveAssumption DEF StateInv, Contents, SolveAssumption
    <3>4. Source(handlers[g].request)' = Source(handlers[g].request)
      BY DEF Source
    <3> QED
      BY <3>1, <3>2, <3>3, <3>4 DEF Since
  <2> QED
    BY <2>1, <2>2 DEF HandlerOK
<1>5. JobsInv'
  <2> SUFFICES ASSUME NEW g \in Handlers, NEW i \in Keys, g # h \/ i # k
               PROVE  JobOK(handlers[g], jobs[g][i])'
    BY <1>2 DEF JobsInv, JobOK
  <2>1. JobOK(handlers[g], jobs[g][i]) /\ jobs[g][i] \in JobTypes
    BY <1>1 DEF JobsInv, StateInv
  <2>2. jobs[g][i].phase = "mark" => files'["json"].content = files["json"].content
    OBVIOUS
  <2>3. /\ jobs[g][i].content \in Nat /\ files["json"].content \in Nat
        /\ files'["json"].content \in Nat
        /\ files["json"].content <= files'["json"].content
    BY <1>1, <2>1, SolveAssumption DEF JobTypes, StateInv, Files, Contents, SolveAssumption
  <2> QED
    BY <1>2, <2>1, <2>2, <2>3 DEF JobOK
<1>6. Alone'
  <2>1. \A g \in Handlers, i \in Keys : g # h \/ i # k => (Working(g, i)' <=> Working(g, i))
    BY <1>2 DEF Working
  <2>2. Working(h, k)' <=> job.phase \in Work
    BY <1>2 DEF Working, Work
  <2> QED
    BY <1>1, <2>1, <2>2 DEF Alone
<1>7. CacheInv'
  BY <1>1 DEF CacheInv
<1> QED
  BY <1>3, <1>4, <1>5, <1>6, <1>7 DEF IInv

\* Metadata is published, or grows old.
LEMMA MetadataMoves ==
  ASSUME IInv, upstream' \in Contents, upstream <= upstream',
         files' \in [Files -> [content : Contents, expired : BOOLEAN]],
         \A f \in Files : files'[f].content = files[f].content,
         UNCHANGED <<options, indexes, jobs, handlers, cache>>
  PROVE  IInv'
<1>1. StateInv /\ IndexesInv /\ HandlersInv /\ JobsInv /\ Alone /\ CacheInv
  BY DEF IInv
<1>2. StateInv'
  <2>1. upstream \in Nat /\ upstream' \in Nat /\ \A f \in Files : files[f].content \in Nat
    BY <1>1, SolveAssumption DEF StateInv, Contents, SolveAssumption
  <2> QED
    BY <1>1, <2>1 DEF StateInv
<1>3. IndexesInv' /\ CacheInv'
  BY <1>1 DEF IndexesInv, CacheInv
<1>4. HandlersInv'
  <2> SUFFICES ASSUME NEW g \in Handlers
               PROVE  HandlerOK(handlers[g])'
    BY DEF HandlersInv
  <2>1. HandlerOK(handlers[g]) /\ handlers[g] \in HandlerTypes
    BY <1>1 DEF HandlersInv, StateInv
  <2>2. handlers[g].step \notin {"idle", "capture"} => handlers[g].initial.source \in Files
    BY <2>1 DEF HandlerTypes, SnapshotType
  <2> QED
    BY <2>1, <2>2 DEF HandlerOK, Since, Source
<1>5. JobsInv'
  BY <1>1 DEF JobsInv, JobOK, Files
<1>6. Alone'
  BY <1>1 DEF Alone, Working
<1> QED
  BY <1>2, <1>3, <1>4, <1>5, <1>6 DEF IInv

-----------------------------------------------------------------------------
(* Metadata and snapshots.                                                  *)

\* The content of a file is a number.
LEMMA Numbers ==
  ASSUME StateInv
  PROVE  /\ Contents \subseteq Nat /\ 0 \in Contents /\ upstream \in Nat
         /\ \A f \in Files : files[f].content \in Nat
BY SolveAssumption DEF StateInv, Contents, SolveAssumption

\* A snapshot has the markers of what is on disk.
LEMMA Snapshots ==
  ASSUME StateInv, NEW f \in Files, NEW b \in BOOLEAN
  PROVE  /\ Snapshot(f, b) \in SnapshotType
         /\ Snapshot(f, b).source = f /\ Snapshot(f, b).marker = files[f].content
BY DEF Snapshot, SnapshotType, StateInv

\* A handler captures those of the source of its request.
LEMMA Captures ==
  ASSUME StateInv, NEW request \in Requests
  PROVE  /\ Captured(request) \in SnapshotType /\ Source(request) \in Files
         /\ Captured(request).source = Source(request)
         /\ Captured(request).marker = files[Source(request)].content
<1>1. Source(request) \in Files
  BY DEF Source, Files
<1>2. (request.kind = "workspace" /\ options.useIndexCache) \in BOOLEAN
  OBVIOUS
<1> QED
  BY <1>1, <1>2, Snapshots DEF Captured

\* A fetch leaves nothing older than before.
LEMMA Fetches ==
  ASSUME StateInv, NEW f \in Files
  PROVE  /\ Fetched(f) \in [Files -> [content : Contents, expired : BOOLEAN]]
         /\ \A g \in Files : /\ files[g].content <= Fetched(f)[g].content
                             /\ Fetched(f)[g].content <= upstream
                             /\ g # f => Fetched(f)[g] = files[g]
<1>1. /\ files \in [Files -> [content : Contents, expired : BOOLEAN]]
      /\ upstream \in Contents /\ \A g \in Files : files[g].content <= upstream
  BY DEF StateInv
<1>2. CASE files[f].content = 0 \/ files[f].expired
  <2> DEFINE new == [content |-> upstream, expired |-> FALSE]
  <2>1. new \in [content : Contents, expired : BOOLEAN] /\ new.content = upstream
    BY <1>1
  <2>2. Fetched(f) = [files EXCEPT ![f] = new]
    BY <1>2 DEF Fetched
  <2> HIDE DEF new
  <2> QED
    BY <1>1, <2>1, <2>2, Numbers
<1>3. CASE ~(files[f].content = 0 \/ files[f].expired)
  BY <1>1, <1>3, Numbers DEF Fetched
<1> QED
  BY <1>2, <1>3

-----------------------------------------------------------------------------
(* The steps of handlers.                                                   *)

\* No job, and a handler without jobs.
LEMMA NoJobs ==
  ASSUME IInv
  PROVE  /\ NoJob \in JobTypes /\ NoJob.phase = "none" /\ \A d : JobOK(d, NoJob)
         /\ \A h \in Handlers : handlers[h].step \notin {"solving", "gone"} =>
               \A k \in Keys : jobs[h][k] = NoJob
<1>1. NoJob \in JobTypes /\ NoJob.phase = "none" /\ NoJob.process = NoProcess
  BY Numbers DEF IInv, NoJob, JobTypes, Phases
<1>2. \A d : JobOK(d, NoJob)
  BY <1>1 DEF JobOK
<1>3. \A h \in Handlers : handlers[h].step \notin {"solving", "gone"} =>
         \A k \in Keys : jobs[h][k] = NoJob
  BY DEF IInv, JobsInv, JobOK
<1> QED
  BY <1>1, <1>2, <1>3

\* A handler without jobs goes on, or drops its jobs.
LEMMA HandlerRests ==
  ASSUME IInv, NEW h \in Handlers, NEW d \in HandlerTypes,
         handlers' = [handlers EXCEPT ![h] = d], HandlerOK(d),
         \/ jobs' = Dropped(h)
         \/ jobs' = jobs /\ handlers[h].step \notin {"solving", "gone"},
         UNCHANGED <<options, upstream, files, indexes>>, CacheInv'
  PROVE  IInv'
<1> DEFINE row == [k \in Keys |-> NoJob]
<1>1. row \in [Keys -> JobTypes] /\ \A k \in Keys : row[k] = NoJob
  BY NoJobs
<1>2. jobs' = [jobs EXCEPT ![h] = row]
  <2>1. CASE jobs' = Dropped(h)
    BY <2>1 DEF Dropped
  <2>2. CASE jobs' = jobs /\ handlers[h].step \notin {"solving", "gone"}
    <3>1. jobs \in [Handlers -> [Keys -> JobTypes]]
      BY DEF IInv, StateInv
    <3>2. jobs[h] = row
      BY <2>2, <3>1, NoJobs
    <3> QED
      BY <2>2, <3>1, <3>2
  <2> QED
    BY <2>1, <2>2
<1> HIDE DEF row
<1>3. \A k \in Keys : JobOK(d, row[k]) /\ row[k].phase \notin Work
  BY <1>1, NoJobs DEF Work
<1> QED
  BY <1>1, <1>2, <1>3, HandlerMoves

\* A request arrives.
LEMMA ArriveStep == ASSUME IInv, NEW h \in Handlers, Arrive(h) PROVE IInv'
<1>1. PICK request \in Requests :
        /\ handlers[h] = Idle
        /\ handlers' = [handlers EXCEPT ![h] = [step |-> "capture", request |-> request]]
        /\ UNCHANGED <<options, upstream, files, indexes, jobs, cache>>
  BY DEF Arrive
<1>2. PICK d : d = [step |-> "capture", request |-> request]
  OBVIOUS
<1>3. d \in HandlerTypes /\ HandlerOK(d)
  BY <1>2 DEF HandlerTypes, HandlerOK
<1>4. CacheInv'
  BY <1>1 DEF IInv, CacheInv
<1>5. handlers[h].step \notin {"solving", "gone"}
  BY <1>1 DEF Idle
<1> QED
  BY <1>1, <1>2, <1>3, <1>4, <1>5, HandlerRests

\* The metadata is captured.
LEMMA CaptureStep == ASSUME IInv, NEW h \in Handlers, Capture(h) PROVE IInv'
<1>1. PICK request, snapshot :
        request = handlers[h].request /\ snapshot = Captured(handlers[h].request)
  OBVIOUS
<1>2. PICK step \in {"lookup", "run"} :
        /\ handlers[h].step = "capture"
        /\ handlers' = [handlers EXCEPT ![h] =
              [step |-> step, request |-> request, initial |-> snapshot]]
        /\ UNCHANGED <<options, upstream, files, indexes, jobs, cache>>
  BY <1>1 DEF Capture
<1>3. PICK d : d = [step |-> step, request |-> request, initial |-> snapshot]
  OBVIOUS
<1>4. request \in Requests
  BY <1>1, <1>2 DEF IInv, StateInv, HandlerTypes
<1>5. /\ snapshot \in SnapshotType /\ Source(request) \in Files
      /\ snapshot.source = Source(request)
      /\ snapshot.marker = files[Source(request)].content
  BY <1>1, <1>4, Captures DEF IInv
<1>6. d \in HandlerTypes
  BY <1>3, <1>4, <1>5 DEF HandlerTypes
<1>7. HandlerOK(d)
  BY <1>3, <1>5, Numbers DEF IInv, HandlerOK, Since
<1>8. CacheInv'
  BY <1>2 DEF IInv, CacheInv
<1> QED
  BY <1>2, <1>3, <1>6, <1>7, <1>8, HandlerRests

\* The result cache is asked.
LEMMA LookupStep == ASSUME IInv, NEW h \in Handlers, Lookup(h) PROVE IInv'
<1>1. PICK c : c = handlers[h]
  OBVIOUS
<1>2. /\ c.step = "lookup" /\ c \in HandlerTypes /\ HandlerOK(c)
      /\ UNCHANGED <<options, upstream, files, indexes, jobs, cache>>
  BY <1>1 DEF Lookup, IInv, StateInv, HandlersInv
<1>3. /\ c = [step |-> "lookup", request |-> c.request, initial |-> c.initial]
      /\ c.request \in Requests /\ c.initial \in SnapshotType
  BY <1>2 DEF HandlerTypes
<1>4. CacheInv'
  BY <1>2 DEF IInv, CacheInv
<1>5. CASE KeyOf(c.request, c.initial) \in DOMAIN cache
  <2>1. PICK found : found = cache[KeyOf(c.request, c.initial)]
    OBVIOUS
  <2>2. PICK d : d = [step |-> "recheck", request |-> c.request, initial |-> c.initial,
                      found |-> found]
    OBVIOUS
  <2>3. handlers' = [handlers EXCEPT ![h] = d]
    BY <1>1, <1>5, <2>1, <2>2 DEF Lookup
  <2>4. found \subseteq Contents /\ (c.initial.source = "json" => found = {c.initial.marker})
    BY <1>5, <2>1 DEF IInv, CacheInv, KeyOf
  <2>5. d \in HandlerTypes
    BY <1>3, <2>2, <2>4 DEF HandlerTypes
  <2>6. HandlerOK(d)
    BY <1>2, <2>2, <2>4 DEF HandlerOK, Since
  <2> QED
    BY <1>1, <1>2, <1>4, <2>3, <2>5, <2>6, HandlerRests
<1>6. CASE KeyOf(c.request, c.initial) \notin DOMAIN cache
  <2>1. PICK d : d = [step |-> "run", request |-> c.request, initial |-> c.initial]
    OBVIOUS
  <2>2. [c EXCEPT !.step = "run"] = d
    BY <1>3, <2>1
  <2>3. handlers' = [handlers EXCEPT ![h] = d]
    BY <1>1, <1>6, <2>2 DEF Lookup
  <2>4. d \in HandlerTypes
    BY <1>3, <2>1 DEF HandlerTypes
  <2>5. HandlerOK(d)
    BY <1>2, <2>1 DEF HandlerOK, Since
  <2> QED
    BY <1>1, <1>2, <1>4, <2>3, <2>4, <2>5, HandlerRests
<1> QED
  BY <1>5, <1>6

\* A handler becomes idle.
LEMMA IdleOK == Idle \in HandlerTypes /\ HandlerOK(Idle)
BY DEF Idle, HandlerTypes, HandlerOK

\* A hit is checked again.
LEMMA RecheckStep == ASSUME IInv, NEW h \in Handlers, Recheck(h) PROVE IInv'
<1>1. PICK request, now :
        request = handlers[h].request /\ now = Captured(handlers[h].request)
  OBVIOUS
<1>2. /\ handlers[h].step = "recheck" /\ handlers[h] \in HandlerTypes
      /\ UNCHANGED <<options, upstream, files, indexes, jobs, cache>>
  BY DEF Recheck, IInv, StateInv
<1>3. CacheInv'
  BY <1>2 DEF IInv, CacheInv
<1>4. PICK d : d = [step |-> "run", request |-> request, initial |-> now]
  OBVIOUS
<1>5. \/ handlers' = [handlers EXCEPT ![h] = Idle]
      \/ handlers' = [handlers EXCEPT ![h] = d]
  BY <1>1, <1>4 DEF Recheck
<1>6. request \in Requests
  BY <1>1, <1>2 DEF HandlerTypes
<1>7. /\ now \in SnapshotType /\ Source(request) \in Files
      /\ now.source = Source(request) /\ now.marker = files[Source(request)].content
  BY <1>1, <1>6, Captures DEF IInv
<1>8. d \in HandlerTypes
  BY <1>4, <1>6, <1>7 DEF HandlerTypes
<1>9. HandlerOK(d)
  BY <1>4, <1>7, Numbers DEF IInv, HandlerOK, Since
<1> QED
  BY <1>2, <1>3, <1>5, <1>8, <1>9, IdleOK, HandlerRests

\* The solve is started.
LEMMA RunStep == ASSUME IInv, NEW h \in Handlers, Run(h) PROVE IInv'
<1>1. PICK c : c = handlers[h]
  OBVIOUS
<1>2. /\ c.step = "run" /\ c \in HandlerTypes /\ HandlerOK(c)
      /\ UNCHANGED <<options, upstream, files, indexes, cache>>
      /\ handlers \in [Handlers -> HandlerTypes]
  BY <1>1 DEF Run, IInv, StateInv, HandlersInv
<1>3. /\ c = [step |-> "run", request |-> c.request, initial |-> c.initial]
      /\ c.request \in Requests /\ c.initial \in SnapshotType
  BY <1>2 DEF HandlerTypes
<1>4. PICK d : d = [step |-> "solving", request |-> c.request, initial |-> c.initial]
  OBVIOUS
<1>5. handlers' = [handlers EXCEPT ![h] = d]
  <2>1. [c EXCEPT !.step = "solving"] = d
    BY <1>3, <1>4
  <2> QED
    BY <1>1, <1>2, <2>1 DEF Run
<1>6. PICK waiting : waiting = [NoJob EXCEPT !.phase = "waiting"]
  OBVIOUS
<1>7. /\ waiting \in JobTypes /\ waiting.phase = "waiting"
      /\ waiting.process = NoProcess
  BY <1>6, NoJobs DEF NoJob, JobTypes, Phases
<1>8. PICK row : row = [k \in Keys |-> IF k \in c.request.keys THEN waiting ELSE NoJob]
  OBVIOUS
<1>9. /\ row \in [Keys -> JobTypes] /\ \A k \in Keys : row[k] \in {waiting, NoJob}
      /\ jobs' = [jobs EXCEPT ![h] = row]
  <2>1. row \in [Keys -> JobTypes] /\ \A k \in Keys : row[k] \in {waiting, NoJob}
    BY <1>7, <1>8, NoJobs
  <2>2. jobs' = [jobs EXCEPT ![h] = row]
    BY <1>1, <1>6, <1>8 DEF Run
  <2> QED
    BY <2>1, <2>2
<1>10. d \in HandlerTypes
  BY <1>3, <1>4 DEF HandlerTypes
<1>11. HandlerOK(d)
  BY <1>2, <1>4 DEF HandlerOK, Since
<1>12. JobOK(d, waiting)
  BY <1>4, <1>7 DEF JobOK
<1>13. \A k \in Keys : JobOK(d, row[k]) /\ row[k].phase \notin Work
  BY <1>7, <1>9, <1>12, NoJobs DEF Work
<1>14. CacheInv'
  BY <1>2 DEF IInv, CacheInv
<1> QED
  BY <1>2, <1>5, <1>9, <1>10, <1>11, <1>13, <1>14, HandlerMoves

\* The solver raises.
LEMMA SolveFailsStep == ASSUME IInv, NEW h \in Handlers, SolveFails(h) PROVE IInv'
<1>1. /\ handlers' = [handlers EXCEPT ![h] = Idle] /\ jobs' = Dropped(h)
      /\ UNCHANGED <<options, upstream, files, indexes, cache>>
  BY DEF SolveFails
<1>2. CacheInv'
  BY <1>1 DEF IInv, CacheInv
<1> QED
  BY <1>1, <1>2, IdleOK, HandlerRests

\* The worker ends an abandoned solve.
LEMMA DropAbandonedStep == ASSUME IInv, NEW h \in Handlers, DropAbandoned(h) PROVE IInv'
<1>1. /\ handlers' = [handlers EXCEPT ![h] = Idle] /\ jobs' = Dropped(h)
      /\ UNCHANGED <<options, upstream, files, indexes, cache>>
  BY DEF DropAbandoned
<1>2. CacheInv'
  BY <1>1 DEF IInv, CacheInv
<1> QED
  BY <1>1, <1>2, IdleOK, HandlerRests

\* The deadline passes.
LEMMA TimesOutStep == ASSUME IInv, NEW h \in Handlers, TimesOut(h) PROVE IInv'
<1>1. /\ handlers[h].step \in {"capture", "lookup", "recheck", "run", "solving"}
      /\ UNCHANGED <<options, upstream, files, indexes, cache>>
  BY DEF TimesOut
<1>2. CacheInv'
  BY <1>1 DEF IInv, CacheInv
<1>3. CASE options.worker /\ handlers[h].step = "solving"
  <2>1. PICK c : c = handlers[h]
    OBVIOUS
  <2>2. /\ c.step = "solving" /\ c \in HandlerTypes /\ HandlerOK(c)
        /\ handlers \in [Handlers -> HandlerTypes]
        /\ jobs \in [Handlers -> [Keys -> JobTypes]]
    BY <1>3, <2>1 DEF IInv, StateInv, HandlersInv
  <2>3. /\ c = [step |-> "solving", request |-> c.request, initial |-> c.initial]
        /\ c.request \in Requests /\ c.initial \in SnapshotType
    BY <2>2 DEF HandlerTypes
  <2>4. PICK d : d = [step |-> "gone", request |-> c.request, initial |-> c.initial]
    OBVIOUS
  <2>5. handlers' = [handlers EXCEPT ![h] = d]
    <3>1. [c EXCEPT !.step = "gone"] = d
      BY <2>3, <2>4
    <3> QED
      BY <1>3, <2>1, <2>2, <3>1 DEF TimesOut
  <2>6. PICK row : row = jobs[h]
    OBVIOUS
  <2>7. row \in [Keys -> JobTypes] /\ jobs' = [jobs EXCEPT ![h] = row]
    BY <1>3, <2>2, <2>6 DEF TimesOut
  <2>8. d \in HandlerTypes
    BY <2>3, <2>4 DEF HandlerTypes
  <2>9. HandlerOK(d)
    BY <2>2, <2>4 DEF HandlerOK, Since
  <2>10. \A k \in Keys : JobOK(d, row[k])
    <3> SUFFICES ASSUME NEW k \in Keys PROVE JobOK(d, row[k])
      OBVIOUS
    <3>1. JobOK(c, row[k])
      BY <2>1, <2>6 DEF IInv, JobsInv
    <3> QED
      BY <2>4, <3>1 DEF JobOK
  <2> QED
    BY <1>1, <1>2, <2>5, <2>6, <2>7, <2>8, <2>9, <2>10, HandlerMoves
<1>4. CASE ~(options.worker /\ handlers[h].step = "solving")
  <2>1. handlers' = [handlers EXCEPT ![h] = Idle] /\ jobs' = Dropped(h)
    BY <1>4 DEF TimesOut
  <2> QED
    BY <1>1, <1>2, <2>1, IdleOK, HandlerRests
<1> QED
  BY <1>3, <1>4

\* What an answer was solved from lies between what its handler captured and
\* what is on disk.
LEMMA SolutionBetween ==
  ASSUME IInv, NEW h \in Handlers, HasSolved(h)
  PROVE  /\ Solution(h) # {} /\ Solution(h) \subseteq Contents
         /\ handlers[h].request \in Requests /\ Since(handlers[h])
         /\ handlers[h].initial \in SnapshotType
         /\ Source(handlers[h].request) = "json" =>
               \A c \in Solution(h) : /\ handlers[h].initial.marker <= c
                                      /\ c <= files["json"].content
<1>1. PICK c : c = handlers[h]
  OBVIOUS
<1>2. /\ c.step = "solving" /\ c \in HandlerTypes /\ HandlerOK(c)
      /\ \A k \in c.request.keys : jobs[h][k].phase = "done"
      /\ jobs \in [Handlers -> [Keys -> JobTypes]]
  BY <1>1 DEF HasSolved, IInv, StateInv, HandlersInv
<1>3. c.request \in Requests /\ Since(c) /\ c.initial \in SnapshotType
  BY <1>2 DEF HandlerTypes, HandlerOK
<1>4. c.request.keys \subseteq Keys /\ c.request.keys # {}
  BY <1>3, SolveAssumption DEF SolveAssumption
<1>5. Solution(h) = {jobs[h][k].content : k \in c.request.keys}
  BY <1>1 DEF Solution
<1>6. Solution(h) # {}
  BY <1>4, <1>5
<1>7. ASSUME NEW k \in c.request.keys
      PROVE  /\ jobs[h][k].content \in Contents
             /\ Source(c.request) = "json" => /\ c.initial.marker <= jobs[h][k].content
                                              /\ jobs[h][k].content <= files["json"].content
  <2>1. jobs[h][k] \in JobTypes /\ JobOK(c, jobs[h][k]) /\ jobs[h][k].phase = "done"
    BY <1>1, <1>2, <1>4 DEF IInv, JobsInv
  <2> QED
    BY <1>3, <2>1 DEF JobOK, Since, JobTypes
<1> QED
  BY <1>1, <1>3, <1>5, <1>6, <1>7

\* The result arrives and is remembered.
LEMMA FinishStep == ASSUME IInv, NEW h \in Handlers, Finish(h) PROVE IInv'
<1>1. PICK request, now, initial, solution :
        /\ request = handlers[h].request /\ now = Captured(handlers[h].request)
        /\ initial = handlers[h].initial /\ solution = Solution(h)
  OBVIOUS
<1>2. PICK key : key = KeyOf(request, now)
  OBVIOUS
<1>3. /\ HasSolved(h)
      /\ handlers' = [handlers EXCEPT ![h] = Idle] /\ jobs' = Dropped(h)
      /\ UNCHANGED <<options, upstream, files, indexes>>
  BY DEF Finish
<1>4. /\ solution # {} /\ solution \subseteq Contents /\ request \in Requests
      /\ initial.source = Source(request) /\ initial.marker \in Contents
      /\ Source(request) = "json" =>
            \A c \in solution : initial.marker <= c /\ c <= files["json"].content
  BY <1>1, <1>3, SolutionBetween DEF Since, SnapshotType
<1>5. /\ now.source = Source(request) /\ now.marker = files[Source(request)].content
  BY <1>1, <1>4, Captures DEF IInv
<1>6. CacheInv'
  <2>1. CASE Retained(request, now, initial)
    <3>1. PICK kept \in SUBSET DOMAIN cache :
            cache' = [other \in kept \cup {key} |->
                        IF other = key THEN solution ELSE cache[other]]
      BY <1>1, <1>2, <2>1 DEF Finish
    <3>2. request.retain /\ now.marker = initial.marker
      BY <2>1 DEF Retained
    <3>3. /\ key.request.retain /\ key.source = now.source /\ key.marker = now.marker
      BY <1>2, <3>2 DEF KeyOf
    <3>4. ASSUME key.source = "json" PROVE solution = {key.marker}
      <4>1. \A c \in solution : c \in Nat /\ initial.marker <= c /\ c <= initial.marker
        BY <1>4, <1>5, <3>2, <3>3, <3>4, Numbers DEF IInv
      <4>2. initial.marker \in Nat
        BY <1>4, Numbers DEF IInv
      <4>3. \A c \in solution : c = initial.marker
        BY <4>1, <4>2
      <4> QED
        BY <1>4, <3>2, <3>3, <4>3
    <3>5. \A other \in DOMAIN cache :
             /\ other.request.retain /\ cache[other] \subseteq Contents
             /\ other.source = "json" => cache[other] = {other.marker}
      BY DEF IInv, CacheInv
    <3>6. DOMAIN cache' = kept \cup {key}
      BY <3>1
    <3>7. cache' = [other \in DOMAIN cache' |-> cache'[other]]
      BY <3>1
    <3>8. ASSUME NEW other \in DOMAIN cache'
          PROVE  /\ other.request.retain /\ cache'[other] \subseteq Contents
                 /\ other.source = "json" => cache'[other] = {other.marker}
      <4>1. CASE other = key
        <5>1. cache'[other] = solution
          BY <3>1, <3>6, <4>1
        <5> QED
          BY <1>4, <3>3, <3>4, <4>1, <5>1
      <4>2. CASE other # key
        <5>1. other \in DOMAIN cache /\ cache'[other] = cache[other]
          BY <3>1, <3>6, <4>2
        <5> QED
          BY <3>5, <5>1
      <4> QED
        BY <4>1, <4>2
    <3> QED
      BY <3>7, <3>8 DEF CacheInv
  <2>2. CASE ~Retained(request, now, initial)
    <3>1. cache' = cache
      BY <1>1, <2>2 DEF Finish
    <3> QED
      BY <3>1 DEF IInv, CacheInv
  <2> QED
    BY <2>1, <2>2
<1> QED
  BY <1>3, <1>6, IdleOK, HandlerRests

-----------------------------------------------------------------------------
(* The steps of jobs.                                                       *)

\* A job of a request, and the handler that has it.
LEMMA JobFacts ==
  ASSUME IInv, NEW h \in Handlers, NEW k \in Keys, jobs[h][k].phase # "none"
  PROVE  /\ handlers[h].step \in {"solving", "gone"} /\ handlers[h].request \in Requests
         /\ Since(handlers[h]) /\ handlers[h].initial \in SnapshotType
         /\ Source(handlers[h].request) \in Files
         /\ jobs[h][k] \in JobTypes /\ JobOK(handlers[h], jobs[h][k])
<1>1. /\ handlers[h] \in HandlerTypes /\ HandlerOK(handlers[h])
      /\ jobs[h][k] \in JobTypes /\ JobOK(handlers[h], jobs[h][k])
  BY DEF IInv, StateInv, HandlersInv, JobsInv
<1>2. handlers[h].step \in {"solving", "gone"}
  BY <1>1, NoJobs DEF JobOK
<1>3. handlers[h].request \in Requests /\ handlers[h].initial \in SnapshotType
  BY <1>1, <1>2 DEF HandlerTypes
<1>4. Since(handlers[h])
  BY <1>1, <1>2 DEF HandlerOK
<1> QED
  BY <1>1, <1>2, <1>3, <1>4 DEF Source, Files

\* A job whose phase is set, and its content or its process as well.
LEMMA PhaseSet ==
  ASSUME NEW old \in JobTypes, NEW a
  PROVE  [old EXCEPT !.phase = a]
            = [phase |-> a, process |-> old.process, content |-> old.content]
<1>1. PICK x, y, z : old = [phase |-> x, process |-> y, content |-> z]
  BY DEF JobTypes
<1>2. PICK q : q = [old EXCEPT !.phase = a]
  OBVIOUS
<1>3. q = [phase |-> a, process |-> y, content |-> z]
  BY <1>1, <1>2
<1>4. old.process = y /\ old.content = z
  BY <1>1
<1> QED
  BY <1>2, <1>3, <1>4

LEMMA PhaseAndContentSet ==
  ASSUME NEW old \in JobTypes, NEW a, NEW b
  PROVE  [old EXCEPT !.phase = a, !.content = b]
            = [phase |-> a, process |-> old.process, content |-> b]
<1>1. PICK q : q = [old EXCEPT !.phase = a]
  OBVIOUS
<1>2. q = [phase |-> a, process |-> old.process, content |-> old.content]
  BY <1>1, PhaseSet
<1>3. PICK r : r = [q EXCEPT !.content = b]
  OBVIOUS
<1>4. r = [phase |-> a, process |-> old.process, content |-> b]
  BY <1>2, <1>3
<1>5. [old EXCEPT !.phase = a, !.content = b] = r
  BY <1>1, <1>3
<1> QED
  BY <1>4, <1>5

LEMMA ProcessAndPhaseSet ==
  ASSUME NEW old \in JobTypes, NEW a, NEW b
  PROVE  [old EXCEPT !.process = a, !.phase = b]
            = [phase |-> b, process |-> a, content |-> old.content]
<1>1. PICK x, y, z : old = [phase |-> x, process |-> y, content |-> z]
  BY DEF JobTypes
<1>2. PICK q : q = [old EXCEPT !.process = a]
  OBVIOUS
<1>3. q = [phase |-> x, process |-> a, content |-> z]
  BY <1>1, <1>2
<1>4. PICK r : r = [q EXCEPT !.phase = b]
  OBVIOUS
<1>5. r = [phase |-> b, process |-> a, content |-> z]
  BY <1>3, <1>4
<1>6. [old EXCEPT !.process = a, !.phase = b] = r /\ old.content = z
  BY <1>1, <1>2, <1>4
<1> QED
  BY <1>5, <1>6

\* A job keeps its process.
LEMMA JobSteps ==
  ASSUME IInv, NEW h \in Handlers, NEW k \in Keys, NEW phase \in Phases,
         NEW content \in Contents, JobStep(h, k, phase, content)
  PROVE  \E job \in JobTypes : /\ jobs' = [jobs EXCEPT ![h][k] = job]
                               /\ job.phase = phase /\ job.content = content
                               /\ job.process = jobs[h][k].process
<1>1. PICK old : old = jobs[h][k]
  OBVIOUS
<1>2. jobs \in [Handlers -> [Keys -> JobTypes]] /\ old \in JobTypes
  BY <1>1 DEF IInv, StateInv
<1>3. PICK job : job = [phase |-> phase, process |-> old.process, content |-> content]
  OBVIOUS
<1>4. job \in JobTypes
  BY <1>2, <1>3 DEF JobTypes
<1>5. [old EXCEPT !.phase = phase, !.content = content] = job
  BY <1>2, <1>3, PhaseAndContentSet
<1>6. jobs' = [jobs EXCEPT ![h][k] = job]
  BY <1>1, <1>2, <1>5 DEF JobStep
<1> QED
  BY <1>1, <1>3, <1>4, <1>6

\* One cache changes.
LEMMA IndexMoves ==
  ASSUME IndexesInv, NEW p \in Processes, NEW s, Exact(s), Len(s) <= MaxIndexes,
         indexes' = [indexes EXCEPT ![p] = s]
  PROVE  IndexesInv'
<1>1. s \in Seq(Entries)
  BY DEF Exact
<1>2. indexes' \in [Processes -> Seq(Entries)]
  BY <1>1 DEF IndexesInv
<1>3. ASSUME NEW q \in Processes PROVE Exact(indexes'[q]) /\ Len(indexes'[q]) <= MaxIndexes
  BY DEF IndexesInv
<1> QED
  BY <1>2, <1>3 DEF IndexesInv, Exact

\* Nobody works when a request is dispatched: neither for another handler, nor
\* for another platform of this one, in the only process that solves it.
LEMMA NobodyWorks ==
  ASSUME OnePoolProcess, IInv, NEW h \in Handlers, NEW p \in ProcessesFor(handlers[h].request),
         options.worker, ~Busy(p),
         ~\E g \in Handlers \ {h}, j \in Keys :
             jobs[g][j].process # NoProcess /\ jobs[g][j].phase # "waiting"
  PROVE  \A g \in Handlers, i \in Keys : ~Working(g, i)
<1> SUFFICES ASSUME NEW g \in Handlers, NEW i \in Keys, Working(g, i) PROVE FALSE
  OBVIOUS
<1>1. jobs[g][i].phase \in {"index", "load", "mark"} /\ JobOK(handlers[g], jobs[g][i])
  BY DEF Working, IInv, JobsInv
<1>2. /\ jobs[g][i].process # NoProcess
      /\ jobs[g][i].process \in ProcessesFor(handlers[g].request)
  BY <1>1 DEF JobOK
<1>3. g = h
  BY <1>1, <1>2
<1>4. jobs[g][i].process = p
  BY <1>2, <1>3 DEF ProcessesFor, OnePoolProcess
<1> QED
  BY <1>1, <1>4 DEF Busy

\* A job is dispatched.
LEMMA StartStep ==
  ASSUME OnePoolProcess, IInv, NEW h \in Handlers, NEW k \in Keys, Start(h, k)
  PROVE  IInv'
<1>1. /\ jobs[h][k].phase = "waiting"
      /\ UNCHANGED <<options, upstream, files, indexes, handlers, cache>>
  BY DEF Start
<1>2. PICK c, old : c = handlers[h] /\ old = jobs[h][k]
  OBVIOUS
<1>3. /\ c.step \in {"solving", "gone"} /\ old \in JobTypes /\ JobOK(c, old)
      /\ old.process = NoProcess
  BY <1>1, <1>2, JobFacts DEF JobOK
<1>4. /\ jobs \in [Handlers -> [Keys -> JobTypes]] /\ jobs[h] \in [Keys -> JobTypes]
      /\ options.worker \in BOOLEAN
  BY DEF IInv, StateInv
<1>5. PICK job :
        /\ jobs' = [jobs EXCEPT ![h][k] = job]
        /\ job \in JobTypes
        /\ job.phase \in {"index", "load"}
        /\ job.phase = "index" => options.worker /\ c.request.kind = "plain"
        /\ ~options.worker => job.process = NoProcess
        /\ options.worker => /\ job.process \in ProcessesFor(c.request)
                             /\ \A g \in Handlers, i \in Keys : ~Working(g, i)
  <2>1. CASE ~options.worker
    <3>1. PICK job : job = [old EXCEPT !.phase = "load"]
      OBVIOUS
    <3>2. jobs' = [jobs EXCEPT ![h][k] = job]
      BY <1>2, <2>1, <3>1 DEF Start
    <3>3. job = [phase |-> "load", process |-> NoProcess, content |-> old.content]
      BY <1>3, <3>1, PhaseSet
    <3>4. job \in JobTypes /\ job.phase = "load" /\ job.process = NoProcess
      BY <1>3, <3>3 DEF JobTypes, Phases
    <3> QED
      BY <2>1, <3>2, <3>4
  <2>2. CASE options.worker
    <3>1. PICK p \in ProcessesFor(c.request), phase \in {"index", "load"} :
            /\ ~Busy(p) /\ phase = (IF c.request.kind = "plain" THEN "index" ELSE "load")
            /\ jobs' = [jobs EXCEPT ![h][k] = [old EXCEPT !.process = p, !.phase = phase]]
      BY <1>2, <2>2, Zenon DEF Start, ProcessesFor
    <3>2. PICK job : job = [old EXCEPT !.process = p, !.phase = phase]
      OBVIOUS
    <3>3. job = [phase |-> phase, process |-> p, content |-> old.content]
      BY <1>3, <3>2, ProcessAndPhaseSet
    <3>4. jobs' = [jobs EXCEPT ![h][k] = job]
      BY <3>1, <3>2
    <3>5. ~\E g \in Handlers \ {h}, j \in Keys :
             jobs[g][j].process # NoProcess /\ jobs[g][j].phase # "waiting"
      BY <2>2 DEF Start
    <3>6. \A g \in Handlers, i \in Keys : ~Working(g, i)
      BY <1>2, <2>2, <3>1, <3>5, NobodyWorks
    <3>7. job.phase = phase /\ job.process = p
      BY <3>3
    <3>8. p \in Processes /\ phase \in {"index", "load"}
      BY <3>1 DEF ProcessesFor, Processes
    <3>9. job \in JobTypes
      BY <1>3, <3>3, <3>8 DEF JobTypes, Phases
    <3>10. phase = "index" => c.request.kind = "plain"
      BY <3>1
    <3> QED
      BY <2>2, <3>1, <3>4, <3>6, <3>7, <3>8, <3>9, <3>10, Zenon
  <2> QED
    BY <1>4, <2>1, <2>2
<1>6. options.worker <=> job.process # NoProcess
  BY <1>4, <1>5, SolveAssumption DEF ProcessesFor, SolveAssumption
<1>7. JobOK(handlers[h], job)'
  <2>1. JobOK(c, job)
    BY <1>3, <1>5, <1>6 DEF JobOK
  <2> QED
    BY <1>1, <1>2, <2>1 DEF JobOK
<1>8. IndexesInv'
  BY <1>1 DEF IInv, IndexesInv
<1>9. /\ files' \in [Files -> [content : Contents, expired : BOOLEAN]]
      /\ \A f \in Files : /\ files[f].content <= files'[f].content
                          /\ files'[f].content <= upstream
  BY <1>1, Numbers DEF IInv, StateInv
<1> QED
  BY <1>1, <1>5, <1>7, <1>8, <1>9, JobMoves DEF Work

\* A kept index is found, or has to be loaded.
LEMMA FindIndexStep == ASSUME IInv, NEW h \in Handlers, NEW k \in Keys, FindIndex(h, k) PROVE IInv'
<1>1. PICK c, p : c = handlers[h] /\ p = jobs[h][k].process
  OBVIOUS
<1>2. /\ jobs[h][k].phase = "index"
      /\ UNCHANGED <<options, upstream, files, handlers, cache>>
  BY Zenon DEF FindIndex
<1>3. /\ c.step \in {"solving", "gone"} /\ Since(c) /\ c.initial \in SnapshotType
      /\ jobs[h][k] \in JobTypes /\ JobOK(c, jobs[h][k])
  BY <1>1, <1>2, JobFacts
<1>4. /\ options.worker /\ c.request.kind = "plain" /\ p # NoProcess /\ p \in Processes
      /\ p \in ProcessesFor(c.request)
  BY <1>1, <1>2, <1>3 DEF JobOK, JobTypes
<1>5. Working(h, k)
  BY <1>2 DEF Working
<1>6. /\ IndexesInv /\ Exact(indexes[p]) /\ Len(indexes[p]) <= MaxIndexes
      /\ indexes \in [Processes -> Seq(Entries)] /\ DOMAIN indexes[p] = 1..Len(indexes[p])
  BY <1>4, LenProperties DEF IInv, IndexesInv
<1>7. PICK content \in Contents, phase \in {"done", "load"} :
        /\ JobStep(h, k, phase, content)
        /\ phase = "done" => content = files["json"].content
        /\ IndexesInv'
  <2>1. ASSUME NEW i \in DOMAIN indexes[p], Usable(indexes[p][i]),
               indexes' = [indexes EXCEPT ![p] = Append(RemoveAt(@, i), @[i])],
               JobStep(h, k, "done", indexes[p][i].content)
        PROVE  /\ indexes[p][i].content \in Contents
               /\ indexes[p][i].content = files["json"].content /\ IndexesInv'
    <3>1. PICK e : e = indexes[p][i]
      OBVIOUS
    <3>2. e \in Entries /\ e.content = e.snapshot.marker
      BY <1>6, <3>1, ElementOfSeq DEF Exact
    <3>3. e.content \in Contents /\ e.snapshot \in SnapshotType
      BY <3>2 DEF Entries
    <3>4. Snapshot("json", FALSE) = [e.snapshot EXCEPT !.stale = FALSE]
      BY <2>1, <3>1 DEF Usable
    <3>5. PICK now, then : now = Snapshot("json", FALSE) /\ then = e.snapshot
      OBVIOUS
    <3>6. now = [then EXCEPT !.stale = FALSE] /\ then \in SnapshotType
      BY <3>3, <3>4, <3>5
    <3>7. now.marker = then.marker
      BY <3>6 DEF SnapshotType
    <3>8. now.marker = files["json"].content
      BY <3>5, Snapshots DEF IInv, Files
    <3>9. /\ Exact(Append(RemoveAt(indexes[p], i), indexes[p][i]))
          /\ Len(Append(RemoveAt(indexes[p], i), indexes[p][i])) = Len(indexes[p])
      BY <1>6, ExactMoved
    <3>10. IndexesInv'
      BY <1>4, <1>6, <2>1, <3>9, IndexMoves
    <3> QED
      BY <3>1, <3>2, <3>3, <3>5, <3>7, <3>8, <3>10
  <2>2. ASSUME indexes' = indexes PROVE IndexesInv'
    BY <1>6, <2>2 DEF IndexesInv
  <2>3. 0 \in Contents
    BY Numbers DEF IInv
  <2>4. \/ \E i \in DOMAIN indexes[p] :
              /\ Usable(indexes[p][i])
              /\ indexes' = [indexes EXCEPT ![p] = Append(RemoveAt(@, i), @[i])]
              /\ JobStep(h, k, "done", indexes[p][i].content)
        \/ indexes' = indexes /\ JobStep(h, k, "load", 0)
    BY <1>1, Zenon DEF FindIndex
  <2> QED
    BY <2>1, <2>2, <2>3, <2>4
<1>8. PICK job \in JobTypes : /\ jobs' = [jobs EXCEPT ![h][k] = job]
                              /\ job.phase = phase /\ job.content = content /\ job.process = p
  BY <1>1, <1>7, JobSteps DEF Phases
<1>9. JobOK(handlers[h], job)'
  <2>1. c.initial.source = "json" => c.initial.marker <= files["json"].content
    BY <1>3 DEF Since
  <2>2. c.initial.source = "json" /\ phase = "done" =>
          c.initial.marker <= content /\ content <= files["json"].content
    BY <1>7, <2>1, Numbers DEF IInv, Files
  <2>3. JobOK(c, job)
    BY <1>3, <1>4, <1>7, <1>8, <2>2 DEF JobOK
  <2> QED
    BY <1>1, <1>2, <2>3 DEF JobOK
<1>10. /\ files' \in [Files -> [content : Contents, expired : BOOLEAN]]
       /\ \A f \in Files : /\ files[f].content <= files'[f].content
                           /\ files'[f].content <= upstream
  BY <1>2, Numbers DEF IInv, StateInv
<1> QED
  BY <1>2, <1>5, <1>7, <1>8, <1>9, <1>10, JobMoves, Zenon

\* While a job loads an index, nobody else is about to capture markers.
LEMMA NobodyMarks ==
  ASSUME IInv, NEW h \in Handlers, NEW k \in Keys, jobs[h][k].phase = "load"
  PROVE  \A g \in Handlers, i \in Keys : g # h \/ i # k => jobs[g][i].phase # "mark"
<1> SUFFICES ASSUME NEW g \in Handlers, NEW i \in Keys, g # h \/ i # k, jobs[g][i].phase = "mark"
             PROVE  FALSE
  OBVIOUS
<1>1. options.worker
  BY JobFacts DEF JobOK
<1>2. Working(h, k) /\ Working(g, i)
  BY DEF Working
<1> QED
  BY <1>1, <1>2 DEF IInv, Alone

\* An index is loaded, or cannot be.
LEMMA LoadStep == ASSUME IInv, NEW h \in Handlers, NEW k \in Keys, Load(h, k) PROVE IInv'
<1>1. PICK c, old, source :
        c = handlers[h] /\ old = jobs[h][k] /\ source = Source(handlers[h].request)
  OBVIOUS
<1>2. /\ old.phase = "load" /\ UNCHANGED <<options, upstream, indexes, handlers, cache>>
  BY <1>1 DEF Load
<1>3. /\ c.step \in {"solving", "gone"} /\ Since(c) /\ c.initial \in SnapshotType
      /\ c.initial.source = source /\ source \in Files
      /\ old \in JobTypes /\ JobOK(c, old)
      /\ old.process # NoProcess <=> options.worker
  BY <1>1, <1>2, JobFacts DEF Since, JobOK
<1>4. /\ files \in [Files -> [content : Contents, expired : BOOLEAN]]
      /\ \A f \in Files : files[f].content <= upstream
  BY DEF IInv, StateInv
<1>5. PICK content \in Contents, phase \in {"mark", "done", "failed"} :
        /\ JobStep(h, k, phase, content)
        /\ files' \in [Files -> [content : Contents, expired : BOOLEAN]]
        /\ \A f \in Files : /\ files[f].content <= files'[f].content
                            /\ files'[f].content <= upstream
        /\ phase = "mark" => old.process # NoProcess /\ c.request.kind = "plain"
        /\ phase \in {"mark", "done"} /\ source = "json" => content = files'["json"].content
  <2>1. ASSUME files' = files \/ files' = Fetched(source),
               NEW phase \in {"mark", "done"},
               phase = "mark" => old.process # NoProcess /\ c.request.kind = "plain",
               JobStep(h, k, phase, files'[source].content)
        PROVE  /\ files' \in [Files -> [content : Contents, expired : BOOLEAN]]
               /\ \A f \in Files : /\ files[f].content <= files'[f].content
                                   /\ files'[f].content <= upstream
    <3>1. CASE files' = files
      BY <1>4, <3>1, Numbers DEF IInv
    <3>2. CASE files' = Fetched(source)
      BY <1>3, <3>2, Fetches DEF IInv
    <3> QED
      BY <2>1, <3>1, <3>2
  <2>2. ASSUME files' = [Fetched("json") EXCEPT !["shards"].expired = FALSE]
        PROVE  /\ files' \in [Files -> [content : Contents, expired : BOOLEAN]]
               /\ \A f \in Files : /\ files[f].content <= files'[f].content
                                   /\ files'[f].content <= upstream
    <3>1. PICK fetched : fetched = Fetched("json")
      OBVIOUS
    <3>2. /\ fetched \in [Files -> [content : Contents, expired : BOOLEAN]]
          /\ \A f \in Files : /\ files[f].content <= fetched[f].content
                              /\ fetched[f].content <= upstream
      BY <3>1, Fetches DEF IInv, Files
    <3>3. files' = [fetched EXCEPT !["shards"].expired = FALSE]
      BY <2>2, <3>1
    <3>4. /\ files' \in [Files -> [content : Contents, expired : BOOLEAN]]
          /\ \A f \in Files : files'[f].content = fetched[f].content
      BY <3>2, <3>3 DEF Files
    <3> QED
      BY <3>2, <3>4
  <2>3. CASE /\ files' = files \/ files' = Fetched(source)
             /\ \E phase \in {"mark", "done"} :
                   /\ phase = "mark" => old.process # NoProcess /\ c.request.kind = "plain"
                   /\ JobStep(h, k, phase, files'[source].content)
    BY <1>3, <2>1, <2>3
  <2>4. CASE /\ source = "shards"
             /\ files' = [Fetched("json") EXCEPT !["shards"].expired = FALSE]
             /\ JobStep(h, k, "done", files'["json"].content)
    BY <2>2, <2>4 DEF Files
  <2>5. CASE files' = files /\ JobStep(h, k, "failed", 0)
    BY <1>4, <2>5, Numbers DEF IInv
  <2> QED
    BY <1>1, <2>3, <2>4, <2>5 DEF Load
<1>6. PICK job \in JobTypes :
        /\ jobs' = [jobs EXCEPT ![h][k] = job]
        /\ job.phase = phase /\ job.content = content /\ job.process = old.process
  BY <1>1, <1>5, JobSteps DEF Phases
<1>7. JobOK(handlers[h], job)'
  <2>1. phase = "mark" => source = "json"
    BY <1>1, <1>5 DEF Source
  <2>2. PICK j1 : j1 = files'["json"].content
    OBVIOUS
  <2>3. c.initial.source = "json" => c.initial.marker <= files["json"].content
    BY <1>3 DEF Since
  <2>4. /\ j1 \in Nat /\ files["json"].content \in Nat /\ files["json"].content <= j1
        /\ c.initial.marker \in Nat
    BY <1>3, <1>5, <2>2, Numbers DEF IInv, Files, SnapshotType
  <2>5. c.initial.source = "json" /\ phase = "done" => c.initial.marker <= content /\ content <= j1
    BY <1>3, <1>5, <2>2, <2>3, <2>4
  <2>6. phase = "mark" => content = j1
    BY <1>5, <2>1, <2>2
  <2> QED
    BY <1>1, <1>2, <1>3, <1>5, <1>6, <2>2, <2>5, <2>6 DEF JobOK
<1>8. IndexesInv'
  BY <1>2 DEF IInv, IndexesInv
<1>9. \A g \in Handlers, i \in Keys : g # h \/ i # k => jobs[g][i].phase # "mark"
  BY <1>1, <1>2, NobodyMarks
<1>10. Working(h, k)
  BY <1>1, <1>2 DEF Working
<1> QED
  BY <1>2, <1>5, <1>6, <1>7, <1>8, <1>9, <1>10, JobMoves

\* The markers are captured and the index kept.
LEMMA MarkStep == ASSUME IInv, NEW h \in Handlers, NEW k \in Keys, Mark(h, k) PROVE IInv'
<1>1. PICK c, old, p : c = handlers[h] /\ old = jobs[h][k] /\ p = jobs[h][k].process
  OBVIOUS
<1>2. old.phase = "mark" /\ UNCHANGED <<options, upstream, files, handlers, cache>>
  BY <1>1 DEF Mark
<1>3. /\ c.step \in {"solving", "gone"} /\ Since(c) /\ c.initial \in SnapshotType
      /\ old \in JobTypes /\ JobOK(c, old) /\ p \in Processes /\ p # NoProcess
      /\ old.content = files["json"].content /\ old.content \in Contents
  BY <1>1, <1>2, JobFacts DEF JobOK, JobTypes
<1>4. PICK e : e = [key |-> k, content |-> old.content, snapshot |-> Snapshot("json", FALSE)]
  OBVIOUS
<1>5. e \in Entries /\ e.content = e.snapshot.marker /\ e.key = k
  BY <1>3, <1>4, Snapshots DEF IInv, Entries, Files
<1>6. IndexesInv'
  <2>1. PICK s : s = indexes[p]
    OBVIOUS
  <2>2. Exact(s) /\ IndexesInv
    BY <1>3, <2>1 DEF IInv, IndexesInv
  <2>3. PICK r : r = Kept(Append(Others(s, e.key), e))
    OBVIOUS
  <2>4. Exact(r) /\ Len(r) <= MaxIndexes
    BY <1>5, <2>2, <2>3, ExactKept
  <2>5. indexes' = [indexes EXCEPT ![p] = r]
    BY <1>1, <1>4, <1>5, <2>1, <2>3 DEF Mark
  <2> QED
    BY <1>3, <2>2, <2>4, <2>5, IndexMoves
<1>7. JobStep(h, k, "done", old.content)
  BY <1>1 DEF Mark
<1>8. PICK job \in JobTypes :
        /\ jobs' = [jobs EXCEPT ![h][k] = job]
        /\ job.phase = "done" /\ job.content = old.content /\ job.process = p
  BY <1>1, <1>3, <1>7, JobSteps DEF Phases
<1>9. JobOK(handlers[h], job)'
  <2>1. c.initial.source = "json" => c.initial.marker <= files["json"].content
    BY <1>3 DEF Since
  <2>2. files["json"].content <= files["json"].content
    BY Numbers DEF IInv, Files
  <2>3. JobOK(c, job)
    BY <1>1, <1>2, <1>3, <1>8, <2>1, <2>2 DEF JobOK
  <2> QED
    BY <1>1, <1>2, <2>3 DEF JobOK
<1>10. /\ files' \in [Files -> [content : Contents, expired : BOOLEAN]]
       /\ \A f \in Files : /\ files[f].content <= files'[f].content
                           /\ files'[f].content <= upstream
  BY <1>2, Numbers DEF IInv, StateInv
<1>11. Working(h, k)
  BY <1>1, <1>2 DEF Working
<1> QED
  BY <1>2, <1>6, <1>8, <1>9, <1>10, <1>11, JobMoves

-----------------------------------------------------------------------------
(* The steps of the metadata.                                               *)

\* The channel publishes.
LEMMA PublishStep == ASSUME IInv, Publish PROVE IInv'
<1>1. /\ upstream < MaxContent /\ upstream' = upstream + 1
      /\ UNCHANGED <<options, files, indexes, jobs, handlers, cache>>
  BY DEF Publish
<1>2. upstream' \in Contents /\ upstream <= upstream'
  BY <1>1, SolveAssumption DEF IInv, StateInv, Contents, SolveAssumption
<1>3. /\ files' \in [Files -> [content : Contents, expired : BOOLEAN]]
      /\ \A f \in Files : files'[f].content = files[f].content
  BY <1>1 DEF IInv, StateInv
<1> QED
  BY <1>1, <1>2, <1>3, MetadataMoves

\* The lifetime of a file ends.
LEMMA AgeStep == ASSUME IInv, Age PROVE IInv'
<1>1. PICK f \in Files : files' = [files EXCEPT ![f].expired = TRUE]
  BY DEF Age
<1>2. UNCHANGED <<options, upstream, indexes, jobs, handlers, cache>>
  BY DEF Age
<1>3. /\ files' \in [Files -> [content : Contents, expired : BOOLEAN]]
      /\ \A g \in Files : files'[g].content = files[g].content
  BY <1>1 DEF IInv, StateInv
<1>4. upstream' \in Contents /\ upstream <= upstream'
  BY <1>2, Numbers DEF IInv, StateInv
<1> QED
  BY <1>2, <1>3, <1>4, MetadataMoves

-----------------------------------------------------------------------------
(* The specification.                                                       *)

LEMMA IInvInit == Init => IInv
<1> SUFFICES ASSUME Init PROVE IInv
  OBVIOUS
<1>1. 0 \in Contents /\ 1 \in Contents
  BY SolveAssumption DEF Contents, SolveAssumption
<1>2. NoJob \in JobTypes /\ NoJob.phase = "none" /\ NoJob.process = NoProcess
  BY <1>1 DEF NoJob, JobTypes, Phases
<1>3. \A h \in Handlers : handlers[h] = [step |-> "idle"]
  BY DEF Init
<1>4. \A h \in Handlers, k \in Keys : jobs[h][k] = NoJob
  BY DEF Init
<1>5. StateInv
  <2>1. jobs \in [Handlers -> [Keys -> JobTypes]]
    BY <1>2 DEF Init
  <2>2. handlers \in [Handlers -> HandlerTypes]
    BY DEF Init, HandlerTypes
  <2> QED
    BY <1>1, <2>1, <2>2 DEF Init, StateInv
<1>6. IndexesInv
  <2>1. <<>> \in Seq(Entries) /\ Len(<<>>) = 0
    BY EmptySeq
  <2>2. Exact(<<>>)
    BY <2>1 DEF Exact
  <2> QED
    BY <2>1, <2>2, SolveAssumption DEF Init, IndexesInv, SolveAssumption
<1>7. HandlersInv
  BY <1>3 DEF HandlersInv, HandlerOK
<1>8. JobsInv
  BY <1>2, <1>4 DEF JobsInv, JobOK
<1>9. Alone
  BY <1>2, <1>4 DEF Alone, Working
<1>10. CacheInv
  BY DEF Init, CacheInv
<1> QED
  BY <1>5, <1>6, <1>7, <1>8, <1>9, <1>10 DEF IInv

LEMMA IInvStep == ASSUME OnePoolProcess, IInv, [Next]_vars PROVE IInv'
<1>1. CASE UNCHANGED vars
  BY <1>1 DEF vars, IInv, StateInv, IndexesInv, HandlersInv, HandlerOK, Since, Source,
              JobsInv, JobOK, Alone, Working, CacheInv
<1>2. CASE Publish \/ Age
  BY <1>2, PublishStep, AgeStep
<1>3. ASSUME NEW h \in Handlers,
             \/ Arrive(h) \/ Capture(h) \/ Lookup(h) \/ Recheck(h) \/ Run(h)
             \/ SolveFails(h) \/ Finish(h) \/ TimesOut(h) \/ DropAbandoned(h)
      PROVE  IInv'
  BY <1>3, ArriveStep, CaptureStep, LookupStep, RecheckStep, RunStep, SolveFailsStep,
     FinishStep, TimesOutStep, DropAbandonedStep
<1>4. ASSUME NEW h \in Handlers, NEW k \in Keys,
             Start(h, k) \/ FindIndex(h, k) \/ Load(h, k) \/ Mark(h, k)
      PROVE  IInv'
  BY <1>4, StartStep, FindIndexStep, LoadStep, MarkStep
<1> QED
  BY <1>1, <1>2, <1>3, <1>4 DEF Next

LEMMA IInvAlways == ASSUME OnePoolProcess PROVE Spec => []IInv
<1>1. IInv /\ [Next]_vars => IInv'
  BY IInvStep
<1> QED
  BY <1>1, IInvInit, PTL DEF Spec

\* What the invariant says of the properties.
LEMMA IInvType == IInv => TypeOK
<1> SUFFICES ASSUME IInv PROVE TypeOK
  OBVIOUS
<1>1. ASSUME NEW p \in Processes
      PROVE  /\ Len(indexes[p]) <= MaxIndexes
             /\ IsInjective([i \in DOMAIN indexes[p] |-> indexes[p][i].key])
             /\ \A i \in DOMAIN indexes[p] : indexes[p][i].snapshot \in SnapshotType
  <2>1. PICK s : s = indexes[p]
    OBVIOUS
  <2>2. Exact(s) /\ Len(s) <= MaxIndexes /\ s \in Seq(Entries)
    BY <2>1 DEF IInv, IndexesInv, Exact
  <2>3. DOMAIN s = 1..Len(s)
    BY <2>2, LenProperties
  <2>4. IsInjective([i \in DOMAIN s |-> s[i].key])
    <3>1. PICK f : f = [i \in DOMAIN s |-> s[i].key]
      OBVIOUS
    <3>2. DOMAIN f = 1..Len(s) /\ \A i \in 1..Len(s) : f[i] = s[i].key
      BY <2>3, <3>1
    <3>3. \A i, j \in DOMAIN f : f[i] = f[j] => i = j
      BY <2>2, <3>2 DEF Exact
    <3> QED
      BY <3>1, <3>3 DEF IsInjective
  <2>5. \A i \in DOMAIN s : s[i].snapshot \in SnapshotType
    <3>1. \A i \in DOMAIN s : s[i] \in Entries
      BY <2>2, <2>3, ElementOfSeq
    <3> QED
      BY <3>1 DEF Entries
  <2> QED
    BY <2>1, <2>2, <2>4, <2>5
<1>2. \A key \in DOMAIN cache : key.request.retain /\ cache[key] \subseteq Contents
  BY DEF IInv, CacheInv
<1>3. /\ options \in [worker : BOOLEAN, useIndexCache : BOOLEAN, sharded : BOOLEAN]
      /\ upstream \in Contents
      /\ files \in [Files -> [content : Contents, expired : BOOLEAN]]
  BY DEF IInv, StateInv
<1> QED
  BY <1>1, <1>2, <1>3 DEF TypeOK

LEMMA IInvRetained == IInv => RetainedIsExact
BY DEF IInv, CacheInv, RetainedIsExact

LEMMA IInvCurrent == IInv => AnswersAreCurrent
<1> SUFFICES ASSUME IInv, NEW h \in Handlers,
                    handlers[h].step \in {"recheck", "solving"},
                    Source(handlers[h].request) = "json"
             PROVE  /\ handlers[h].step = "recheck" =>
                          ~\E c \in handlers[h].found : c < handlers[h].initial.marker
                    /\ HasSolved(h) => ~\E c \in Solution(h) : c < handlers[h].initial.marker
  BY DEF AnswersAreCurrent
<1>1. PICK d : d = handlers[h]
  OBVIOUS
<1>2. d \in HandlerTypes /\ HandlerOK(d) /\ d.step \in {"recheck", "solving"}
  BY <1>1 DEF IInv, StateInv, HandlersInv
<1>3. d.initial.source = "json" /\ d.initial \in SnapshotType
  BY <1>1, <1>2 DEF HandlerOK, Since, HandlerTypes
<1>4. d.initial.marker \in Nat
  BY <1>3, Numbers DEF IInv, SnapshotType
<1>5. ASSUME d.step = "recheck" PROVE ~\E c \in d.found : c < d.initial.marker
  BY <1>2, <1>3, <1>4, <1>5 DEF HandlerOK
<1>6. ASSUME HasSolved(h) PROVE ~\E c \in Solution(h) : c < d.initial.marker
  <2>1. Solution(h) \subseteq Nat /\ \A c \in Solution(h) : d.initial.marker <= c
    BY <1>1, <1>6, SolutionBetween, Numbers DEF IInv
  <2> QED
    BY <1>4, <2>1
<1> QED
  BY <1>1, <1>5, <1>6

\* The types of the freshness model: the index caches stay within their limit,
\* one entry for each key.
THEOREM FreshTypeCorrect == ASSUME OnePoolProcess PROVE Spec => []TypeOK
<1> QED
  BY IInvAlways, IInvType, PTL

\* A result retained under markers of repodata.json was solved from exactly the
\* metadata that they name (run_cached_solve, build_index).
THEOREM RetainedExact == ASSUME OnePoolProcess PROVE Spec => []RetainedIsExact
<1> QED
  BY IInvAlways, IInvRetained, PTL

\* No answer rests on repodata.json older than what was on disk when its request
\* was captured.
THEOREM AnswersCurrent == ASSUME OnePoolProcess PROVE Spec => []AnswersAreCurrent
<1> QED
  BY IInvAlways, IInvCurrent, PTL

=============================================================================
