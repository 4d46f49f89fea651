---------------------------- MODULE CachedSolve -----------------------------
(***************************************************************************)
(* The freshness of retained results: run_cached_solve (app.py), the       *)
(* repodata snapshots and the index cache of build_index (resolve.py), and *)
(* the request keys of cache.py.                                           *)
(*                                                                         *)
(* A result is kept under a key that contains the markers of the metadata  *)
(* files on disk; the solve reads an index that some solver process loaded *)
(* from these files, possibly for an earlier request.  Handlers, solver    *)
(* processes, the channel and the clock interleave.  A content is a number *)
(* that grows with each publication of the channel, and the marker of a    *)
(* file, its size and timestamps, stands for the content that was written. *)
(***************************************************************************)
EXTENDS Naturals, Sequences, SequencesExt, FiniteSets

CONSTANTS
    Handlers,
    Keys,           \* pairs of channels and platform, sharing a noarch subdir
    Requests,       \* [kind : {"plain", "workspace"}, keys, retain]
    Main,           \* the solver process of the persistent worker
    Pool,           \* its pool processes, for requests of several platforms
    MaxIndexes,     \* MAX_INDEX_CACHE_ENTRIES
    MaxResults,     \* the capacity of the result cache
    MaxContent,     \* bound on publications
    NoProcess

ASSUME SolveAssumption ==
    /\ Requests \subseteq [kind : {"plain", "workspace"},
                           keys : (SUBSET Keys) \ {{}}, retain : BOOLEAN]
    /\ MaxIndexes \in Nat /\ MaxResults \in Nat \ {0} /\ MaxContent \in Nat \ {0}
    /\ Main \notin Pool /\ NoProcess \notin Pool \cup {Main}

Contents == 0..MaxContent     \* 0: there is no file
Processes == {Main} \cup Pool

VARIABLES
    options,   \* how the server runs: worker, use_index_cache, sharded channels
    upstream,  \* what the channel publishes
    files,     \* the metadata on disk: content, and whether its lifetime is over
    indexes,   \* index_cache of each solver process, least recently used first
    jobs,      \* the solve of each handler's request for each key
    handlers,  \* the request, the step and what it has captured
    cache      \* retained results: what each was solved from, by request and marker

vars == <<options, upstream, files, indexes, jobs, handlers, cache>>

Files == {"json", "shards"}
NoJob == [phase |-> "none", process |-> NoProcess, content |-> 0]

Init ==
    /\ options \in [worker : BOOLEAN, useIndexCache : BOOLEAN, sharded : BOOLEAN]
    /\ upstream = 1
    /\ files = [f \in Files |-> [content |-> 0, expired |-> FALSE]]
    /\ indexes = [p \in Processes |-> <<>>]
    /\ jobs = [h \in Handlers |-> [k \in Keys |-> NoJob]]
    /\ handlers = [h \in Handlers |-> [step |-> "idle"]]
    /\ cache = [k \in {} |-> {}]

-----------------------------------------------------------------------------
(* Metadata.                                                                *)

\* Plain solves use repodata.json, workspace solves shards where there are any.
Source(request) ==
    IF request.kind = "workspace" /\ options.sharded THEN "shards" ELSE "json"

\* RepodataSnapshot.capture
Snapshot(file, useIndexCache) ==
    [source |-> file,
     marker |-> files[file].content,
     stale  |-> \/ files[file].content = 0
                \/ files[file].expired /\ (file = "shards" \/ ~useIndexCache)]

\* repodata_options applies to workspace solves; plain ones use the defaults.
Captured(request) ==
    Snapshot(Source(request), request.kind = "workspace" /\ options.useIndexCache)

\* is_cacheable_after: a fetch of shards can have fallen back to JSON.
CacheableAfter(now, previous) ==
    /\ ~now.stale
    /\ ~ (previous.stale /\ now.source = "shards" /\ now.marker = previous.marker)

\* Reading a metadata file fetches it when it is missing or too old.
Fetched(file) ==
    IF files[file].content = 0 \/ files[file].expired
    THEN [files EXCEPT ![file] = [content |-> upstream, expired |-> FALSE]]
    ELSE files

Publish ==
    /\ upstream < MaxContent
    /\ upstream' = upstream + 1
    /\ UNCHANGED <<options, files, indexes, jobs, handlers, cache>>

Age ==
    /\ \E f \in Files :
          /\ files[f].content # 0 /\ ~files[f].expired
          /\ files' = [files EXCEPT ![f].expired = TRUE]
    /\ UNCHANGED <<options, upstream, indexes, jobs, handlers, cache>>

-----------------------------------------------------------------------------
(* Solver processes.                                                        *)

JobStep(h, k, phase, content) ==
    jobs' = [jobs EXCEPT ![h][k] = [@ EXCEPT !.phase = phase, !.content = content]]

Busy(p) == \E h \in Handlers, k \in Keys :
              jobs[h][k].process = p /\ jobs[h][k].phase \notin {"done", "failed"}

Others(entries, k) ==
    IF \E i \in DOMAIN entries : entries[i].key = k
    THEN RemoveAt(entries, CHOOSE i \in DOMAIN entries : entries[i].key = k)
    ELSE entries

\* dispatch: one platform is solved by the worker itself, several in its pool.
Start(h, k) ==
    LET request == handlers[h].request IN
    /\ jobs[h][k].phase = "waiting"
    /\ IF ~options.worker
       THEN jobs' = [jobs EXCEPT ![h][k] = [@ EXCEPT !.phase = "load"]]
       ELSE /\ \E p \in IF Cardinality(request.keys) = 1 \/ request.kind = "workspace"
                        THEN {Main} ELSE Pool :
                  /\ ~Busy(p)
                  /\ jobs' = [jobs EXCEPT ![h][k] = [@ EXCEPT !.process = p,
                         !.phase = IF request.kind = "plain" THEN "index" ELSE "load"]]
            /\ ~\E g \in Handlers \ {h}, j \in Keys :
                  jobs[g][j].process # NoProcess /\ jobs[g][j].phase # "waiting"
    /\ UNCHANGED <<options, upstream, files, indexes, handlers, cache>>

\* Mutant: a cached index is used without a look at the metadata.
UsableAlways(e) == TRUE

\* The markers of a cached index are those of metadata that is still fresh.
Usable(e) == Snapshot("json", FALSE) = [e.snapshot EXCEPT !.stale = FALSE]

\* build_index: the cached index, or the decision to load or reload it.
FindIndex(h, k) ==
    LET p      == jobs[h][k].process
        Hit(i) == indexes[p][i].key = k /\ Usable(indexes[p][i])
    IN  /\ jobs[h][k].phase = "index"
        /\ \/ \E i \in DOMAIN indexes[p] :
                 /\ Hit(i)
                 /\ indexes' = [indexes EXCEPT ![p] = Append(RemoveAt(@, i), @[i])]
                 /\ JobStep(h, k, "done", indexes[p][i].content)
           \/ /\ ~\E i \in DOMAIN indexes[p] : Hit(i)
              /\ indexes' = indexes
              /\ JobStep(h, k, "load", 0)
        /\ UNCHANGED <<options, upstream, files, handlers, cache>>

\* The index is loaded, by a plain solve from JSON, by a workspace solve from
\* its own source; without a network the solve fails.
Load(h, k) ==
    LET request == handlers[h].request
        source  == Source(request)
        cached  == jobs[h][k].process # NoProcess /\ request.kind = "plain"
        kept    == request.kind = "workspace" /\ options.useIndexCache
    IN  /\ jobs[h][k].phase = "load"
        /\ \/ /\ files' = IF kept /\ source = "json" /\ files[source].content # 0
                          THEN files ELSE Fetched(source)
              /\ JobStep(h, k, IF cached THEN "mark" ELSE "done",
                         files'[source].content)
           \/ /\ source = "shards"
              /\ files["shards"].expired
              /\ files' = [Fetched("json") EXCEPT !["shards"].expired = FALSE]
              /\ JobStep(h, k, "done", files'["json"].content)
           \/ /\ files' = files
              /\ JobStep(h, k, "failed", 0)
        /\ UNCHANGED <<options, upstream, indexes, handlers, cache>>

\* Mutant: the loop that makes room is missing.
KeptAll(entries) == entries

\* Only the most recently used entries stay.
Kept(entries) ==
    SubSeq(entries, IF Len(entries) > MaxIndexes THEN Len(entries) - MaxIndexes + 1 ELSE 1,
           Len(entries))

\* The markers are captured and the index kept, in place of the oldest.
Mark(h, k) ==
    LET p == jobs[h][k].process IN
    /\ jobs[h][k].phase = "mark"
    /\ indexes' = [indexes EXCEPT ![p] =
          Kept(Append(Others(@, k), [key |-> k, content |-> jobs[h][k].content,
                                     snapshot |-> Snapshot("json", FALSE)]))]
    /\ JobStep(h, k, "done", jobs[h][k].content)
    /\ UNCHANGED <<options, upstream, files, handlers, cache>>

Idle == [step |-> "idle"]
Dropped(h) == [jobs EXCEPT ![h] = [k \in Keys |-> NoJob]]

\* The worker ends a solve whose handler went away.
DropAbandoned(h) ==
    /\ handlers[h].step = "gone"
    /\ \A k \in Keys : jobs[h][k].phase \in {"none", "done", "failed", "waiting"}
    /\ jobs' = Dropped(h)
    /\ handlers' = [handlers EXCEPT ![h] = Idle]
    /\ UNCHANGED <<options, upstream, files, indexes, cache>>

-----------------------------------------------------------------------------
(* run_cached_solve.                                                        *)

Arrive(h) ==
    /\ handlers[h] = Idle
    /\ \E request \in Requests :
          /\ options.worker => \/ Cardinality(request.keys) = 1
                               \/ request.kind = "workspace"
                               \/ Pool # {}
          /\ handlers' = [handlers EXCEPT ![h] =
                             [step |-> "capture", request |-> request]]
    /\ UNCHANGED <<options, upstream, files, indexes, jobs, cache>>

KeyOf(request, snapshot) == [request |-> request, source |-> snapshot.source,
                             marker |-> snapshot.marker]

Capture(h) ==
    LET request  == handlers[h].request
        snapshot == Captured(request)
    IN  /\ handlers[h].step = "capture"
        /\ handlers' = [handlers EXCEPT ![h] =
              [step |-> IF request.retain /\ ~snapshot.stale THEN "lookup" ELSE "run",
               request |-> request, initial |-> snapshot]]
        /\ UNCHANGED <<options, upstream, files, indexes, jobs, cache>>

Lookup(h) ==
    LET key == KeyOf(handlers[h].request, handlers[h].initial) IN
    /\ handlers[h].step = "lookup"
    /\ handlers' = [handlers EXCEPT ![h] =
          IF key \in DOMAIN cache
          THEN [step |-> "recheck", request |-> @.request, initial |-> @.initial,
                found |-> cache[key]]
          ELSE [@ EXCEPT !.step = "run"]]
    /\ UNCHANGED <<options, upstream, files, indexes, jobs, cache>>

\* A hit is served if the metadata is still fresh and the same.
SameMetadata(now, before) == ~now.stale /\ now.marker = before.marker

Recheck(h) ==
    LET now == Captured(handlers[h].request) IN
    /\ handlers[h].step = "recheck"
    /\ IF SameMetadata(now, handlers[h].initial)
       THEN handlers' = [handlers EXCEPT ![h] = Idle]
       ELSE handlers' = [handlers EXCEPT ![h] = [step |-> "run", request |-> @.request,
                                                 initial |-> now]]
    /\ UNCHANGED <<options, upstream, files, indexes, jobs, cache>>

\* run_solve: by the worker or in a process of its own.
Run(h) ==
    /\ handlers[h].step = "run"
    /\ handlers' = [handlers EXCEPT ![h].step = "solving"]
    /\ jobs' = [jobs EXCEPT ![h] =
          [k \in Keys |-> IF k \in handlers[h].request.keys
                          THEN [NoJob EXCEPT !.phase = "waiting"]
                          ELSE NoJob]]
    /\ UNCHANGED <<options, upstream, files, indexes, cache>>

\* The solver raises, on the index or without one.
SolveFails(h) ==
    /\ handlers[h].step = "solving"
    /\ \A k \in handlers[h].request.keys : jobs[h][k].phase \in {"done", "failed"}
    /\ handlers' = [handlers EXCEPT ![h] = Idle]
    /\ jobs' = Dropped(h)
    /\ UNCHANGED <<options, upstream, files, indexes, cache>>

\* Mutant: a result is kept under the markers captured after the solve only.
RetainedUnchanged(request, now, initial) == request.retain /\ CacheableAfter(now, initial)

\* Which results are retained.
Retained(request, now, initial) ==
    request.retain /\ now.marker = initial.marker /\ CacheableAfter(now, initial)

HasSolved(h) ==
    /\ handlers[h].step = "solving"
    /\ \A k \in handlers[h].request.keys : jobs[h][k].phase = "done"

Solution(h) == {jobs[h][k].content : k \in handlers[h].request.keys}

\* The result arrives, the metadata is captured again, and it is remembered.
Finish(h) ==
    LET request == handlers[h].request
        now     == Captured(request)
        key     == KeyOf(request, now)
    IN  /\ HasSolved(h)
        /\ handlers' = [handlers EXCEPT ![h] = Idle]
        /\ IF Retained(request, now, handlers[h].initial)
           THEN \E kept \in SUBSET DOMAIN cache :
                  /\ Cardinality(kept \ {key}) < MaxResults
                  /\ cache' = [other \in kept \cup {key} |->
                                 IF other = key THEN Solution(h) ELSE cache[other]]
           ELSE cache' = cache
        /\ jobs' = Dropped(h)
        /\ UNCHANGED <<options, upstream, files, indexes>>

\* The deadline passes: a process of its own is killed, the worker goes on.
TimesOut(h) ==
    /\ handlers[h].step \in {"capture", "lookup", "recheck", "run", "solving"}
    /\ LET goesOn == options.worker /\ handlers[h].step = "solving" IN
       /\ handlers' = [handlers EXCEPT ![h] = IF goesOn THEN [@ EXCEPT !.step = "gone"]
                                              ELSE Idle]
       /\ jobs' = IF goesOn THEN jobs ELSE Dropped(h)
    /\ UNCHANGED <<options, upstream, files, indexes, cache>>

Next ==
    \/ Publish \/ Age
    \/ \E h \in Handlers :
          \/ Arrive(h) \/ Capture(h) \/ Lookup(h) \/ Recheck(h) \/ Run(h)
          \/ SolveFails(h) \/ Finish(h) \/ TimesOut(h) \/ DropAbandoned(h)
          \/ \E k \in Keys : Start(h, k) \/ FindIndex(h, k) \/ Load(h, k) \/ Mark(h, k)

Spec == Init /\ [][Next]_vars

-----------------------------------------------------------------------------
(* Properties.                                                              *)

SnapshotType == [source : Files, marker : Contents, stale : BOOLEAN]

\* The index caches stay within their limit, one entry for each key, and a
\* retained result names its request.
TypeOK ==
    /\ options \in [worker : BOOLEAN, useIndexCache : BOOLEAN, sharded : BOOLEAN]
    /\ upstream \in Contents
    /\ files \in [Files -> [content : Contents, expired : BOOLEAN]]
    /\ \A p \in Processes :
          /\ Len(indexes[p]) <= MaxIndexes
          /\ IsInjective([i \in DOMAIN indexes[p] |-> indexes[p][i].key])
          /\ \A i \in DOMAIN indexes[p] : indexes[p][i].snapshot \in SnapshotType
    /\ \A key \in DOMAIN cache : key.request.retain /\ cache[key] \subseteq Contents

\* app.py:1185: "Recompute so refreshed repodata and the worker's index agree."
\* A result retained under markers of repodata.json was solved from exactly the
\* metadata that they name, on every platform, however publications, expiry and
\* other solves, abandoned ones included, interleave with it.
RetainedIsExact ==
    \A key \in DOMAIN cache : key.source = "json" => cache[key] = {key.marker}

\* No answer from repodata.json, by an index kept in the worker or by the result
\* cache, rests on metadata older than what was on disk when the request was
\* captured.
AnswersAreCurrent ==
    \A h \in Handlers :
        /\ handlers[h].step \in {"recheck", "solving"}
        /\ Source(handlers[h].request) = "json"
        => LET isOld(c) == c < handlers[h].initial.marker IN
           /\ handlers[h].step = "recheck" => ~\E c \in handlers[h].found : isOld(c)
           /\ HasSolved(h) => ~\E c \in Solution(h) : isOld(c)

=============================================================================
