# A TLA+ model of conda-presto

conda-presto answers conda solves over HTTP and on the command line. Its core
is a server process that hands solves to a child process, keeps results in a
cache in front of an optional shared store, and must stay correct while
requests time out, children die and hang, threads share conda's global
settings, and replicas write to the same store. Around it are the rules by
which a request is admitted, its file parsed, its targets selected and its
output refused or sent. The modules here model both, TLC checks them on small
instances, and TLAPS proves the most important properties for every instance.
Everything is translated from `src/conda_presto/`; line numbers in comments are
lines of the file that the module's header names.

## 1. Inventory

| Component | State it keeps | Operations | How it interacts | Modules |
|---|---|---|---|---|
| Persistent solve worker (`worker.py`) | pipe, process handle, `is_ready`, shutdown event, restart thread, one reentrant lock | `start`, `execute`, `stop`, `restart`, `recover_if_stopped`, `shutdown`; the child's loop | one thread per HTTP solve, one per `/health` recovery, the lifespan; a child over a pipe | `PersistentWorker` |
| Store operation coordinator (`storage.py`) | one-place stream, consumer task, stop event | `lifespan`, `submit`, `run`, `cleanup_expired` | tasks of the event loop; Litestar's file or Redis store | `StoreCoordinator`, `OrderedStore` |
| Result cache (`cache.py`) | LRU of entries with a byte count | `remember`, `get_response`, `get_stored`, `store_entry`, `discard` | called by HTTP handlers; awaits the coordinator | `ResultCache` |
| HTTP solve path (`app.py`, `resolve.py`) | index cache of each solver process, retained results, metadata markers | `run_cached_solve`, `build_index`, `RepodataSnapshot` | cache, worker, conda's shared repodata cache | `CachedSolve` |
| One-shot processes (`app.py`, `inputs.py`, `attestation.py`) | capacity slots, one process and pipe each | `run_solve_in_process`, `from_content_until`, `run_until` | a limiter shared by the handlers | `IsolatedProcess` |
| Solver context (`resolve.py`, `workspace.py`, `workspace_lock.py`) | conda's process-global context, `CONDA_OVERRIDE_*`, `current_platform` | `configure_platform`, `solver_context`, `virtual_package_context`, the settings of an update | every thread of the process, and children that inherit the environment | `SolverContext` |
| Process pool (`resolve.py`) | one `ProcessPoolExecutor` per worker | `dispatch`, `get_process_pool`, `shutdown_process_pool` | the child of the persistent worker | `CachedSolve` (dispatch) |
| Workspaces and locks (`workspace.py`, `workspace_lock.py`) | none between calls | selection, output validation, consistency, the update protocol | called under the solver context | `WorkspaceTargets`, `Requests` |
| Requests (`app.py`, `cli.py`, `inputs.py`) | none between calls | admission, limits, parsing, the solves that follow, the answer | all of the above | `Requests` |
| Attestation, transcoding, exporters, configuration | none between calls | data conversion | sigstore, conda plugins | in part, see section 7 |

What is hard in this code, and where:

* Threads share the worker under one lock that each keeps while it waits for a
  child, and three reads of `/health` are made without it. Restart thread,
  probes, requests and shutdown each decide on state that the previous holder
  of the lock changed.
* Replies arrive after their deadline; children die before, during and after a
  request; a process may survive its kill.
* Store operations outlive the callers that gave up on them; a file store
  drops write errors; the lifespan may end with operations in line.
* The cache is updated on both sides of an `await`, by tasks that interleave
  there, in front of a store that others write.
* A result is keyed by metadata that other processes refresh while it is being
  solved, from an index that an earlier request loaded.
* A solve reads process-global settings that every other job changes, and a
  job may raise at any depth of nested contexts that must each be undone.
* A selector, a limit or an output rule is applied in several places
  (manifest, lock, server, command line) which have to agree.

`PROJECT.json` lists each of these hazards with the line where it bites and the
properties that cover it, or why none does.

## 2. Modules

| Module | Models |
|---|---|
| `PersistentWorker` | `worker.py`, its callers in `app.py` (lifespan, `run_solve`, `/health`) and the child |
| `PersistentWorkerProofs` | theorems about its processes and its shutdown, and about its pipe |
| `OrderedStore` | the abstract specification: what the coordinator promises to the cache |
| `StoreCoordinator` | `storage.py`, which implements `OrderedStore` |
| `StoreCoordinatorProofs` | theorems about it, the refinement among them |
| `ResultCache` | the memory and the store operations of `cache.py` |
| `CacheOverStore` | the two together: the tasks of `ResultCache` as clients of `OrderedStore`, which implement `ResultCache` |
| `ResultCacheProofs` | theorems about both |
| `SequenceLemmas` | what these proofs need to know of sequences, and of loops: induction over the rounds |
| `CachedSolve` | `run_cached_solve`, the repodata snapshots, the index caches and the dispatch of solves |
| `CachedSolveProofs` | theorems about it |
| `IsolatedProcess` | the protocol that the three kinds of one-shot process share |
| `IsolatedProcessProofs` | theorems about it |
| `SolverContext` | conda's context, the environment and `current_platform`, under `platform_lock` |
| `SolverContextProofs` | theorems about it |
| `WorkspaceTargets` | selection, outputs, consistency and updates of targets, as operators |
| `Requests` | a request from its arrival to its answer, on the server or the command line |
| `RequestsProofs` | theorems about it, and about the selections of `WorkspaceTargets` |
| `MC...` | instances for TLC of the module whose name follows |

`Requests` composes `WorkspaceTargets` with the rules of the handlers;
`StoreCoordinator` implements `OrderedStore`, and `CacheOverStore` shows that
whatever `OrderedStore` does to the operations of the cache is allowed for in
`ResultCache`: what is shown of the cache holds of the cache over the coordinator.

### PersistentWorker

The fields of `PersistentSolveWorker` are variables of the same names.
`lock` is the holder of `operation_lock`. It is reentrant: a thread keeps it
across the nested `stop()` and `recover_if_stopped()`, so an action is the code
between two points where the holder blocks (the pipe, the joins of
the process, the spawn), and `pc` names the point. Reads that the code makes
without the lock (`ready` and `running` in `/health`) are actions of their own,
one for each read of a field. Children are numbered in the order of their
spawns, each with its state, the bytes in both directions of its pipe
(`toChild`, `toParent`) and the request it solves. A child may crash at any
moment, warm up or solve for ever, fail to start, and survive a kill for longer
than `stop()` waits. `stop()` appears in three actions by what its caller does
next: schedule a recovery, spawn, or end the shutdown.

A message is the client it belongs to, a reply names the request that it
answers; what a solve computes plays no part in the properties. Requests and
replies may be larger than the buffer of the pipe. A sender may therefore block
until its request is read (`sending`), so may the message to leave behind an
unread request (`leave`), and a child writes its reply in two steps (`replying`),
at the first of which the poll returns and the caller waits for the rest
(`receive`). The reading of a request is one step; it may never be taken.

### StoreCoordinator and OrderedStore

Tasks of one event loop interleave only at an `await`, so an action is what a
task does between two. The stream has anyio's semantics with a buffer of one
item: a sender meets a waiting receiver, finds room, or waits in line, from
which a timeout removes it. The consumer receives, applies, reads a file
store's set back, and deletes what it could not verify. Every store call may
fail, with or without its effect. `OrderedStore` says what this amounts to:
operations take effect one at a time in the order in which they were accepted,
whatever becomes of their callers, and a caller is told only what its own
operation did. The refinement mapping (`Service` in `StoreCoordinator`) takes
the buffer followed by the line for the abstract queue.

### ResultCache

`mem` is the LRU, its byte count included (`BytesOf` is what it should be), and `Remembered` is
`remember_memory` with its eviction loop. Tasks run `remember()` and
`get_response()`, in pieces (`Begin`, `Continue`) that end where the store is
awaited. What is awaited joins `queue`, or is refused at once; the operations of
the queue take effect in order and may fail; a timeout is a step of its own
(`TimeOut`), which takes the operation out of the queue, or leaves it there for
nobody, or comes when the operation has just ended. A set that failed may have
written, or have lost what was there, and one that is under way may have written
before it ends (`Write`), because it is read back.
The store starts with any content, because replicas share it
and its values may be corrupt, or belong to another key. `published` records
which sets the store accepted; no action reads it.

### CacheOverStore

A task submits an operation wherever it awaits the store, at most once at each
of these places (`Waiting`), so the callers of `OrderedStore` are pairs of a
task and a place. The tasks are those of `ResultCache`, piece by piece
(`Carries`), but what they await is submitted to `OrderedStore` (`Asks`), and
they go on with what `OrderedStore` has told them (`Continuing`). All other steps
are those of `OrderedStore` (`Serving`): begin, write, finish, expire, tell, and
give up on a caller. The queue, the completions and the accepted sets that
`ResultCache` has in place of a coordinator are views of its variables
(`QueueView`, `ReadyView`, `PublishedView`). `StoreIsAsAssumed` says that this
system is a behaviour of `ResultCache`; a cache that counted on a store that
never fails, refuses or outlives its callers would violate it.

### CachedSolve

Handlers, solver processes, the channel and the clock interleave. `files` is
the metadata on disk, as JSON and as shards, whose marker stands for its
content; `upstream` counts publications. A handler captures the markers, looks
its key up, checks a hit again, solves, captures again and remembers, one
action between two points where another task or process can run. A solve is a
job on a solver process: a plain one looks for a cached index (`FindIndex`),
loads one (`Load`) and captures its markers (`Mark`) in three steps, because
each process reads the shared files by itself. The worker takes one request at
a time, in itself or in its pool; a solve whose handler timed out goes on.
What the server retains is a set of contents under a key of request and marker.

### IsolatedProcess

`run_solve_in_process`, `ParsedInputFile.from_content_until` and
`AttestationService.run_until` are three copies of one protocol, modelled once
with the kind of work as a parameter: queue for a slot, start, poll until the
deadline, receive, terminate, join, kill, join. The child may hang, break off
in the middle of its message, ignore SIGTERM or outlive SIGKILL. `Status` has
the status codes of the four handlers.

### SolverContext

The globals are a record (`context`), the environment and `current`. A job is
a kind and its platforms or targets; `Contexts` lists the `with` blocks of each
kind, outermost first, the lock included. Entering pushes a frame with what
`with` saves, leaving restores what that kind of block restores, and `Raise`
may leave from any depth. `Spawn` is a child process that copies the
environment at any moment, because no spawner takes `platform_lock`.

### WorkspaceTargets and Requests

A document is a record of environments, targets and their subdirs. The nested
loops of `workspace.py` and `workspace_lock.py` go through `Requested`, one
round (`ManifestPlanned`, `LockPlanned`) for each pair of an environment and a
platform; a refusal is the value `Rejected`, which later rounds keep. `Requests` follows one request through `Receive`, `Parse`, the
decision of its operation, its solves and the answer; the parser's refusals and
those of the handler are in the order of the code. Requirements are abstracted
to their number, in a workspace to the names of the dependencies of an
environment with the channels that each of them names (`roots`). A solve of a
workspace is limited in the requirements of its environment and in the channels
declared for the target and named by its dependencies (`SolveChannels`), an
update only in those that its selected packages name. A solve is its platform,
target, requirements and channels, and whether it succeeded.

## 3. Runs

| Run | Shows | Instance |
|---|---|---|
| `worker_safety` | replies reach those who asked, one exchange and one child at a time, shutdown is final | 2 clients, 1 probe, 4 spawns, 1 fault, two reply statuses |
| `worker_liveness` | `shutdown()` ends though no child need ever get ready, solve or exit, if children finish the messages they begin; requests end and the server ends up with a ready worker if children run | 1 client, 1 probe, 4 spawns, 2 faults |
| `store` | the coordinator implements `OrderedStore`, drains on exit, applies what it accepted and releases its callers | 2 callers and the cleanup task, 1 key, 2 values, file and remote store |
| `cache` | exact accounting, exact artifacts, no credentials retained, addresses only for what was retained, no hits for failed publications | 2 tasks, 1 request, a small, a large and a secret result, with and without a store of any initial content |
| `solve_fresh` | retained results match the markers in their key; answers are no older than their request | 2 handlers, 2 keys, plain and workspace solves, one solver process or one-shot processes, 1 index, 1 result, 2 publications |
| `solver_context` | a job reads its own settings; everything scoped is restored | 2 threads, 2 platforms, 2 targets that share a subdir, 2 variables |
| `isolated_process` | no child outlives its slot unnoticed, statuses are honest, requests are answered | 2 tasks for 1 slot, a solve beside a parse, a signature beside a verification |
| `requests` | selection, outputs, limits, refusals, updates and exit statuses | every operation, 5 manifests and 4 locks, selectors that repeat, alias or miss targets |
| `worker_health_race`, `stale_index`, `inherited_environment`, `companion_alias` | disagreements with the documentation (section 6) | as the run of the same module; `stale_index` has two pool processes |

Each property has a mutant in `PROJECT.json`: a definition changed the way a
plausible bug would change the code, under which TLC finds the property
violated. The mutated forms stand beside the definitions they replace, marked
`Mutant`; no specification uses them.

### Bounds, and why they are enough

* `MaxFaults` bounds crashes, failed spawns and startups, and survived kills
  together. One fault and two clients suffice for every interleaving of a late
  or lost reply with the next request; two faults let a restart fail after the
  failure that caused it. `MaxGen` is large enough never to block a spawn: a
  child is replaced after a fault or a request that missed its deadline, so
  1 + `MaxFaults` + the number of clients spawns can occur.
* A client makes one request and a probe any number. What a request finds
  depends on earlier ones only through the worker, so a longer series of
  requests is a series of clients.
* The callers of the coordinator submit one operation each. With the cleanup
  task they are three, which fill the consumer's hands, the buffer and the line
  at once. One key is enough for their order to matter: operations on distinct
  keys commute, except for the cleanup, which takes any set of keys.
* Two tasks of the cache are the two sides of every race on a key; a third
  would do what one of the two does. They remember bodies of three kinds for
  one request, so entries also push each other out: `large` costs two units
  where the others cost one, of three in all, and is too large for the store.
* In `solve_fresh` one retained result and one cached index are enough for an
  eviction by the other key; `MaxContent` 2 is one publication after the first
  content, which is what a stale result needs.
* In `solver_context` the two targets have the subdir of the native platform
  and differ in the variables they set, one of which the operator has set too;
  jobs with one and with two targets occur. Nesting is that of the code, so it
  needs no bound. The proofs hold for every number of threads, platforms,
  targets and variables.
* In `requests` the limits are three targets, two requirements and two channels,
  and inputs lie below, at and above them; an update has a root that names a
  foreign channel and one that names none. Targets have a name of their own, the name of
  their subdir, or the name of another target's; `odd` is no known subdir.
  Combinations are taken where the code combines: every document with every
  selector and output, requirements of body, query and file with channels, locks
  with companions. The full product of all fields is left to the proofs; these
  are 10469 requests, checked in seconds.
* Symmetry is used in safety runs only: clients, tasks, handlers and threads
  are interchangeable there. Liveness runs use none.
* `CHECK_DEADLOCK` stays on everywhere; a module whose system can really be
  over has an action for the states in which it is.

### Fairness

* Threads of `PersistentWorker` keep running (weak fairness on their steps),
  and deadlines pass (weak fairness on `Expire`). Whoever waits for
  `operation_lock` gets it if it is released again and again (strong
  fairness). The lock is not fair in principle, but those who could pass a
  waiter over for ever are only the probes, which sleep between two attempts
  (the container health check runs every 30 s).
* A solve may take for ever: no fairness on its end (`ChildSolves`) in any run.
  `ShutdownFinishes` has as its antecedent that children finish the messages
  they begin (`ChildrenTalk`): the send of `execute()` and `stop()` and the
  `recv()` of `execute()` have no deadline, and a child that is suspended in the
  middle of one keeps the lock from `shutdown()` for ever. Of warming up, solving
  and exiting it assumes nothing. `RequestsFinish` and
  `EventuallyReady` have as their antecedent that a child also warms up and
  exits (`ChildFairness`): a request that arrives while a restart waits for a
  child that never gets ready waits for the lock, and `execute()` bounds the
  wait for a reply, not for the lock. Without an antecedent neither the deadline
  of a request nor `shutdown()` is kept: TLC finds the child that is suspended
  in the middle of a message for ever, which is listed as a hazard.
* The coordinator's liveness assumes that the event loop runs every ready task
  and that the store answers. Nothing in the code bounds a store call itself.
* `IsolatedProcess` assumes that the handler's thread runs, that deadlines
  pass, and that a child which has begun to write finishes or dies while the
  thread is in `recv()`, which has no timeout.

## 4. Proofs

About `PersistentWorker`, for every set of clients and probes, every status set
and every bound; the assumptions are those that the module declares: the
threads are distinct, `None` is none of them, the bounds are naturals, and the
statuses are statuses of the protocol.

* `TypeCorrect`. The types alone are not inductive: the type of what a client
  reads as its reply depends on `connection` leading somewhere. `TypeInv` adds
  mutual exclusion (`Exclusion`) and that whoever uses the pipe has one
  (`HasPipe`): only `stop()` clears it, and `stop()` runs under the lock.
* `OneProcessAlways`. The added fact is `SpawnsAlone`: a thread that is about
  to spawn holds the lock and found that nothing survived its `stop()`.
* `ShutdownIsFinalAlways`, `NoSpawnAfterShutdownAlways`. Once the `stop()` of
  shutdown is over, a thread that gets the lock sees the shutdown request
  first, so no thread is on its way from `begin` to `spawn`
  (`NothingStarts`), and no handle is left if the process was stopped
  (`NothingKept`).
* `OwnReplyAlways`, `OneExchangeAlways`. The invariant follows a request
  through the pipe: a future child's pipe is empty (`Fresh`), a starting
  child's carries at most its first message (`FirstMessage`), an open pipe of
  a ready worker is quiet between two requests (`QuietBetween`) and carries
  exactly the request of the client that awaits (`AwaitsOwn`). A client that
  stops waiting goes through `stop()`, which detaches the pipe for good
  (`Detached`), and this is why a late reply reaches nobody. The pipe may be
  left unquiet when it breaks in the middle of an exchange (`ExecutePipeEnd`):
  `QuietBetween` holds of open pipes only, and a closed one never opens again.

About `SolverContext`, for every number of threads, platforms, targets and
variables; the assumptions are that a target has a subdir and a set of
variables, that the native subdir is a platform, and that `None` and `NoThread`
are neither platforms, targets nor threads.

* `ContextTypeCorrect`, `ContextRestored`, `ReadsOwn`. That the lock is free
  and the globals are in order says nothing of the steps in between, so the
  invariant `IInv` follows the frames of the thread inside the lock: each frame
  is what its kind makes of the globals that it saved (`Built`), and the lowest
  saved globals that were in order (`Based`). Leaving a frame then gives back
  exactly what it saved (`LeavingRestores`, `LeavingRestoresEnviron`), also when
  two nested contexts set the same fields, and the last one gives back the
  base. What a body reads follows from the frames of its kind, entered in the
  order of `Contexts`. A thread outside holds no frames (`Alone`), so the steps
  of one thread leave the invariant of the others untouched. Exceptions need no
  argument of their own: `Raise` changes no globals, and leaving is the same.

About `StoreCoordinator`, for every set of callers, keys and values, over a
`FileStore` or any other; the assumptions are those the module declares.

* `StoreTypeCorrect`, `StoreDrains`. The buffer is empty whenever the consumer
  waits or has ended, and the line is empty whenever the buffer is
  (`StreamInv`): the end of the stream is received only when both are. The
  consumer holds an operation exactly while it works (`ConsumerInv`).
* `StoreServesInOrder` is the refinement. A step of the stream must append to,
  take the head of, or remove one element from the buffer followed by the line,
  and only the first case accepts an operation. Handing an operation to a
  waiting receiver overtakes nobody because of `StreamInv`, and a timeout
  removes only its own task from the line. A task that waits has submitted an
  operation and has been told nothing (`CallersInv`), so what it is told is
  what its operation did. A file store's set is up to three steps of the
  consumer: the first is the abstract `Write`, or stutters when the store
  drops the value silently, and the read-back or the deletion after it is the
  abstract `Finish`. `Awaited`, that an unfinished operation is still in the
  stream or in the consumer's hands, is what the drain on exit needs.

About `ResultCache`, for every set of tasks, requests and results, any sizes and
limits, and any initial content of the store.

* `SecretsNeverCached`, `ArtifactsExact`, `AdvertisedOnlyRetained`,
  `HitsShared`. Every entry of memory may be served under its key (`Clean`), and
  a task's answer is `Honest` about its call. Between two steps of a task the
  rest of the system may do anything, so the invariant says what each task
  awaits: what it was called with (`Called`), which operation of the queue is
  its own (`Expected`), and that a completed one that succeeded was published
  (`Accepted`). `Single` makes this usable: a task awaits one operation, so one
  that resumes or times out leaves nothing that a later step could take for the
  completion of its next operation. With it, every step of a task comes down to
  one of two shapes, a response or a new operation (`Proceeds`), and the
  invariant is shown once for each. An operation that was refused, or given up,
  is one that completed without success.
* `CacheTyped`, `AccountsExactly`. Each operation of the memory keeps it
  `Consistent`: the order is injective and lists exactly the keys with an entry,
  and the byte count is their sum. The sum is a recursive function of the
  order; `BytesSummed` and `BytesAre` say, by induction, that whatever adds the
  keys up one at a time gets it, and from this follows what one key more, one
  fewer, or the oldest ones fewer make of it (`BytesAppended`, `BytesRemoved`,
  `BytesSplit`). The eviction loop stops because the empty order is within
  every limit, and where it stops first the limits are met (`EvictionsFit`).
* `StoreIsCovered` is the refinement of `CacheOverStore`: every step over
  `OrderedStore` is a step of `ResultCache` or changes nothing that is seen of it.
  A task's step does to `queue` and `ready` what `Submits` allows
  (`AcceptCovered`, `RefuseCovered`); a caller that gives up is `TimeOut`
  (`GiveUpCovered`), the end of an operation is `Apply` (`FinishCovered`), the
  write that precedes it `Write`; beginning an operation and telling a caller are
  stutters. A view shows each operation once, and to the task that awaits it,
  because of `ServiceInv`: what is in line has not ended and is there once, a
  caller that has been told nothing still waits at its place, and its operation
  is in line until it ends. The invariant of `ResultCache` comes along: it holds
  because the steps are steps of `ResultCache`. `OrderedStore` takes one operation
  of a caller. That no task is held up by this is seen from `Continue`, which leads
  from a place only to later ones: the read, the discard or the entry of the
  request, the artifact.

  No run of TLC checks `StoreIsAsAssumed`: the histories of the callers make the
  instance of `cache` too large. Before the proof it was checked on a smaller
  one (two tasks, one request, one result that fits, a store of any initial
  content: 479957 states), and found violated by a `ResultCache` whose
  operations never fail.

About `IsolatedProcess`, for every set of tasks, every capacity and every mix of
solves, parses, signatures and verifications.

* `IsolatedTypeCorrect`, `ChildrenOwned`, `AnswersHonest`. One task is followed
  on its own (`TaskOK`): nothing exists before its start (`NotStarted`), what
  was received is still in the pipe (`Received`), the answer is the status of
  the conclusion (`Concluded`), and a child is given up only after SIGKILL and
  with an error (`GivenUp`). Tasks meet only in the limiter (`Capacity`), a
  cardinality to which a step adds at most its own task.

About `CachedSolve`, for every set of handlers, keys and requests, any limits and
any number of publications, and with at most one pool process
(`OnePoolProcess`); with two, `stale_index` is a counterexample.

* `FreshTypeCorrect`, `RetainedExact`, `AnswersCurrent`. What a job has solved
  from lies between the marker that its handler captured before it and what is
  on disk (`JobOK`). Contents only grow, so a handler that captures the same
  marker again after the solve knows the content: this is why `Retained`
  compares the two markers. What remains are the kept indexes: an entry that was
  loaded from other metadata than its markers name would be used later and
  break the upper or the lower bound, so `IndexesInv` says that both agree
  (`Exact`). Between the load and the capture of the markers this needs that
  nobody fetches `repodata.json` (`NobodyMarks`), and that follows from
  `Alone`: a worker works on one job at a time, because it takes one request at
  a time and its only process for that request one platform at a time
  (`NobodyWorks`, the one place where `OnePoolProcess` is used). An abandoned
  solve keeps its job and its place in this argument until the worker ends it.

About `Requests`, for every set of requests, documents of any size, every list of
selectors, all limits and all channels.

* The selections come first, without any state. A loop is a recursive function,
  so what it computes is shown by induction over its rounds (`Induction`,
  `Loop`). After n rounds that refused nothing, each of the first n requested
  pairs means one target, and the plans hold these targets once each
  (`ManifestPlansCover`, `LockPlansCover`). `ManifestExact` and `LockExact` draw
  from this what an accepted selection is, `ExactMeans` says it in the words of
  `SelectionIsExact`, and `PlansAgree` compares the two loops round by round:
  what the manifest's loop accepts and plans, the lock's loop does too.
* `FileParsed`, `JobsAre`. What `from_path` returns is of its type, was checked
  with `Represents` wherever it has content, and the solves that `Jobs` derives
  from it are within the limits (`Limited`).
* `Inductive`. None of the properties says where `parsed`, `pending` and
  `results` come from, so none is inductive. `Inv` does: what was parsed is
  `FromPath` of a request that was admitted (`ParsedInv`), and what was solved
  followed by what is pending is, in order, `Jobs` of the request (`Solves`), or
  the one solve of an update (`UpdateSolve`). `StagesInv` says which of these
  exist at which stage. A solve moves one job from the one list to the other
  (`SolveMoves`). TLC checks each part of `Inv` on the instance of `requests`.
* `RequestsTyped`, `ExactSelection`, `AgreeingSelections`, `NothingLost`,
  `WithinLimits` follow from `Inv` and the lemmas on selections and jobs.
  `CompleteAnswers`, `ExplainedRefusals`, `ConsistentUpdates`,
  `TellingExitStatus` speak of the answer, which no later step changes, and are
  part of `Inv`: they are shown of the step that answers.

The assumptions are those of the two modules. A request is what its decoder
accepts (`IsRequest`; `UpdateRequest` has one environment and one platform),
limits are naturals, and a missing value differs from every list, number and
set it could be confused with (`NoneAssumption`, `ParsedAssumption`). One is
about the deployment: the native platform is one that conda knows
(`LimitsAssumption`), because handlers check the platforms a request names and
not the native one they use by default.

The properties were first checked with TLC on the instances of the runs that
`theorems` names. Every invariant and every step property of the passing runs is
proved. Only model-checked are the liveness properties, because the prover does
not treat fairness and ENABLED: `ShutdownFinishes`, `RequestsFinish`,
`EventuallyReady`, `BufferedIsApplied`, `CallersReturn` and
`RequestsAreAnswered`. The prover cannot use the library's induction theorems,
which take an operator as parameter; `Induction` in `SequenceLemmas` takes a set
of numbers instead, and rests on the least element of a nonempty one.

## 5. Properties

* `PersistentWorker`: `OwnReply`, `OneExchange`, `OneProcess`,
  `ShutdownIsFinal`, `NoSpawnAfterShutdown`; liveness `RequestsFinish`,
  `ShutdownFinishes`, `EventuallyReady`.
* `StoreCoordinator`: `ServesInOrder` (the refinement), `DrainedOnExit`;
  liveness `BufferedIsApplied`, `CallersReturn`.
* `ResultCache`: `Accounting`, `ArtifactsAreExact`, `SecretsAreNotRetained`,
  `AdvertisedWasRetained`, `HitsAreShared`.
* `CachedSolve`: `RetainedIsExact`, `AnswersAreCurrent`. Both are stated for
  `repodata.json`. A workspace solve from shards that expire may fall back to
  JSON while the shards stay as they were, and its result is then retained
  under the markers of the shards; whether it was solved from them is not
  something the markers can tell, and no property says that it was.
* `SolverContext`: `ReadsAreItsOwn`, `ContextIsRestored`.
* `IsolatedProcess`: `ChildrenAreOwned`, `AnswersAreHonest`; liveness
  `RequestsAreAnswered`.
* `Requests`: `SelectionIsExact`, `LockSelectsLikeManifest`,
  `OutputsLoseNothing`, `SolvesAreWithinLimits`, `AnswersAreComplete`,
  `RefusalsAreExplained`, `UpdatesAreConsistent`, `ExitStatusTells`.

## 6. Disagreements between the code and its documentation

* `worker_health_race`: `running` reads `self.process` twice without the lock.
  If a recovery sets it to `None` in between, `/health` raises
  `AttributeError`, where `docs/reference/http-api.md:266` promises 200 or 503.
* `stale_index`: `build_index()` captures the markers of the metadata after it
  has loaded an index from it. With several processes in the pool, one may
  refresh the shared files in between: an old index is kept under new markers,
  and results solved from it are retained under them, where `app.py:1185` says
  that markers and index agree.
* `inherited_environment`: `virtual_package_context()` sets `CONDA_OVERRIDE_*`
  in `os.environ`; a worker or one-shot process that another thread starts
  meanwhile inherits them. `resolve.py:197` gives the HTTP server's concurrent
  requests as the reason to avoid such writes.
* `companion_alias`: a saved target is looked up in the companion manifest with
  `select()`, which also matches subdirs. A saved target that is named like a
  subdir and not declared is compared with the declared target that has this
  subdir, where `docs/reference/http-api.md:125` says that the selected target
  must agree.

Three more windows were found, each repaired by what follows it, and are listed
as hazards: a probe that finds a failing restart thread still alive starts no
other (`worker.py:219`; the next probe does), a child that dies with its
request unread resets the pipe (`worker.py:162`; the next request or probe
replaces it), and the deletion of a corrupt stored value may remove the valid
one that was published meanwhile (`cache.py:351`; it is produced again).

## 7. Not modelled

* `StoreCoordinator` enters one lifespan per process, as the server does. Its
  cleanup task runs one cleanup per lifespan.
* The life of the process pool: its creation on first use, its shutdown, and a
  pool that breaks. `CachedSolve` has a fixed set of pool processes.
* Attestation: in which order `sign` and `verify` check the document, the
  identity and the policy. Signatures and certificates are the sigstore
  library's.
* The command line with several files in one solve, `--serve`, and the argument
  parser; `/r`, `/docs` and the decoding of bodies and query strings.
* What limits count: lists of channels are sets here, without repetition, and
  system and PyPI requirements are not counted. The dependencies of an environment
  are the same on each of its platforms.
* That the baseline of an update contains the roots to be updated
  (`workspace_lock.py:415`) is not a check of its own: it follows from the
  consistency of the baseline, which is checked before.
* The composition of requirements by the workspace provider, and whether the
  records of a lock satisfy the requirements of a manifest: attributes of a
  document here.
* Key derivation in `cache.py` (digests of requests) and the recognition of
  credentials are parameters: which results are `Secret` is given.
* Transcoding, exporters, configuration and error texts are data conversions
  without state. Which conversions are possible is in `Requests`.

## 8. What is left to do

In order of importance:

1. `ProcessPool`: creation, shutdown and breakage of the executor inside the
   worker, composed with the dispatch of `CachedSolve`.
2. The decisions of `AttestationService` as operators, checked against its
   documentation: what a verified answer implies.

No module declares a recursive operator: loops are recursive functions, or the
operators of the community modules.
