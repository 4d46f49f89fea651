-------------------------- MODULE PersistentWorker --------------------------
(***************************************************************************)
(* The persistent solve worker of conda_presto/worker.py: a server process *)
(* that owns at most one solver child, hands it one request at a time over *)
(* a pipe, stops it when it misses a deadline, and replaces it from a      *)
(* background thread.                                                      *)
(*                                                                         *)
(* Threads of the server run concurrently: one per HTTP solve (Clients),   *)
(* one per /health probe (Pollers), the thread of the lifespan's start()   *)
(* (Starter), the one of its shutdown() (Stopper) and the restart thread   *)
(* (Restarter).  They share the fields of PersistentSolveWorker under      *)
(* operation_lock, a reentrant lock: a thread keeps it across the calls it *)
(* makes to stop() and recover_if_stopped(), so a step of this module is   *)
(* the code between two places where the holder blocks.  The reads that    *)
(* the code makes without the lock are steps of their own.                 *)
(*                                                                         *)
(* A child is a generation, numbered in the order in which they are        *)
(* spawned; its life is modelled with its own steps.                       *)
(*                                                                         *)
(* A request or a reply carries a workspace, a lock or a solve: it may be  *)
(* larger than the pipe's buffer, so its sender blocks until it is read,   *)
(* and poll() returns at its first bytes, so its reader blocks until it is *)
(* whole.  Neither side sets a deadline for that.  The child's first       *)
(* message is a few bytes, written and read in one step; None is too, but  *)
(* finds no room behind a request that is not read.                        *)
(***************************************************************************)
EXTENDS Naturals, Sequences, FiniteSets

CONSTANTS
    Clients,    \* threads running PersistentSolveWorker.solve
    Pollers,    \* /health probes
    Starter,    \* the thread of the lifespan that calls start()
    Stopper,    \* the thread of the lifespan that calls shutdown()
    Restarter,  \* the restart thread
    None,       \* Python's None: no lock holder, no request
    Statuses,   \* the reply statuses that the child's solves can produce
    MaxGen,     \* bound: children spawned
    MaxFaults   \* bound: crashes, failed spawns and startups, survived kills

Threads == Clients \cup Pollers \cup {Starter, Stopper, Restarter}

ASSUME ThreadsAssumption ==
    /\ Clients \cap Pollers = {}
    /\ {Starter, Stopper, Restarter} \cap (Clients \cup Pollers) = {}
    /\ Starter # Stopper /\ Starter # Restarter /\ Stopper # Restarter
    /\ None \notin Threads

ASSUME BoundsAssumption == MaxGen \in Nat /\ MaxFaults \in Nat

ReplyStatuses == {"ok", "unknown-format", "workspace-error", "error"}

ASSUME StatusesAssumption == Statuses \subseteq ReplyStatuses

Gens  == 1..MaxGen
NoGen == 0

VARIABLES
    lock,               \* holder of operation_lock, or None
    connection,         \* self.connection: the child it leads to, or NoGen
    process,            \* self.process: the child it is the handle of, or NoGen
    isReady,            \* self.is_ready
    shutdownRequested,  \* self._shutdown_requested
    pc,                 \* where each thread is
    outcome,            \* how each thread's operation ends, "none" before
    reply,              \* the request that the reply a client read answers
    expired,            \* requests whose absolute deadline has passed
    gens,               \* number of children spawned so far
    child,              \* status of each child
    serving,            \* request each child is solving, or None
    toChild,            \* bytes sent to each child and not yet read: requests,
                        \* and None, which tells it to leave
    toParent,           \* replies each child sent that were not read
    faults              \* number of faults so far

fields   == <<connection, process, isReady>>
children == <<child, serving, toChild, toParent>>
vars == <<lock, fields, shutdownRequested, pc, outcome, reply, expired,
          gens, children, faults>>

Labels ==
    { "idle",       \* not called yet
      "acquire",    \* waiting for operation_lock
      "begin",      \* at the first check under the lock
      "send",       \* execute: found the worker ready
      "sending",    \* execute: the pipe is full of the request it writes
      "await",      \* execute: polling the pipe
      "receive",    \* execute: reading a reply that has begun to arrive
      "detach",     \* entering stop()
      "leave",      \* stop(): no room in the pipe for the message to leave
      "join",       \* stop(): terminating the process
      "spawn",      \* start(): no process left, about to create one
      "warming",    \* start(): polling for the child's first message
      "exiting",    \* restart(): start() is over, the thread still alive
      "joining",    \* shutdown(): waiting for the restart thread
      "sawReady",   \* ready: is_ready read as True
      "sawProcess", \* running: process read as not None
      "done" }

\* The labels at which a thread holds operation_lock.
Locked == {"begin", "send", "sending", "await", "receive", "detach", "leave",
           "join", "spawn", "warming"}

\* The labels at which the request of a thread is under way.
Awaiting == {"sending", "await", "receive"}

Outcomes ==
    { "none",
      "timeout", "unavailable", "exited",  \* execute: without a reply
      "returned", "raised",                \* start()
      "stopped", "survived",               \* shutdown(): True and False
      "healthy", "attribute-error" } \cup ReplyStatuses

Replies == [status : ReplyStatuses \cup {"ready", "startup-failed"},
            request : Clients \cup {None}]

ChildStates ==
    { "unborn",
      "warming",  \* warming its indexes
      "serving",  \* in recv()
      "solving",
      "replying", \* its reply begun, and not written out
      "closing",  \* in the finally block, its end of the pipe still open
      "closed",   \* its end of the pipe closed, not yet exited
      "killed",   \* SIGKILL is pending and cannot be delivered yet
      "dead" }

Alive(g)     == child[g] \notin {"unborn", "dead"}
PipeOpen(g)  == child[g] \in {"warming", "serving", "solving", "replying",
                              "closing", "killed"}
Running      == process # NoGen /\ Alive(process)
Ready        == isReady /\ Running
RestartAlive == pc[Restarter] \notin {"idle", "done"}

Init ==
    /\ lock = None /\ connection = NoGen /\ process = NoGen
    /\ isReady = FALSE /\ shutdownRequested = FALSE
    /\ pc = [t \in Threads |-> "idle"]
    /\ outcome = [t \in Threads |-> "none"]
    /\ reply = [c \in Clients |-> None]
    /\ expired = [c \in Clients |-> FALSE]
    /\ gens = 0 /\ faults = 0
    /\ child = [g \in Gens |-> "unborn"]
    /\ serving = [g \in Gens |-> None]
    /\ toChild = [g \in Gens |-> <<>>]
    /\ toParent = [g \in Gens |-> <<>>]

Fault == faults < MaxFaults /\ faults' = faults + 1

GoTo(t, label) == pc' = [pc EXCEPT ![t] = label]

\* The thread leaves its operation and the lock.
Leave(t, label, how) ==
    /\ GoTo(t, label)
    /\ outcome' = [outcome EXCEPT ![t] = how]
    /\ lock' = None

\* The thread calls stop() under the lock and will end with `how`.
Abandon(t, how) ==
    /\ GoTo(t, "detach")
    /\ outcome' = [outcome EXCEPT ![t] = how]
    /\ UNCHANGED lock

\* The label at which a thread is once its operation has ended.
End(t) == IF t \in Pollers THEN "idle"
          ELSE IF t = Restarter THEN "exiting" ELSE "done"

-----------------------------------------------------------------------------
(* Every operation begins by waiting for operation_lock.                    *)

Acquire(t) ==
    /\ pc[t] = "acquire" /\ lock = None
    /\ lock' = t
    /\ GoTo(t, IF t = Stopper THEN "detach" ELSE "begin")
    /\ UNCHANGED <<fields, shutdownRequested, outcome, reply, expired, gens,
                   children, faults>>

-----------------------------------------------------------------------------
(* stop(restart=...): detach the pipe, terminate, kill, forget the handle.  *)

\* Lines 191-196: the worker is no longer ready, and the message to leave
\* waits behind a request that the child has not read.  The connection is
\* forgotten too, which no thread can see before the lock is released: the
\* model keeps it until the parent's end is closed.
StopBlocks(t) ==
    /\ pc[t] = "detach"
    /\ connection # NoGen /\ PipeOpen(connection) /\ toChild[connection] # <<>>
    /\ isReady' = FALSE
    /\ GoTo(t, "leave")
    /\ UNCHANGED <<lock, connection, process, shutdownRequested, outcome, reply,
                   expired, gens, children, faults>>

\* Lines 191-199: forget the connection and the readiness, then tell the
\* child to leave and close the parent's end.
StopDetach(t) ==
    /\ \/ pc[t] = "detach"
       \/ pc[t] = "leave" /\ (toChild[connection] = <<>> \/ ~PipeOpen(connection))
    /\ connection' = NoGen /\ isReady' = FALSE
    /\ IF connection # NoGen /\ PipeOpen(connection)
       THEN toChild' = [toChild EXCEPT ![connection] = Append(@, None)]
       ELSE UNCHANGED toChild
    /\ GoTo(t, "join")
    /\ UNCHANGED <<lock, process, shutdownRequested, outcome, reply, expired,
                   gens, child, serving, toParent, faults>>

\* Mutant: the handle is dropped although the process survived.
JoinProcessForgets(stopped) ==
    /\ process' = NoGen
    /\ \/ /\ stopped
          /\ child' = IF process = NoGen THEN child
                      ELSE [child EXCEPT ![process] = "dead"]
          /\ UNCHANGED faults
       \/ ~stopped /\ process # NoGen /\ Alive(process) /\ Fault /\ UNCHANGED child

\* Lines 200-214: the process is gone and its handle is dropped, or it
\* survives SIGKILL for longer than the join waits and the handle stays.
JoinProcess(stopped) ==
    \/ /\ stopped
       /\ process' = NoGen
       /\ child' = IF process = NoGen THEN child
                   ELSE [child EXCEPT ![process] = "dead"]
       /\ UNCHANGED faults
    \/ /\ ~stopped
       /\ process # NoGen /\ Alive(process)
       /\ child' = [child EXCEPT ![process] = "killed"]
       /\ UNCHANGED process
       /\ Fault

\* stop(restart=True), of execute and recover_if_stopped: a stopped worker
\* gets a new restart thread unless the previous one is still alive.
StopForRecovery(t, stopped) ==
    /\ pc[t] = "join" /\ t \in Clients \cup Pollers
    /\ JoinProcess(stopped)
    /\ lock' = None
    /\ IF stopped /\ ~shutdownRequested /\ ~RestartAlive
       THEN /\ pc' = [pc EXCEPT ![t] = End(t), ![Restarter] = "acquire"]
            /\ outcome' = [outcome EXCEPT ![Restarter] = "none"]
       ELSE GoTo(t, End(t)) /\ UNCHANGED outcome
    /\ UNCHANGED <<connection, isReady, shutdownRequested, reply, expired,
                   gens, serving, toChild, toParent>>

\* stop() of start(): before a spawn the start goes on if nothing survived;
\* after a failure it ends the way the failure decided.
StopForStart(t, stopped) ==
    /\ pc[t] = "join" /\ t \in {Starter, Restarter}
    /\ JoinProcess(stopped)
    /\ \/ /\ outcome[t] = "none" /\ stopped
          /\ GoTo(t, "spawn")
          /\ UNCHANGED <<lock, outcome>>
       \/ /\ outcome[t] = "none" /\ ~stopped
          /\ Leave(t, End(t), "raised")
       \/ /\ outcome[t] # "none"
          /\ Leave(t, End(t), outcome[t])
    /\ UNCHANGED <<connection, isReady, shutdownRequested, reply, expired,
                   gens, serving, toChild, toParent>>

\* stop() of shutdown().
StopForShutdown(stopped) ==
    /\ pc[Stopper] = "join"
    /\ JoinProcess(stopped)
    /\ Leave(Stopper, "joining", IF stopped THEN "stopped" ELSE "survived")
    /\ UNCHANGED <<connection, isReady, shutdownRequested, reply, expired,
                   gens, serving, toChild, toParent>>

Stop(t) ==
    \/ StopBlocks(t)
    \/ StopDetach(t)
    \/ \E stopped \in BOOLEAN :
          \/ StopForRecovery(t, stopped)
          \/ StopForStart(t, stopped)
          \/ t = Stopper /\ StopForShutdown(stopped)

-----------------------------------------------------------------------------
(* start(), run by the lifespan and by the restart thread.                  *)

CallStart ==
    /\ pc[Starter] = "idle"
    /\ GoTo(Starter, "acquire")
    /\ UNCHANGED <<lock, fields, shutdownRequested, outcome, reply, expired,
                   gens, children, faults>>

\* Mutant: a start that waited for the lock ignores the shutdown request.
MayStartAnyway == ~Ready

\* The test of line 61.
MayStart == ~Ready /\ ~shutdownRequested

\* Lines 61-64.
StartBegin(t) ==
    /\ pc[t] = "begin" /\ t \in {Starter, Restarter}
    /\ \/ ~MayStart /\ Leave(t, End(t), "returned")
       \/ MayStart /\ Abandon(t, "none")
    /\ UNCHANGED <<fields, shutdownRequested, reply, expired, gens, children,
                   faults>>

\* Lines 66-99: a new child, its handle and the parent's end of its pipe.
StartSpawn(t) ==
    /\ pc[t] = "spawn" /\ gens < MaxGen
    /\ gens' = gens + 1
    /\ child' = [child EXCEPT ![gens + 1] = "warming"]
    /\ process' = gens + 1 /\ connection' = gens + 1
    /\ GoTo(t, "warming")
    /\ UNCHANGED <<lock, isReady, shutdownRequested, outcome, reply, expired,
                   serving, toChild, toParent, faults>>

\* Lines 79-88, no process was created.
StartSpawnFails(t) ==
    /\ pc[t] = "spawn"
    /\ Fault
    /\ Leave(t, End(t), "raised")
    /\ UNCHANGED <<fields, shutdownRequested, reply, expired, gens, children>>

\* Lines 79-88 and 93-98: there is a process, but it failed to start or its
\* pipe could not be closed here; both ends are closed and it is stopped.
StartSpawnHalfFails(t) ==
    /\ pc[t] = "spawn" /\ gens < MaxGen
    /\ Fault
    /\ gens' = gens + 1
    /\ child' = [child EXCEPT ![gens + 1] = "warming"]
    /\ process' = gens + 1
    /\ Abandon(t, "raised")
    /\ UNCHANGED <<connection, isReady, shutdownRequested, reply, expired,
                   serving, toChild, toParent>>

\* Mutant: the polling loop does not look at the shutdown request.
StartDeaf(t) == FALSE

\* Lines 101-107: the polling loop sees the shutdown request.
StartInterrupted(t) ==
    /\ pc[t] = "warming" /\ shutdownRequested
    /\ Abandon(t, "returned")
    /\ UNCHANGED <<fields, shutdownRequested, reply, expired, gens, children,
                   faults>>

\* Lines 108-109.
StartTimesOut(t) ==
    /\ pc[t] = "warming"
    /\ Fault
    /\ Abandon(t, "raised")
    /\ UNCHANGED <<fields, shutdownRequested, reply, expired, gens, children>>

\* Lines 110-125: the child's first message, or the end of its pipe.
StartReply(t) ==
    /\ pc[t] = "warming"
    /\ \/ /\ toParent[connection] # <<>>
          /\ toParent' = [toParent EXCEPT ![connection] = Tail(@)]
          /\ \/ /\ Head(toParent[connection]).status = "ready"
                /\ isReady' = TRUE
                /\ Leave(t, End(t), "returned")
             \/ /\ Head(toParent[connection]).status # "ready"
                /\ Abandon(t, "raised")
                /\ UNCHANGED isReady
       \/ /\ toParent[connection] = <<>> /\ ~PipeOpen(connection)
          /\ Abandon(t, "raised")
          /\ UNCHANGED <<isReady, toParent>>
    /\ UNCHANGED <<connection, process, shutdownRequested, reply, expired,
                   gens, child, serving, toChild, faults>>

\* restart(): start() is over, with its exception logged; the thread ends.
RestartExits ==
    /\ pc[Restarter] = "exiting"
    /\ GoTo(Restarter, "done")
    /\ UNCHANGED <<lock, fields, shutdownRequested, outcome, reply, expired,
                   gens, children, faults>>

Start(t) ==
    \/ StartBegin(t)
    \/ StartSpawn(t)
    \/ StartSpawnFails(t)
    \/ StartSpawnHalfFails(t)
    \/ StartInterrupted(t)
    \/ StartTimesOut(t)
    \/ StartReply(t)

-----------------------------------------------------------------------------
(* execute(), in a thread of its own for each HTTP solve.                   *)

\* The server accepts requests between its lifespan's start and its end.
Serving == pc[Starter] = "done" /\ outcome[Starter] = "returned"
           /\ ~shutdownRequested

CallExecute(c) ==
    /\ pc[c] = "idle" /\ Serving
    /\ GoTo(c, "acquire")
    /\ UNCHANGED <<lock, fields, shutdownRequested, outcome, reply, expired,
                   gens, children, faults>>

\* The absolute deadline of a pending request passes.
Expire(c) ==
    /\ pc[c] \notin {"idle", "done"} /\ ~expired[c]
    /\ expired' = [expired EXCEPT ![c] = TRUE]
    /\ UNCHANGED <<lock, fields, shutdownRequested, pc, outcome, reply, gens,
                   children, faults>>

\* Lines 144-149, with recover_if_stopped inlined (the lock is reentrant).
ExecuteBegin(c) ==
    /\ pc[c] = "begin"
    /\ \/ /\ expired[c]
          /\ Leave(c, "done", "timeout")
       \/ /\ ~expired[c] /\ ~(connection # NoGen /\ Ready) /\ Running
          /\ Leave(c, "done", "unavailable")
       \/ /\ ~expired[c] /\ ~Running
          /\ Abandon(c, "unavailable")
       \/ /\ ~expired[c] /\ connection # NoGen /\ Ready
          /\ GoTo(c, "send")
          /\ UNCHANGED <<lock, outcome>>
    /\ UNCHANGED <<fields, shutdownRequested, reply, expired, gens, children,
                   faults>>

\* Lines 156-158: the deadline may have passed during the send.
ExecutePolls(c) ==
    \/ expired[c] /\ Abandon(c, "timeout")
    \/ ~expired[c] /\ GoTo(c, "await") /\ UNCHANGED <<lock, outcome>>

\* Lines 151-159: the request fits into the pipe, or the send blocks.
ExecuteSend(c) ==
    /\ pc[c] = "send" /\ PipeOpen(connection)
    /\ toChild' = [toChild EXCEPT ![connection] = Append(@, c)]
    /\ \/ ExecutePolls(c)
       \/ GoTo(c, "sending") /\ UNCHANGED <<lock, outcome>>
    /\ UNCHANGED <<fields, shutdownRequested, reply, expired, gens, child,
                   serving, toParent, faults>>

\* Lines 152 and 156-159: the child has read the request.
ExecuteSent(c) ==
    /\ pc[c] = "sending" /\ toChild[connection] = <<>>
    /\ ExecutePolls(c)
    /\ UNCHANGED <<fields, shutdownRequested, reply, expired, gens, children,
                   faults>>

\* Lines 153-155.
ExecuteBrokenPipe(c) ==
    /\ \/ pc[c] = "send"
       \/ pc[c] = "sending" /\ toChild[connection] # <<>>
    /\ ~PipeOpen(connection)
    /\ Abandon(c, "exited")
    /\ UNCHANGED <<fields, shutdownRequested, reply, expired, gens, children,
                   faults>>

\* Mutant: a timeout keeps the worker and its pipe.
ExecuteTimesOutOnly(c) ==
    /\ pc[c] = "await" /\ expired[c]
    /\ Leave(c, "done", "timeout")
    /\ UNCHANGED <<fields, shutdownRequested, reply, expired, gens, children,
                   faults>>

\* Mutant: the poll has no deadline.
ExecutePollsForever(c) == FALSE

\* Lines 157-159: the poll ends with the deadline.
ExecuteTimesOut(c) ==
    /\ pc[c] = "await" /\ expired[c]
    /\ Abandon(c, "timeout")
    /\ UNCHANGED <<fields, shutdownRequested, reply, expired, gens, children,
                   faults>>

\* Lines 157 and 161: the poll sees the first bytes of a reply.
ExecutePoll(c) ==
    /\ pc[c] = "await" /\ child[connection] = "replying"
    /\ GoTo(c, "receive")
    /\ UNCHANGED <<lock, fields, shutdownRequested, outcome, reply, expired,
                   gens, children, faults>>

\* Lines 161 and 166-172.
ExecuteReply(c) ==
    /\ pc[c] \in {"await", "receive"} /\ toParent[connection] # <<>>
    /\ LET message == Head(toParent[connection])
       IN  /\ reply' = [reply EXCEPT ![c] = message.request]
           /\ Leave(c, "done",
                    IF message.status \in {"ok", "unknown-format", "workspace-error"}
                    THEN message.status ELSE "error")
    /\ toParent' = [toParent EXCEPT ![connection] = Tail(@)]
    /\ UNCHANGED <<fields, shutdownRequested, expired, gens, child, serving,
                   toChild, faults>>

\* The child's end is closed.  Lines 162-164 when it had read all it was sent
\* and not begun to reply: recv raises EOFError.  In the middle of a reply
\* (also one that ended there before the poll) recv raises OSError, and with
\* bytes still unread at the child's end ConnectionResetError: no handler of
\* execute catches them.
ExecutePipeEnd(c) ==
    /\ pc[c] \in {"await", "receive"}
    /\ toParent[connection] = <<>> /\ ~PipeOpen(connection)
    /\ \/ /\ pc[c] = "await" /\ toChild[connection] = <<>>
          /\ Abandon(c, "exited")
       \/ /\ serving[connection] # None \/ toChild[connection] # <<>>
          /\ Leave(c, "done", "exited")
    /\ UNCHANGED <<fields, shutdownRequested, reply, expired, gens, children,
                   faults>>

Execute(c) ==
    \/ ExecuteBegin(c)
    \/ ExecuteSend(c)
    \/ ExecuteSent(c)
    \/ ExecuteBrokenPipe(c)
    \/ ExecuteTimesOut(c)
    \/ ExecutePoll(c)
    \/ ExecuteReply(c)
    \/ ExecutePipeEnd(c)

-----------------------------------------------------------------------------
(* shutdown(), the last thing the lifespan does with the worker.            *)

\* Mutant: shutdown() does not announce itself.
CallShutdownSilently ==
    /\ pc[Stopper] = "idle" /\ pc[Starter] # "idle"
    /\ GoTo(Stopper, "acquire")
    /\ UNCHANGED <<lock, fields, shutdownRequested, outcome, reply, expired,
                   gens, children, faults>>

CallShutdown ==
    /\ pc[Stopper] = "idle" /\ pc[Starter] # "idle"
    /\ shutdownRequested' = TRUE
    /\ GoTo(Stopper, "acquire")
    /\ UNCHANGED <<lock, fields, outcome, reply, expired, gens, children,
                   faults>>

\* Lines 232-241: the restart thread is not alive, or the join times out.
ShutdownJoins ==
    /\ pc[Stopper] = "joining"
    /\ GoTo(Stopper, "done")
    /\ \/ ~RestartAlive /\ UNCHANGED outcome
       \/ RestartAlive /\ outcome' = [outcome EXCEPT ![Stopper] = "survived"]
    /\ UNCHANGED <<lock, fields, shutdownRequested, reply, expired, gens,
                   children, faults>>

-----------------------------------------------------------------------------
(* GET /health: `ready` is read without the lock, field by field; a worker  *)
(* that is not ready is recovered in a thread.                              *)

PollIsReady(p) ==
    /\ pc[p] = "idle" /\ Serving
    /\ GoTo(p, IF isReady THEN "sawReady" ELSE "acquire")
    /\ outcome' = [outcome EXCEPT ![p] = "none"]
    /\ UNCHANGED <<lock, fields, shutdownRequested, reply, expired, gens,
                   children, faults>>

\* The first half of `running`.
PollProcess(p) ==
    /\ pc[p] = "sawReady"
    /\ GoTo(p, IF process # NoGen THEN "sawProcess" ELSE "acquire")
    /\ UNCHANGED <<lock, fields, shutdownRequested, outcome, reply, expired,
                   gens, children, faults>>

\* The second half of `running` reads self.process again: None has no
\* is_alive.
PollIsAlive(p) ==
    /\ pc[p] = "sawProcess"
    /\ \/ /\ Running
          /\ GoTo(p, "idle")
          /\ outcome' = [outcome EXCEPT ![p] = "healthy"]
       \/ /\ process = NoGen
          /\ GoTo(p, "idle")
          /\ outcome' = [outcome EXCEPT ![p] = "attribute-error"]
       \/ /\ process # NoGen /\ ~Running
          /\ GoTo(p, "acquire")
          /\ UNCHANGED outcome
    /\ UNCHANGED <<lock, fields, shutdownRequested, reply, expired, gens,
                   children, faults>>

\* Mutant: the probe reports a stopped worker and does not recover it.
PollReports(p) ==
    /\ pc[p] = "begin" /\ p \in Pollers
    /\ Leave(p, "idle", "unavailable")
    /\ UNCHANGED <<fields, shutdownRequested, reply, expired, gens, children,
                   faults>>

\* recover_if_stopped() in its thread, then the answer 503.
PollRecover(p) ==
    /\ pc[p] = "begin" /\ p \in Pollers
    /\ \/ Running /\ Leave(p, "idle", "unavailable")
       \/ ~Running /\ Abandon(p, "unavailable")
    /\ UNCHANGED <<fields, shutdownRequested, reply, expired, gens, children,
                   faults>>

Poll(p) == PollIsReady(p) \/ PollProcess(p) \/ PollIsAlive(p) \/ PollRecover(p)

-----------------------------------------------------------------------------
(* The child: persistent_solve_worker_entrypoint.                           *)

\* A send to a parent that has closed its end fails.
ParentOpen(g) == connection = g

\* Mutant: a status that the parent does not know.
ChildSendsStatus(g, status, request) ==
    toParent' = [toParent EXCEPT ![g] =
                    Append(@, [status |-> "invalid", request |-> request])]

ChildSends(g, status, request) ==
    toParent' = [toParent EXCEPT ![g] =
                    Append(@, [status |-> status, request |-> request])]

\* Lines 251-259.  A failed send ends the child outside its try block.
ChildWarm(g) ==
    /\ child[g] = "warming"
    /\ \/ /\ ParentOpen(g)
          /\ child' = [child EXCEPT ![g] = "serving"]
          /\ ChildSends(g, "ready", None)
       \/ /\ ~ParentOpen(g)
          /\ child' = [child EXCEPT ![g] = "closed"]
          /\ UNCHANGED toParent
    /\ UNCHANGED <<lock, fields, shutdownRequested, pc, outcome, reply,
                   expired, gens, serving, toChild, faults>>

\* Lines 253-257.
ChildWarmFails(g) ==
    /\ child[g] = "warming" /\ ParentOpen(g)
    /\ Fault
    /\ child' = [child EXCEPT ![g] = "closed"]
    /\ ChildSends(g, "startup-failed", None)
    /\ UNCHANGED <<lock, fields, shutdownRequested, pc, outcome, reply,
                   expired, gens, serving, toChild>>

\* Lines 261-267: a request, the message to leave, or the end of the pipe.
ChildReceive(g) ==
    /\ child[g] = "serving"
    /\ \/ /\ toChild[g] # <<>>
          /\ toChild' = [toChild EXCEPT ![g] = Tail(@)]
          /\ serving' = [serving EXCEPT ![g] = Head(toChild[g])]
          /\ child' = [child EXCEPT ![g] =
                          IF Head(toChild[g]) = None THEN "closing" ELSE "solving"]
       \/ /\ toChild[g] = <<>> /\ ~ParentOpen(g)
          /\ child' = [child EXCEPT ![g] = "closing"]
          /\ UNCHANGED <<serving, toChild>>
    /\ UNCHANGED <<lock, fields, shutdownRequested, pc, outcome, reply,
                   expired, gens, toParent, faults>>

\* Lines 269-292: the solve ends, and the reply begins to be written.
ChildSolves(g) ==
    /\ child[g] = "solving"
    /\ child' = [child EXCEPT ![g] = "replying"]
    /\ UNCHANGED <<lock, fields, shutdownRequested, pc, outcome, reply,
                   expired, gens, serving, toChild, toParent, faults>>

\* Lines 281-294: the reply is written out, or its send fails.
ChildReply(g) ==
    /\ child[g] = "replying"
    /\ serving' = [serving EXCEPT ![g] = None]
    /\ \/ /\ ParentOpen(g)
          /\ \E status \in Statuses : ChildSends(g, status, serving[g])
          /\ child' = [child EXCEPT ![g] = "serving"]
       \/ /\ ~ParentOpen(g)
          /\ child' = [child EXCEPT ![g] = "closing"]
          /\ UNCHANGED toParent
    /\ UNCHANGED <<lock, fields, shutdownRequested, pc, outcome, reply,
                   expired, gens, toChild, faults>>

\* Lines 295-297, then the exit of the process, or the death of one that a
\* pending SIGKILL reaches at last.
ChildEnd(g) ==
    /\ \/ child[g] = "closing" /\ child' = [child EXCEPT ![g] = "closed"]
       \/ child[g] \in {"closed", "killed"} /\ child' = [child EXCEPT ![g] = "dead"]
    /\ UNCHANGED <<lock, fields, shutdownRequested, pc, outcome, reply,
                   expired, gens, serving, toChild, toParent, faults>>

\* The child is killed from outside, or crashes.
ChildCrash(g) ==
    /\ Alive(g)
    /\ Fault
    /\ child' = [child EXCEPT ![g] = "dead"]
    /\ UNCHANGED <<lock, fields, shutdownRequested, pc, outcome, reply,
                   expired, gens, serving, toChild, toParent>>

ChildStep(g) ==
    \/ ChildWarm(g)
    \/ ChildReceive(g)
    \/ ChildSolves(g)
    \/ ChildReply(g)
    \/ ChildEnd(g)

-----------------------------------------------------------------------------
\* The server has shut down and nothing is left to run.
Terminated ==
    /\ pc[Stopper] = "done"
    /\ \A t \in Threads : pc[t] \in {"idle", "done"}
    /\ \A g \in Gens : ~Alive(g)
    /\ UNCHANGED vars

Next ==
    \/ \E t \in Threads : Acquire(t) \/ Stop(t) \/ Start(t)
    \/ \E c \in Clients : CallExecute(c) \/ Expire(c) \/ Execute(c)
    \/ \E p \in Pollers : Poll(p)
    \/ \E g \in Gens : ChildStep(g) \/ ChildWarmFails(g) \/ ChildCrash(g)
    \/ CallStart \/ RestartExits \/ CallShutdown \/ ShutdownJoins
    \/ Terminated

Spec == Init /\ [][Next]_vars

\* Every thread keeps running; whoever waits for operation_lock gets it if it
\* is released again and again; deadlines pass.
ThreadFairness ==
    /\ \A t \in Threads : SF_vars(Acquire(t)) /\ WF_vars(Stop(t)) /\ WF_vars(Start(t))
    /\ \A c \in Clients : WF_vars(Execute(c)) /\ WF_vars(Expire(c))
    /\ \A p \in Pollers : WF_vars(Poll(p))
    /\ WF_vars(CallStart) /\ WF_vars(RestartExits) /\ WF_vars(ShutdownJoins)

\* A child keeps running, except that its solve may take for ever: that is
\* what the deadlines are for.
ChildFairness ==
    \A g \in Gens : /\ WF_vars(ChildWarm(g))
                    /\ WF_vars(ChildReceive(g))
                    /\ WF_vars(ChildReply(g))
                    /\ WF_vars(ChildEnd(g))

\* A child that waits for a message reads it, and one that has begun a reply
\* writes it out: nothing suspends it in the middle of a message.
ChildrenTalk ==
    \A g \in Gens : WF_vars(ChildReceive(g)) /\ WF_vars(ChildReply(g))

ThreadsSpec == Spec /\ ThreadFairness

-----------------------------------------------------------------------------
(* Properties.                                                              *)

FlagsOK == isReady \in BOOLEAN /\ shutdownRequested \in BOOLEAN

ThreadsOK ==
    /\ lock \in Threads \cup {None}
    /\ pc \in [Threads -> Labels]
    /\ outcome \in [Threads -> Outcomes]
    /\ expired \in [Clients -> BOOLEAN]

WorkerOK ==
    /\ connection \in Gens \cup {NoGen} /\ process \in Gens \cup {NoGen}
    /\ gens \in 0..MaxGen /\ faults \in 0..MaxFaults
    /\ child \in [Gens -> ChildStates]

MessagesOK ==
    /\ reply \in [Clients -> Clients \cup {None}]
    /\ serving \in [Gens -> Clients \cup {None}]
    /\ toChild \in [Gens -> Seq(Clients \cup {None})]
    /\ toParent \in [Gens -> Seq(Replies)]

\* Every variable has its type.
TypeOK == FlagsOK /\ ThreadsOK /\ WorkerOK /\ MessagesOK

\* A caller of execute() that is given a reply is given the reply to its own
\* request: the reply to a request that missed its deadline is never read by
\* the next caller, whatever the order of timeouts, crashes and restarts.
OwnReply == \A c \in Clients : outcome[c] \in ReplyStatuses => reply[c] = c

\* What is under way on the pipe of child g for request c, in three forms:
\* not read yet, being solved and answered, or answered.
Exchange(g, c) ==
    \/ toChild[g] = <<c>> /\ serving[g] = None /\ toParent[g] = <<>>
    \/ toChild[g] = <<>> /\ serving[g] = c /\ toParent[g] = <<>>
    \/ /\ toChild[g] = <<>> /\ serving[g] = None
       /\ Len(toParent[g]) = 1 /\ toParent[g][1].request = c

Quiet(g) == toChild[g] = <<>> /\ serving[g] = None /\ toParent[g] = <<>>

\* A ready worker whose pipe is open is either quiet or holds one request in
\* one place, the request of the thread that holds the lock and awaits it: no
\* child works on a request that nobody awaits.
OneExchange ==
    isReady /\ PipeOpen(connection) =>
        IF \E c \in Clients : pc[c] \in Awaiting
        THEN lock \in Clients /\ pc[lock] \in Awaiting /\ Exchange(connection, lock)
        ELSE Quiet(connection) \/ (lock \in Clients /\ pc[lock] = "detach")

\* A living child is the one whose handle is kept: a replacement is never
\* started beside a process that survived its kill, and none is orphaned.
OneProcess == \A g \in Gens : Alive(g) => process = g

\* Once shutdown() has returned True no child is alive.
ShutdownIsFinal ==
    pc[Stopper] = "done" /\ outcome[Stopper] = "stopped" =>
        \A g \in Gens : ~Alive(g)

\* No child is spawned once the stop() of shutdown() is over, by a restart
\* thread, a probe or a request that was waiting for the lock.
NoSpawnAfterShutdown ==
    [][pc[Stopper] \in {"joining", "done"} => gens' = gens]_vars

\* Every request that entered execute() ends, although a solve may hang, if
\* its children get ready and finish the messages they begin.
RequestsFinish ==
    ChildFairness => \A c \in Clients : pc[c] = "acquire" ~> pc[c] = "done"

\* shutdown() ends, although a child may never get ready, never end its solve
\* and never exit: whoever waits for that under the lock lets go of it.  The
\* hypothesis is needed: the send of execute and of stop and the recv of
\* execute have no deadline, so a child suspended in the middle of a message
\* keeps the lock from shutdown() for ever.
ShutdownFinishes == ChildrenTalk => (shutdownRequested ~> pc[Stopper] = "done")

\* With probes, a server that started and is not shut down ends up with a
\* ready worker, if its children keep running: no order of crashes, failed
\* restarts and survived kills leaves it without one for ever.
EventuallyReady ==
    ChildFairness => <>[](Ready \/ shutdownRequested \/ outcome[Starter] = "raised")

\* docs/reference/http-api.md:266: /health answers 200 or 503.
HealthAnswers ==
    \A p \in Pollers : ~shutdownRequested => outcome[p] # "attribute-error"
=============================================================================
