----------------------- MODULE PersistentWorkerProofs -----------------------
(***************************************************************************)
(* Theorems of PersistentWorker, for every number of clients and probes    *)
(* and every bound.  First about its processes: its types, that at most    *)
(* one child lives, and that shutdown() is final.  Then about its pipe:    *)
(* every client is given the reply to its own request.                     *)
(***************************************************************************)
EXTENDS PersistentWorker, SequenceTheorems, TLAPS

\* operation_lock: no two threads are inside an operation.
Exclusion == \A t \in Threads : pc[t] \in Locked => lock = t

\* A thread that uses the pipe has one.
HasPipe ==
    \A t \in Threads :
        pc[t] \in Awaiting \cup {"send", "leave", "warming"} =>
            connection # NoGen

\* The labels of Awaiting are told apart wherever a program counter is.
USE DEF Awaiting

\* The invariant that makes the types inductive: what a client reads as the
\* reply to its request, and the child it reads it from, have their types
\* because no other thread can detach the pipe meanwhile.
TypeInv == TypeOK /\ Exclusion /\ HasPipe

\* Membership of the threads, for the leaves that need no more of them.
LEMMA ClientsAreThreads == Clients \subseteq Threads
BY DEF Threads

\* Membership of the shutdown thread.
LEMMA StopperIsThread == Stopper \in Threads
BY DEF Threads

\* The initial state has the types, no thread inside an operation, no pipe.
LEMMA TypeInvInit == Init => TypeInv
<1> SUFFICES ASSUME Init PROVE TypeInv
  OBVIOUS
<1>1. FlagsOK
  BY DEF Init, FlagsOK
<1>2. ThreadsOK
  BY DEF Init, ThreadsOK, Labels, Outcomes
<1>3. WorkerOK
  BY BoundsAssumption DEF Init, WorkerOK, ChildStates, NoGen, BoundsAssumption
<1>4. MessagesOK
  BY DEF Init, MessagesOK
<1>5. Exclusion /\ HasPipe
  BY DEF Init, Exclusion, HasPipe, Locked
<1> QED
  BY <1>1, <1>2, <1>3, <1>4, <1>5 DEF TypeInv, TypeOK

-----------------------------------------------------------------------------
(* Every step keeps the types; one case for each operation.                 *)

\* Every step keeps the types of is_ready and _shutdown_requested.
LEMMA FlagsStep ==
  ASSUME FlagsOK, [Next]_vars
  PROVE  FlagsOK'
<1>1. ASSUME NEW t \in Threads, Acquire(t) PROVE FlagsOK'
  BY <1>1 DEF Acquire, fields, FlagsOK
<1>2. ASSUME NEW t \in Threads, Stop(t) PROVE FlagsOK'
  BY <1>2
  DEF Stop, StopBlocks, StopDetach, StopForRecovery, StopForStart,
      StopForShutdown, FlagsOK
<1>3. ASSUME NEW t \in Threads, Start(t) PROVE FlagsOK'
  BY <1>3
  DEF Start, StartBegin, StartSpawn, StartSpawnFails, StartSpawnHalfFails,
      StartInterrupted, StartTimesOut, StartReply, MayStart, fields, FlagsOK
<1>4. ASSUME NEW c \in Clients, CallExecute(c) \/ Expire(c) PROVE FlagsOK'
  BY <1>4 DEF CallExecute, fields, Expire, FlagsOK
<1>5. ASSUME NEW c \in Clients, Execute(c) PROVE FlagsOK'
  BY <1>5
  DEF Execute, ExecuteBegin, ExecuteSend, ExecuteSent, ExecutePolls,
      ExecutePoll, ExecuteBrokenPipe, ExecuteTimesOut,
      ExecuteReply, ExecutePipeEnd, fields, FlagsOK
<1>6. ASSUME NEW p \in Pollers, Poll(p) PROVE FlagsOK'
  BY <1>6
  DEF Poll, PollIsReady, PollProcess, PollIsAlive, PollRecover, fields, FlagsOK
<1>7. ASSUME NEW g \in Gens, ChildStep(g) \/ ChildWarmFails(g) \/ ChildCrash(g)
      PROVE  FlagsOK'
  BY <1>7
  DEF ChildStep, ChildWarm, ChildReceive, ChildSolves, ChildReply, ChildEnd,
      fields,
      ChildWarmFails, ChildCrash, FlagsOK
<1>8. ASSUME CallStart \/ RestartExits \/ CallShutdown \/ ShutdownJoins
      PROVE  FlagsOK'
  BY <1>8
  DEF CallStart, fields, RestartExits, CallShutdown, ShutdownJoins, FlagsOK
<1>9. CASE UNCHANGED vars
  BY <1>9 DEF vars, fields, FlagsOK
<1> QED
  BY <1>1, <1>2, <1>3, <1>4, <1>5, <1>6, <1>7, <1>8, <1>9 DEF Next, Terminated

\* Every step keeps the types of the lock and of where the threads are.
LEMMA ThreadsStep ==
  ASSUME ThreadsOK, [Next]_vars
  PROVE  ThreadsOK'
<1>1. ASSUME NEW t \in Threads, Acquire(t) PROVE ThreadsOK'
  BY <1>1 DEF Acquire, GoTo, ThreadsOK, Labels, Outcomes, Threads, End
<1>2. ASSUME NEW t \in Threads, Stop(t) PROVE ThreadsOK'
  BY <1>2
  DEF Stop, StopBlocks, StopDetach, StopForRecovery, StopForStart,
      StopForShutdown, GoTo,
      Leave, ThreadsOK, Labels, Outcomes, Threads, End
<1>3. ASSUME NEW t \in Threads, Start(t) PROVE ThreadsOK'
  BY <1>3
  DEF Start, StartBegin, StartSpawn, StartSpawnFails, StartSpawnHalfFails,
      StartInterrupted, StartTimesOut, StartReply, MayStart, Leave, Abandon,
      GoTo, ThreadsOK, Labels, Outcomes, Threads, End
<1>4. ASSUME NEW c \in Clients, CallExecute(c) \/ Expire(c) PROVE ThreadsOK'
  BY <1>4
  DEF CallExecute, GoTo, Expire, ThreadsOK, Labels, Outcomes, Threads, End
<1>5. ASSUME NEW c \in Clients, Execute(c) PROVE ThreadsOK'
  <2>1. CASE ExecuteReply(c)
    <3> DEFINE status == Head(toParent[connection]).status
    <3>1. IF status \in {"ok", "unknown-format", "workspace-error"}
          THEN status \in Outcomes ELSE "error" \in Outcomes
      BY DEF Outcomes, ReplyStatuses
    <3> QED
      BY <2>1, <3>1 DEF ExecuteReply, GoTo, Leave, ThreadsOK, Threads, Labels
  <2>2. CASE ~ExecuteReply(c)
    BY <1>5, <2>2
    DEF Execute, ExecuteBegin, ExecuteSend, ExecuteSent, ExecutePolls,
        ExecutePoll, ExecuteBrokenPipe, ExecuteTimesOut,
        ExecutePipeEnd, Leave, Abandon, GoTo, fields, children, ThreadsOK,
        Labels, Outcomes, Threads, End
  <2> QED
    BY <2>1, <2>2
<1>6. ASSUME NEW p \in Pollers, Poll(p) PROVE ThreadsOK'
  BY <1>6
  DEF Poll, PollIsReady, PollProcess, PollIsAlive, PollRecover, GoTo, Leave,
      Abandon, ThreadsOK, Labels, Outcomes, Threads, End
<1>7. ASSUME NEW g \in Gens, ChildStep(g) \/ ChildWarmFails(g) \/ ChildCrash(g)
      PROVE  ThreadsOK'
  BY <1>7
  DEF ChildStep, ChildWarm, ChildReceive, ChildSolves, ChildReply, ChildEnd,
      ChildWarmFails,
      ChildCrash, ThreadsOK, Labels, Outcomes, Threads, End
<1>8. ASSUME CallStart \/ RestartExits \/ CallShutdown \/ ShutdownJoins
      PROVE  ThreadsOK'
  BY <1>8
  DEF CallStart, GoTo, RestartExits, CallShutdown, ShutdownJoins, ThreadsOK,
      Labels, Outcomes, Threads, End
<1>9. CASE UNCHANGED vars
  BY <1>9 DEF vars, ThreadsOK
<1> QED
  BY <1>1, <1>2, <1>3, <1>4, <1>5, <1>6, <1>7, <1>8, <1>9 DEF Next, Terminated

\* Every step keeps the types of the handles, the counters and the children.
LEMMA WorkerStep ==
  ASSUME WorkerOK, [Next]_vars
  PROVE  WorkerOK'
<1>1. ASSUME NEW t \in Threads, Acquire(t) PROVE WorkerOK'
  BY <1>1, BoundsAssumption
  DEF Acquire, fields, children, WorkerOK, NoGen, Gens, ChildStates,
      BoundsAssumption
<1>2. ASSUME NEW t \in Threads, Stop(t) PROVE WorkerOK'
  <2>1. ASSUME NEW stopped \in BOOLEAN, JoinProcess(stopped)
        PROVE  process' \in Gens \cup {NoGen} /\ faults' \in 0..MaxFaults
               /\ child' \in [Gens -> ChildStates]
    BY <2>1, BoundsAssumption
    DEF JoinProcess, Fault, WorkerOK, ChildStates, BoundsAssumption
  <2> QED
    BY <1>2, <2>1
    DEF Stop, StopBlocks, StopDetach, StopForRecovery, StopForStart,
        StopForShutdown, children, WorkerOK, NoGen
<1>3. ASSUME NEW t \in Threads, Start(t) PROVE WorkerOK'
  BY <1>3, BoundsAssumption
  DEF Start, StartBegin, StartSpawn, StartSpawnFails, StartSpawnHalfFails,
      StartInterrupted, StartTimesOut, StartReply, MayStart, fields, children,
      Fault, WorkerOK, NoGen, Gens, ChildStates, BoundsAssumption
<1>4. ASSUME NEW c \in Clients, CallExecute(c) \/ Expire(c) PROVE WorkerOK'
  BY <1>4, BoundsAssumption
  DEF CallExecute, fields, children, Expire, WorkerOK, NoGen, Gens,
      ChildStates, BoundsAssumption
<1>5. ASSUME NEW c \in Clients, Execute(c) PROVE WorkerOK'
  BY <1>5, BoundsAssumption
  DEF Execute, ExecuteBegin, ExecuteSend, ExecuteSent, ExecutePolls,
      ExecutePoll, ExecuteBrokenPipe, ExecuteTimesOut,
      ExecuteReply, ExecutePipeEnd, fields, children, WorkerOK, NoGen, Gens,
      ChildStates, BoundsAssumption
<1>6. ASSUME NEW p \in Pollers, Poll(p) PROVE WorkerOK'
  BY <1>6, BoundsAssumption
  DEF Poll, PollIsReady, PollProcess, PollIsAlive, PollRecover, fields,
      children, WorkerOK, NoGen, Gens, ChildStates, BoundsAssumption
<1>7. ASSUME NEW g \in Gens, ChildStep(g) \/ ChildWarmFails(g) \/ ChildCrash(g)
      PROVE  WorkerOK'
  BY <1>7, BoundsAssumption
  DEF ChildStep, ChildWarm, ChildReceive, ChildSolves, ChildReply, ChildEnd,
      fields,
      ChildWarmFails, Fault, ChildCrash, WorkerOK, NoGen, Gens, ChildStates,
      BoundsAssumption
<1>8. ASSUME CallStart \/ RestartExits \/ CallShutdown \/ ShutdownJoins
      PROVE  WorkerOK'
  BY <1>8, BoundsAssumption
  DEF CallStart, fields, children, RestartExits, CallShutdown, ShutdownJoins,
      WorkerOK, NoGen, Gens, ChildStates, BoundsAssumption
<1>9. CASE UNCHANGED vars
  BY <1>9 DEF vars, fields, children, WorkerOK
<1> QED
  BY <1>1, <1>2, <1>3, <1>4, <1>5, <1>6, <1>7, <1>8, <1>9 DEF Next, Terminated

\* Every step keeps the types of what is on the pipes; reading needs a pipe.
LEMMA MessagesStep ==
  ASSUME WorkerOK, HasPipe, MessagesOK, [Next]_vars
  PROVE  MessagesOK'
<1>1. ASSUME NEW t \in Threads, Acquire(t) PROVE MessagesOK'
  BY <1>1 DEF Acquire, children, MessagesOK
<1>2. ASSUME NEW t \in Threads, Stop(t) PROVE MessagesOK'
  <2>1. CASE StopDetach(t)
    <3>1. CASE connection \in Gens
      <4>1. Append(toChild[connection], None) \in Seq(Clients \cup {None})
        BY <3>1 DEF MessagesOK
      <4> QED
        BY <2>1, <4>1 DEF StopDetach, MessagesOK
    <3>2. CASE connection = NoGen
      BY <2>1, <3>2 DEF StopDetach, MessagesOK
    <3> QED
      BY <3>1, <3>2 DEF WorkerOK
  <2>2. CASE ~StopDetach(t)
    BY <1>2, <2>2
    DEF Stop, StopBlocks, StopForRecovery, StopForStart, StopForShutdown,
        children, MessagesOK
  <2> QED
    BY <2>1, <2>2
<1>3. ASSUME NEW t \in Threads, Start(t) PROVE MessagesOK'
  <2>1. CASE StartReply(t)
    <3>1. connection \in Gens
      BY <2>1 DEF StartReply, HasPipe, WorkerOK
    <3>2. toParent[connection] # <<>> =>
             Tail(toParent[connection]) \in Seq(Replies)
      BY <3>1, HeadTailProperties DEF MessagesOK
    <3> QED
      BY <2>1, <3>2 DEF StartReply, MessagesOK
  <2>2. CASE ~StartReply(t)
    BY <1>3, <2>2
    DEF Start, StartBegin, StartSpawn, StartSpawnFails, StartSpawnHalfFails,
        StartInterrupted, StartTimesOut, MayStart, Leave, Abandon, fields,
        children, GoTo, Fault, MessagesOK
  <2> QED
    BY <2>1, <2>2
<1>4. ASSUME NEW c \in Clients, CallExecute(c) \/ Expire(c) PROVE MessagesOK'
  BY <1>4 DEF CallExecute, children, Expire, MessagesOK
<1>5. ASSUME NEW c \in Clients, Execute(c) PROVE MessagesOK'
  <2>1. CASE ExecuteSend(c)
    <3>1. connection \in Gens /\ c \in Clients \cup {None}
      BY <2>1, ClientsAreThreads DEF ExecuteSend, HasPipe, WorkerOK
    <3>2. Append(toChild[connection], c) \in Seq(Clients \cup {None})
      BY <3>1 DEF MessagesOK
    <3> QED
      BY <2>1, <3>2 DEF ExecuteSend, MessagesOK
  <2>2. CASE ExecuteReply(c)
    <3>1. connection \in Gens /\ toParent[connection] # <<>>
      BY <2>2, ClientsAreThreads DEF ExecuteReply, HasPipe, WorkerOK
    <3>2. /\ Head(toParent[connection]) \in Replies
          /\ Tail(toParent[connection]) \in Seq(Replies)
      BY <3>1, HeadTailProperties DEF MessagesOK
    <3>3. Head(toParent[connection]).request \in Clients \cup {None}
      BY <3>2 DEF Replies
    <3> QED
      BY <2>2, <3>2, <3>3 DEF ExecuteReply, MessagesOK
  <2>3. CASE ~ExecuteSend(c) /\ ~ExecuteReply(c)
    BY <1>5, <2>3
    DEF Execute, ExecuteBegin, ExecuteSent, ExecutePolls, ExecutePoll,
        ExecuteBrokenPipe, ExecuteTimesOut,
        ExecutePipeEnd, Leave, Abandon, GoTo, fields, children, MessagesOK
  <2> QED
    BY <2>1, <2>2, <2>3
<1>6. ASSUME NEW p \in Pollers, Poll(p) PROVE MessagesOK'
  BY <1>6
  DEF Poll, PollIsReady, PollProcess, PollIsAlive, PollRecover, children,
      MessagesOK
<1>7. ASSUME NEW g \in Gens, ChildStep(g) \/ ChildWarmFails(g) \/ ChildCrash(g)
      PROVE  MessagesOK'
  <2>1. ASSUME NEW status \in ReplyStatuses \cup {"ready", "startup-failed"},
               NEW request \in Clients \cup {None},
               ChildSends(g, status, request)
        PROVE  toParent' \in [Gens -> Seq(Replies)]
    <3>1. [status |-> status, request |-> request] \in Replies
      BY DEF Replies
    <3>2. Append(toParent[g], [status |-> status, request |-> request])
             \in Seq(Replies)
      BY <3>1 DEF MessagesOK
    <3> QED
      BY <2>1, <3>2 DEF ChildSends, MessagesOK
  <2>2. CASE ChildWarm(g)
    BY <2>1, <2>2 DEF ChildWarm, MessagesOK
  <2>3. CASE ChildWarmFails(g)
    BY <2>1, <2>3 DEF ChildWarmFails, MessagesOK
  <2>4. CASE ChildReceive(g)
    <3>1. toChild[g] # <<>> =>
             /\ Head(toChild[g]) \in Clients \cup {None}
             /\ Tail(toChild[g]) \in Seq(Clients \cup {None})
      BY HeadTailProperties DEF MessagesOK
    <3>2. serving' \in [Gens -> Clients \cup {None}]
      BY <2>4, <3>1 DEF ChildReceive, MessagesOK
    <3>3. toChild' \in [Gens -> Seq(Clients \cup {None})]
      BY <2>4, <3>1 DEF ChildReceive, MessagesOK
    <3> QED
      BY <2>4, <3>2, <3>3 DEF ChildReceive, MessagesOK
  <2>5. CASE ChildReply(g)
    <3>1. \A status \in Statuses :
             ChildSends(g, status, serving[g])
                => toParent' \in [Gens -> Seq(Replies)]
      BY <2>1, StatusesAssumption DEF StatusesAssumption, MessagesOK
    <3> QED
      BY <2>5, <3>1 DEF ChildReply, MessagesOK
  <2>6. CASE ChildSolves(g) \/ ChildEnd(g) \/ ChildCrash(g)
    BY <2>6 DEF ChildSolves, ChildEnd, ChildCrash, MessagesOK
  <2> QED
    BY <1>7, <2>2, <2>3, <2>4, <2>5, <2>6 DEF ChildStep
<1>8. ASSUME CallStart \/ RestartExits \/ CallShutdown \/ ShutdownJoins
      PROVE  MessagesOK'
  BY <1>8
  DEF CallStart, children, RestartExits, CallShutdown, ShutdownJoins,
      MessagesOK
<1>9. CASE UNCHANGED vars
  BY <1>9 DEF vars, children, MessagesOK
<1> QED
  BY <1>1, <1>2, <1>3, <1>4, <1>5, <1>6, <1>7, <1>8, <1>9 DEF Next, Terminated

-----------------------------------------------------------------------------
(* operation_lock excludes, and keeps the pipe for the thread that uses it. *)

\* Every step keeps mutual exclusion: only Acquire takes the lock.
LEMMA ExclusionStep ==
  ASSUME ThreadsOK, Exclusion, [Next]_vars
  PROVE  Exclusion'
<1>1. ASSUME NEW t \in Threads, Acquire(t) PROVE Exclusion'
  BY <1>1, ThreadsAssumption
  DEF Acquire, GoTo, ThreadsOK, Exclusion, Locked, Threads, End,
      ThreadsAssumption
<1>2. ASSUME NEW t \in Threads, Stop(t) PROVE Exclusion'
  BY <1>2, ThreadsAssumption
  DEF Stop, StopBlocks, StopDetach, StopForRecovery, StopForStart,
      StopForShutdown, GoTo,
      Leave, ThreadsOK, Exclusion, Locked, Threads, End, ThreadsAssumption
<1>3. ASSUME NEW t \in Threads, Start(t) PROVE Exclusion'
  BY <1>3, ThreadsAssumption
  DEF Start, StartBegin, StartSpawn, StartSpawnFails, StartSpawnHalfFails,
      StartInterrupted, StartTimesOut, StartReply, MayStart, Leave, Abandon,
      GoTo, ThreadsOK, Exclusion, Locked, Threads, End, ThreadsAssumption
<1>4. ASSUME NEW c \in Clients, CallExecute(c) \/ Expire(c) PROVE Exclusion'
  BY <1>4, ThreadsAssumption
  DEF CallExecute, GoTo, Expire, ThreadsOK, Exclusion, Locked, Threads, End,
      ThreadsAssumption
<1>5. ASSUME NEW c \in Clients, Execute(c) PROVE Exclusion'
  BY <1>5, ThreadsAssumption
  DEF Execute, ExecuteBegin, ExecuteSend, ExecuteSent, ExecutePolls,
      ExecutePoll, ExecuteBrokenPipe, ExecuteTimesOut,
      ExecuteReply, ExecutePipeEnd, Leave, Abandon, GoTo, ThreadsOK, Exclusion,
      Locked, Threads, End, ThreadsAssumption
<1>6. ASSUME NEW p \in Pollers, Poll(p) PROVE Exclusion'
  BY <1>6, ThreadsAssumption
  DEF Poll, PollIsReady, PollProcess, PollIsAlive, PollRecover, GoTo, Leave,
      Abandon, ThreadsOK, Exclusion, Locked, Threads, End, ThreadsAssumption
<1>7. ASSUME NEW g \in Gens, ChildStep(g) \/ ChildWarmFails(g) \/ ChildCrash(g)
      PROVE  Exclusion'
  BY <1>7, ThreadsAssumption
  DEF ChildStep, ChildWarm, ChildReceive, ChildSolves, ChildReply, ChildEnd,
      ChildWarmFails,
      ChildCrash, ThreadsOK, Exclusion, Locked, Threads, End, ThreadsAssumption
<1>8. ASSUME CallStart \/ RestartExits \/ CallShutdown \/ ShutdownJoins
      PROVE  Exclusion'
  BY <1>8, ThreadsAssumption
  DEF CallStart, GoTo, RestartExits, CallShutdown, ShutdownJoins, ThreadsOK,
      Exclusion, Locked, Threads, End, ThreadsAssumption
<1>9. CASE UNCHANGED vars
  BY <1>9 DEF vars, ThreadsOK, Exclusion
<1> QED
  BY <1>1, <1>2, <1>3, <1>4, <1>5, <1>6, <1>7, <1>8, <1>9 DEF Next, Terminated

\* Every step keeps the pipe of the thread that uses it, by exclusion.
LEMMA HasPipeStep ==
  ASSUME ThreadsOK, WorkerOK, Exclusion, HasPipe, [Next]_vars
  PROVE  HasPipe'
<1>1. ASSUME NEW t \in Threads, Acquire(t) PROVE HasPipe'
  BY <1>1, ThreadsAssumption
  DEF Acquire, GoTo, fields, ThreadsOK, WorkerOK, HasPipe, Exclusion, Locked,
      Threads, End, NoGen, ThreadsAssumption
<1>2. ASSUME NEW t \in Threads, Stop(t) PROVE HasPipe'
  BY <1>2, ThreadsAssumption
  DEF Stop, StopBlocks, StopDetach, StopForRecovery, StopForStart,
      StopForShutdown, GoTo,
      Leave, ThreadsOK, WorkerOK, HasPipe, Exclusion, Locked, Threads, End,
      NoGen, ThreadsAssumption
<1>3. ASSUME NEW t \in Threads, Start(t) PROVE HasPipe'
  BY <1>3, ThreadsAssumption
  DEF Start, StartBegin, StartSpawn, StartSpawnFails, StartSpawnHalfFails,
      StartInterrupted, StartTimesOut, StartReply, MayStart, Leave, Abandon,
      fields, GoTo, ThreadsOK, WorkerOK, HasPipe, Exclusion, Locked, Threads,
      End, NoGen, ThreadsAssumption
<1>4. ASSUME NEW c \in Clients, CallExecute(c) \/ Expire(c) PROVE HasPipe'
  BY <1>4, ThreadsAssumption
  DEF CallExecute, GoTo, fields, Expire, ThreadsOK, WorkerOK, HasPipe,
      Exclusion, Locked, Threads, End, NoGen, ThreadsAssumption
<1>5. ASSUME NEW c \in Clients, Execute(c) PROVE HasPipe'
  BY <1>5, ThreadsAssumption
  DEF Execute, ExecuteBegin, ExecuteSend, ExecuteSent, ExecutePolls,
      ExecutePoll, ExecuteBrokenPipe, ExecuteTimesOut,
      ExecuteReply, ExecutePipeEnd, Leave, Abandon, GoTo, fields, ThreadsOK,
      WorkerOK, HasPipe, Exclusion, Locked, Threads, End, NoGen,
      ThreadsAssumption
<1>6. ASSUME NEW p \in Pollers, Poll(p) PROVE HasPipe'
  BY <1>6, ThreadsAssumption
  DEF Poll, PollIsReady, PollProcess, PollIsAlive, PollRecover, GoTo, fields,
      Leave, Abandon, ThreadsOK, WorkerOK, HasPipe, Exclusion, Locked, Threads,
      End, NoGen, ThreadsAssumption
<1>7. ASSUME NEW g \in Gens, ChildStep(g) \/ ChildWarmFails(g) \/ ChildCrash(g)
      PROVE  HasPipe'
  BY <1>7, ThreadsAssumption
  DEF ChildStep, ChildWarm, ChildReceive, ChildSolves, ChildReply, ChildEnd,
      fields,
      ChildWarmFails, ChildCrash, ThreadsOK, WorkerOK, HasPipe, Exclusion,
      Locked, Threads, End, NoGen, ThreadsAssumption
<1>8. ASSUME CallStart \/ RestartExits \/ CallShutdown \/ ShutdownJoins
      PROVE  HasPipe'
  BY <1>8, ThreadsAssumption
  DEF CallStart, GoTo, fields, RestartExits, CallShutdown, ShutdownJoins,
      ThreadsOK, WorkerOK, HasPipe, Exclusion, Locked, Threads, End, NoGen,
      ThreadsAssumption
<1>9. CASE UNCHANGED vars
  BY <1>9 DEF vars, fields, ThreadsOK, WorkerOK, HasPipe, Exclusion
<1> QED
  BY <1>1, <1>2, <1>3, <1>4, <1>5, <1>6, <1>7, <1>8, <1>9 DEF Next, Terminated

\* The types with what makes them inductive.
LEMMA TypeInvariance == Spec => []TypeInv
<1>1. TypeInv /\ [Next]_vars => TypeInv'
  BY FlagsStep, ThreadsStep, WorkerStep, MessagesStep, ExclusionStep,
     HasPipeStep
  DEF TypeInv, TypeOK
<1> QED
  BY <1>1, TypeInvInit, PTL DEF Spec

\* Every variable keeps its type, whatever the threads and children do.
THEOREM TypeCorrect == Spec => []TypeOK
BY TypeInvariance, PTL DEF TypeInv

-----------------------------------------------------------------------------
(* One child at a time.                                                     *)

\* start() creates a process only when stop() has left none.
SpawnsAlone == \A t \in Threads : pc[t] = "spawn" => process = NoGen

\* Every step keeps the worker without a process while a thread is to spawn.
LEMMA SpawnsAloneStep ==
  ASSUME ThreadsOK, WorkerOK, Exclusion, SpawnsAlone, [Next]_vars
  PROVE  SpawnsAlone'
<1>1. ASSUME NEW t \in Threads, Acquire(t) PROVE SpawnsAlone'
  BY <1>1, ThreadsAssumption
  DEF Acquire, GoTo, fields, ThreadsOK, Exclusion, Locked, Threads,
      ThreadsAssumption, End, WorkerOK, SpawnsAlone
<1>2. ASSUME NEW t \in Threads, Stop(t) PROVE SpawnsAlone'
  BY <1>2, ThreadsAssumption
  DEF Stop, StopBlocks, StopDetach, StopForRecovery, StopForStart,
      StopForShutdown, GoTo,
      JoinProcess, Leave, ThreadsOK, Exclusion, Locked, Threads,
      ThreadsAssumption, End, WorkerOK, SpawnsAlone
<1>3. ASSUME NEW t \in Threads, Start(t) PROVE SpawnsAlone'
  BY <1>3, ThreadsAssumption
  DEF Start, StartBegin, StartSpawn, StartSpawnFails, StartSpawnHalfFails,
      StartInterrupted, StartTimesOut, StartReply, MayStart, Leave, Abandon,
      fields, GoTo, ThreadsOK, Exclusion, Locked, Threads, ThreadsAssumption,
      End, WorkerOK, SpawnsAlone
<1>4. ASSUME NEW c \in Clients, CallExecute(c) \/ Expire(c) PROVE SpawnsAlone'
  BY <1>4, ThreadsAssumption
  DEF CallExecute, GoTo, fields, Expire, ThreadsOK, Exclusion, Locked, Threads,
      ThreadsAssumption, End, WorkerOK, SpawnsAlone
<1>5. ASSUME NEW c \in Clients, Execute(c) PROVE SpawnsAlone'
  BY <1>5, ThreadsAssumption
  DEF Execute, ExecuteBegin, ExecuteSend, ExecuteSent, ExecutePolls,
      ExecutePoll, ExecuteBrokenPipe, ExecuteTimesOut,
      ExecuteReply, ExecutePipeEnd, Leave, Abandon, GoTo, fields, ThreadsOK,
      Exclusion, Locked, Threads, ThreadsAssumption, End, WorkerOK, SpawnsAlone
<1>6. ASSUME NEW p \in Pollers, Poll(p) PROVE SpawnsAlone'
  BY <1>6, ThreadsAssumption
  DEF Poll, PollIsReady, PollProcess, PollIsAlive, PollRecover, GoTo, fields,
      Leave, Abandon, ThreadsOK, Exclusion, Locked, Threads, ThreadsAssumption,
      End, WorkerOK, SpawnsAlone
<1>7. ASSUME NEW g \in Gens, ChildStep(g) \/ ChildWarmFails(g) \/ ChildCrash(g)
      PROVE  SpawnsAlone'
  BY <1>7, ThreadsAssumption
  DEF ChildStep, ChildWarm, ChildReceive, ChildSolves, ChildReply, ChildEnd,
      fields,
      ChildWarmFails, ChildCrash, ThreadsOK, Exclusion, Locked, Threads,
      ThreadsAssumption, End, WorkerOK, SpawnsAlone
<1>8. ASSUME CallStart \/ RestartExits \/ CallShutdown \/ ShutdownJoins
      PROVE  SpawnsAlone'
  BY <1>8, ThreadsAssumption
  DEF CallStart, GoTo, fields, RestartExits, CallShutdown, ShutdownJoins,
      ThreadsOK, Exclusion, Locked, Threads, ThreadsAssumption, End, WorkerOK,
      SpawnsAlone
<1>9. CASE UNCHANGED vars
  BY <1>9 DEF vars, fields, ThreadsOK, Exclusion, WorkerOK, SpawnsAlone
<1> QED
  BY <1>1, <1>2, <1>3, <1>4, <1>5, <1>6, <1>7, <1>8, <1>9 DEF Next, Terminated

\* Every step keeps one child at most: a spawn finds none, by SpawnsAlone.
LEMMA OneProcessStep ==
  ASSUME ThreadsOK, WorkerOK, SpawnsAlone, OneProcess, [Next]_vars
  PROVE  OneProcess'
<1>1. ASSUME NEW t \in Threads, Acquire(t) PROVE OneProcess'
  BY <1>1, ThreadsAssumption
  DEF Acquire, fields, children, ThreadsOK, WorkerOK, SpawnsAlone, OneProcess,
      Alive, NoGen, Gens, ChildStates, Threads, ThreadsAssumption
<1>2. ASSUME NEW t \in Threads, Stop(t) PROVE OneProcess'
  <2>1. ASSUME NEW stopped \in BOOLEAN, JoinProcess(stopped)
        PROVE  OneProcess'
    BY <2>1 DEF JoinProcess, OneProcess, Alive, WorkerOK, ChildStates
  <2>2. CASE StopDetach(t)
    BY <2>2 DEF StopDetach, OneProcess, Alive
  <2> QED
    BY <1>2, <2>1, <2>2
    DEF Stop, StopBlocks, StopForRecovery, StopForStart, StopForShutdown,
        children, OneProcess, Alive
<1>3. ASSUME NEW t \in Threads, Start(t) PROVE OneProcess'
  <2>1. CASE StartSpawn(t) \/ StartSpawnHalfFails(t)
    <3>1. process = NoGen
      BY <2>1 DEF StartSpawn, StartSpawnHalfFails, SpawnsAlone
    <3>2. \A g \in Gens : ~Alive(g)
      BY <3>1 DEF OneProcess, NoGen, Gens
    <3> QED
      BY <2>1, <3>2
      DEF StartSpawn, StartSpawnHalfFails, OneProcess, Alive, WorkerOK
  <2>2. CASE ~StartSpawn(t) /\ ~StartSpawnHalfFails(t)
    BY <1>3, <2>2
    DEF Start, StartBegin, StartSpawnFails, StartInterrupted, StartTimesOut,
        StartReply, MayStart, Leave, Abandon, fields, children, GoTo, Fault,
        OneProcess, Alive
  <2> QED
    BY <2>1, <2>2
<1>4. ASSUME NEW c \in Clients, CallExecute(c) \/ Expire(c) PROVE OneProcess'
  BY <1>4, ThreadsAssumption
  DEF CallExecute, fields, children, Expire, ThreadsOK, WorkerOK, SpawnsAlone,
      OneProcess, Alive, NoGen, Gens, ChildStates, Threads, ThreadsAssumption
<1>5. ASSUME NEW c \in Clients, Execute(c) PROVE OneProcess'
  BY <1>5, ThreadsAssumption
  DEF Execute, ExecuteBegin, ExecuteSend, ExecuteSent, ExecutePolls,
      ExecutePoll, ExecuteBrokenPipe, ExecuteTimesOut,
      ExecuteReply, ExecutePipeEnd, fields, children, ThreadsOK, WorkerOK,
      SpawnsAlone, OneProcess, Alive, NoGen, Gens, ChildStates, Threads,
      ThreadsAssumption
<1>6. ASSUME NEW p \in Pollers, Poll(p) PROVE OneProcess'
  BY <1>6, ThreadsAssumption
  DEF Poll, PollIsReady, PollProcess, PollIsAlive, PollRecover, fields,
      children, ThreadsOK, WorkerOK, SpawnsAlone, OneProcess, Alive, NoGen,
      Gens, ChildStates, Threads, ThreadsAssumption
<1>7. ASSUME NEW g \in Gens, ChildStep(g) \/ ChildWarmFails(g) \/ ChildCrash(g)
      PROVE  OneProcess'
  BY <1>7, ThreadsAssumption
  DEF ChildStep, ChildWarm, ChildReceive, ChildSolves, ChildReply, ChildEnd,
      fields,
      ChildWarmFails, ChildCrash, ThreadsOK, WorkerOK, SpawnsAlone, OneProcess,
      Alive, NoGen, Gens, ChildStates, Threads, ThreadsAssumption
<1>8. ASSUME CallStart \/ RestartExits \/ CallShutdown \/ ShutdownJoins
      PROVE  OneProcess'
  BY <1>8, ThreadsAssumption
  DEF CallStart, fields, children, RestartExits, CallShutdown, ShutdownJoins,
      ThreadsOK, WorkerOK, SpawnsAlone, OneProcess, Alive, NoGen, Gens,
      ChildStates, Threads, ThreadsAssumption
<1>9. CASE UNCHANGED vars
  BY <1>9
  DEF vars, fields, children, ThreadsOK, WorkerOK, SpawnsAlone, OneProcess,
      Alive
<1> QED
  BY <1>1, <1>2, <1>3, <1>4, <1>5, <1>6, <1>7, <1>8, <1>9 DEF Next, Terminated

\* The invariant behind OneProcess.
LEMMA ProcessInvariance == Spec => [](TypeInv /\ SpawnsAlone /\ OneProcess)
<1>1. Init => SpawnsAlone /\ OneProcess
  BY DEF Init, SpawnsAlone, OneProcess, Alive
<1>2. TypeInv /\ SpawnsAlone /\ OneProcess /\ [Next]_vars
         => SpawnsAlone' /\ OneProcess'
  BY SpawnsAloneStep, OneProcessStep DEF TypeInv, TypeOK
<1> QED
  BY <1>1, <1>2, TypeInvariance, PTL DEF Spec

\* However restarts, requests, probes and shutdown interleave, and whichever
\* processes survive their kill, a living child is the one whose handle the
\* worker keeps: there are never two.
THEOREM OneProcessAlways == Spec => []OneProcess
BY ProcessInvariance, PTL

-----------------------------------------------------------------------------
(* Shutdown is final.                                                       *)

\* Once the stop() of shutdown() is over no thread is on its way to a spawn.
NothingStarts ==
    /\ pc[Stopper] # "idle" => shutdownRequested
    /\ pc[Stopper] \in {"joining", "done"} =>
          \A t \in Threads :
             /\ pc[t] # "spawn"
             /\ t \in {Starter, Restarter} /\ pc[t] \in {"detach", "leave", "join"} =>
                   outcome[t] # "none"

\* A shutdown() that stopped the process leaves no handle.
NothingKept ==
    pc[Stopper] \in {"joining", "done"} /\ outcome[Stopper] = "stopped" =>
        process = NoGen

\* Every step keeps the threads off the way to a spawn after shutdown().
LEMMA NothingStartsStep ==
  ASSUME FlagsOK, ThreadsOK, Exclusion, NothingStarts, [Next]_vars
  PROVE  NothingStarts'
<1>1. ASSUME NEW t \in Threads, Acquire(t) PROVE NothingStarts'
  BY <1>1, ThreadsAssumption
  DEF Acquire, GoTo, ThreadsOK, Exclusion, Locked, Threads, ThreadsAssumption,
      End, FlagsOK, NothingStarts, Outcomes
<1>2. ASSUME NEW t \in Threads, Stop(t) PROVE NothingStarts'
  BY <1>2, ThreadsAssumption
  DEF Stop, StopBlocks, StopDetach, StopForRecovery, StopForStart,
      StopForShutdown, GoTo,
      Leave, ThreadsOK, Exclusion, Locked, Threads, ThreadsAssumption, End,
      FlagsOK, NothingStarts, Outcomes
<1>3. ASSUME NEW t \in Threads, Start(t) PROVE NothingStarts'
  BY <1>3, ThreadsAssumption
  DEF Start, StartBegin, StartSpawn, StartSpawnFails, StartSpawnHalfFails,
      StartInterrupted, StartTimesOut, StartReply, MayStart, Leave, Abandon,
      GoTo, ThreadsOK, Exclusion, Locked, Threads, ThreadsAssumption, End,
      FlagsOK, NothingStarts, Outcomes
<1>4. ASSUME NEW c \in Clients, CallExecute(c) \/ Expire(c)
      PROVE  NothingStarts'
  BY <1>4, ThreadsAssumption
  DEF CallExecute, GoTo, Expire, ThreadsOK, Exclusion, Locked, Threads,
      ThreadsAssumption, End, FlagsOK, NothingStarts, Outcomes
<1>5. ASSUME NEW c \in Clients, Execute(c) PROVE NothingStarts'
  BY <1>5, ThreadsAssumption
  DEF Execute, ExecuteBegin, ExecuteSend, ExecuteSent, ExecutePolls,
      ExecutePoll, ExecuteBrokenPipe, ExecuteTimesOut,
      ExecuteReply, ExecutePipeEnd, Leave, Abandon, GoTo, ThreadsOK, Exclusion,
      Locked, Threads, ThreadsAssumption, End, FlagsOK, NothingStarts, Outcomes
<1>6. ASSUME NEW p \in Pollers, Poll(p) PROVE NothingStarts'
  BY <1>6, ThreadsAssumption
  DEF Poll, PollIsReady, PollProcess, PollIsAlive, PollRecover, GoTo, Leave,
      Abandon, ThreadsOK, Exclusion, Locked, Threads, ThreadsAssumption, End,
      FlagsOK, NothingStarts, Outcomes
<1>7. ASSUME NEW g \in Gens, ChildStep(g) \/ ChildWarmFails(g) \/ ChildCrash(g)
      PROVE  NothingStarts'
  BY <1>7, ThreadsAssumption
  DEF ChildStep, ChildWarm, ChildReceive, ChildSolves, ChildReply, ChildEnd,
      ChildWarmFails,
      ChildCrash, ThreadsOK, Exclusion, Locked, Threads, ThreadsAssumption,
      End, FlagsOK, NothingStarts, Outcomes
<1>8. ASSUME CallStart \/ RestartExits \/ CallShutdown \/ ShutdownJoins
      PROVE  NothingStarts'
  BY <1>8, ThreadsAssumption
  DEF CallStart, GoTo, RestartExits, CallShutdown, ShutdownJoins, ThreadsOK,
      Exclusion, Locked, Threads, ThreadsAssumption, End, FlagsOK,
      NothingStarts, Outcomes
<1>9. CASE UNCHANGED vars
  BY <1>9 DEF vars, ThreadsOK, Exclusion, FlagsOK, NothingStarts
<1> QED
  BY <1>1, <1>2, <1>3, <1>4, <1>5, <1>6, <1>7, <1>8, <1>9 DEF Next, Terminated

\* Every step keeps the worker without a handle after shutdown().
LEMMA NothingKeptStep ==
  ASSUME ThreadsOK, WorkerOK, NothingStarts, NothingKept, [Next]_vars
  PROVE  NothingKept'
<1>1. ASSUME NEW t \in Threads, Acquire(t) PROVE NothingKept'
  BY <1>1, ThreadsAssumption
  DEF Acquire, GoTo, fields, ThreadsOK, WorkerOK, Exclusion, Locked, Threads,
      ThreadsAssumption, NothingKept, NothingStarts, End
<1>2. ASSUME NEW t \in Threads, Stop(t) PROVE NothingKept'
  BY <1>2, ThreadsAssumption
  DEF Stop, StopBlocks, StopDetach, StopForRecovery, StopForStart,
      StopForShutdown, GoTo,
      JoinProcess, Leave, ThreadsOK, WorkerOK, Exclusion, Locked, Threads,
      ThreadsAssumption, NothingKept, NothingStarts, End
<1>3. ASSUME NEW t \in Threads, Start(t) PROVE NothingKept'
  BY <1>3, ThreadsAssumption
  DEF Start, StartBegin, StartSpawn, StartSpawnFails, StartSpawnHalfFails,
      StartInterrupted, StartTimesOut, StartReply, MayStart, Leave, Abandon,
      fields, GoTo, ThreadsOK, WorkerOK, Exclusion, Locked, Threads,
      ThreadsAssumption, NothingKept, NothingStarts, End
<1>4. ASSUME NEW c \in Clients, CallExecute(c) \/ Expire(c) PROVE NothingKept'
  BY <1>4, ThreadsAssumption
  DEF CallExecute, GoTo, fields, Expire, ThreadsOK, WorkerOK, Exclusion,
      Locked, Threads, ThreadsAssumption, NothingKept, NothingStarts, End
<1>5. ASSUME NEW c \in Clients, Execute(c) PROVE NothingKept'
  BY <1>5, ThreadsAssumption
  DEF Execute, ExecuteBegin, ExecuteSend, ExecuteSent, ExecutePolls,
      ExecutePoll, ExecuteBrokenPipe, ExecuteTimesOut,
      ExecuteReply, ExecutePipeEnd, Leave, Abandon, GoTo, fields, ThreadsOK,
      WorkerOK, Exclusion, Locked, Threads, ThreadsAssumption, NothingKept,
      NothingStarts, End
<1>6. ASSUME NEW p \in Pollers, Poll(p) PROVE NothingKept'
  BY <1>6, ThreadsAssumption
  DEF Poll, PollIsReady, PollProcess, PollIsAlive, PollRecover, GoTo, fields,
      Leave, Abandon, ThreadsOK, WorkerOK, Exclusion, Locked, Threads,
      ThreadsAssumption, NothingKept, NothingStarts, End
<1>7. ASSUME NEW g \in Gens, ChildStep(g) \/ ChildWarmFails(g) \/ ChildCrash(g)
      PROVE  NothingKept'
  BY <1>7, ThreadsAssumption
  DEF ChildStep, ChildWarm, ChildReceive, ChildSolves, ChildReply, ChildEnd,
      fields,
      ChildWarmFails, ChildCrash, ThreadsOK, WorkerOK, Exclusion, Locked,
      Threads, ThreadsAssumption, NothingKept, NothingStarts, End
<1>8. ASSUME CallStart \/ RestartExits \/ CallShutdown \/ ShutdownJoins
      PROVE  NothingKept'
  BY <1>8, ThreadsAssumption
  DEF CallStart, GoTo, fields, RestartExits, CallShutdown, ShutdownJoins,
      ThreadsOK, WorkerOK, Exclusion, Locked, Threads, ThreadsAssumption,
      NothingKept, NothingStarts, End
<1>9. CASE UNCHANGED vars
  BY <1>9
  DEF vars, fields, ThreadsOK, WorkerOK, Exclusion, NothingKept, NothingStarts
<1> QED
  BY <1>1, <1>2, <1>3, <1>4, <1>5, <1>6, <1>7, <1>8, <1>9 DEF Next, Terminated

\* The invariant behind ShutdownIsFinal.
LEMMA ShutdownInvariance == Spec => [](NothingStarts /\ NothingKept)
<1>1. Init => NothingStarts /\ NothingKept
  BY StopperIsThread DEF Init, NothingStarts, NothingKept
<1>2. TypeInv /\ NothingStarts /\ NothingKept /\ [Next]_vars
         => NothingStarts' /\ NothingKept'
  BY NothingStartsStep, NothingKeptStep DEF TypeInv, TypeOK
<1> QED
  BY <1>1, <1>2, TypeInvariance, PTL DEF Spec

\* Once shutdown() has returned True no child of the worker is alive, and none
\* will be.
THEOREM ShutdownIsFinalAlways == Spec => []ShutdownIsFinal
<1>1. WorkerOK /\ OneProcess /\ NothingKept => ShutdownIsFinal
  BY DEF WorkerOK, OneProcess, NothingKept, ShutdownIsFinal, NoGen, Gens
<1> QED
  BY <1>1, ShutdownInvariance, ProcessInvariance, PTL DEF TypeInv, TypeOK

\* No restart thread, probe or request that waited for the lock spawns a child
\* after the stop() of shutdown().
THEOREM NoSpawnAfterShutdownAlways == Spec => NoSpawnAfterShutdown
<1>1. ASSUME NothingStarts, [Next]_vars
      PROVE  pc[Stopper] \in {"joining", "done"} => gens' = gens
  <2>1. ASSUME NEW t \in Threads, StartSpawn(t) \/ StartSpawnHalfFails(t)
        PROVE  pc[Stopper] \notin {"joining", "done"}
    BY <1>1, <2>1 DEF StartSpawn, StartSpawnHalfFails, NothingStarts
  <2> QED
    BY <1>1, <2>1
    DEF Next, Terminated, vars, Stop, StopBlocks, StopDetach, StopForRecovery,
        StopForStart, StopForShutdown, Start, StartBegin, StartSpawnFails,
        StartInterrupted, StartTimesOut, StartReply, Execute, ExecuteBegin,
        ExecuteSend, ExecuteSent, ExecutePolls, ExecutePoll,
        ExecuteBrokenPipe, ExecuteTimesOut, ExecuteReply,
        ExecutePipeEnd, Poll, PollIsReady, PollProcess, PollIsAlive,
        PollRecover, ChildStep, ChildWarm, ChildReceive, ChildSolves,
        ChildReply, ChildEnd,
        Acquire, CallExecute, Expire, ChildWarmFails, ChildCrash, CallStart,
        RestartExits, CallShutdown, ShutdownJoins
<1> QED
  BY <1>1, ShutdownInvariance, PTL DEF Spec, NoSpawnAfterShutdown

-----------------------------------------------------------------------------
(***************************************************************************)
(* Theorems of PersistentWorker about its pipe: every client is given the  *)
(* reply to its own request.                                               *)
(*                                                                         *)
(* The invariant follows a request through the pipe: nothing is on the     *)
(* pipe of a child until it is spawned (Fresh), then at most its first     *)
(* message (FirstMessage), then nothing between two requests              *)
(* (QuietBetween) and one request, once, while a client awaits it          *)
(* (AwaitsOwn).  A client that stops waiting goes through stop(), and the  *)
(* pipe is never used again (Detached).                                    *)
(***************************************************************************)

\* The handle and the pipe are those of children that were spawned.
Spawned == connection <= gens /\ process <= gens

\* The pipe of a child that is not spawned yet is fresh.
Fresh == \A g \in Gens : g > gens => child[g] = "unborn" /\ Quiet(g)

\* A child that solves holds the request it solves.
SolvesARequest ==
    \A g \in Gens : child[g] \in {"solving", "replying"} => serving[g] # None

\* stop() has detached the pipe before the process is joined or replaced.
Detached ==
    \A t \in Threads :
        pc[t] \in {"join", "spawn"} => connection = NoGen /\ ~isReady

\* Nothing passes through the pipe of a child that starts, except its first
\* message.
Starting(g) ==
    /\ toChild[g] = <<>> /\ serving[g] = None
    /\ \/ toParent[g] = <<>>
       \/ child[g] # "warming" /\ Len(toParent[g]) = 1


FirstMessage ==
    \A t \in Threads : pc[t] = "warming" => ~isReady /\ Starting(connection)

\* A ready worker has a pipe to a child that has sent its first message.
ReadyHasPipe == isReady => connection # NoGen /\ child[connection] # "warming"

\* A client that sends or awaits found the worker ready.
AsksReady == \A c \in Clients : pc[c] \in Awaiting \cup {"send"} => isReady

\* A client that awaits finds its own request on the pipe, and nothing else.
AwaitsOwn == \A c \in Clients : pc[c] \in Awaiting => Exchange(connection, c)

\* Between two requests nothing is on an open pipe.
QuietBetween ==
    /\ isReady /\ PipeOpen(connection)
    /\ \A c \in Clients : pc[c] \notin Awaiting \cup {"detach"}
    => Quiet(connection)

PipeInv == Spawned /\ Fresh /\ SolvesARequest /\ Detached /\ FirstMessage
           /\ ReadyHasPipe /\ AsksReady /\ AwaitsOwn /\ QuietBetween
           /\ OwnReply

-----------------------------------------------------------------------------

\* Every step keeps the handle and the pipe among the spawned children.
LEMMA SpawnedStep ==
  ASSUME WorkerOK, Spawned, [Next]_vars
  PROVE  Spawned'
<1>1. ASSUME NEW t \in Threads, Acquire(t) PROVE Spawned'
  BY <1>1, BoundsAssumption
  DEF Acquire, fields, WorkerOK, Spawned, Gens, NoGen, BoundsAssumption
<1>2. ASSUME NEW t \in Threads, Stop(t) PROVE Spawned'
  BY <1>2, BoundsAssumption
  DEF Stop, StopBlocks, StopDetach, StopForRecovery, StopForStart,
      StopForShutdown,
      JoinProcess, WorkerOK, Spawned, Gens, NoGen, BoundsAssumption
<1>3. ASSUME NEW t \in Threads, Start(t) PROVE Spawned'
  BY <1>3, BoundsAssumption
  DEF Start, StartBegin, StartSpawn, StartSpawnFails, StartSpawnHalfFails,
      StartInterrupted, StartTimesOut, StartReply, MayStart, fields, WorkerOK,
      Spawned, Gens, NoGen, BoundsAssumption
<1>4. ASSUME NEW c \in Clients, CallExecute(c) \/ Expire(c) PROVE Spawned'
  BY <1>4, BoundsAssumption
  DEF CallExecute, fields, Expire, WorkerOK, Spawned, Gens, NoGen,
      BoundsAssumption
<1>5. ASSUME NEW c \in Clients, Execute(c) PROVE Spawned'
  BY <1>5, BoundsAssumption
  DEF Execute, ExecuteBegin, ExecuteSend, ExecuteSent, ExecutePolls,
      ExecutePoll, ExecuteBrokenPipe, ExecuteTimesOut,
      ExecuteReply, ExecutePipeEnd, fields, WorkerOK, Spawned, Gens, NoGen,
      BoundsAssumption
<1>6. ASSUME NEW p \in Pollers, Poll(p) PROVE Spawned'
  BY <1>6, BoundsAssumption
  DEF Poll, PollIsReady, PollProcess, PollIsAlive, PollRecover, fields,
      WorkerOK, Spawned, Gens, NoGen, BoundsAssumption
<1>7. ASSUME NEW g \in Gens, ChildStep(g) \/ ChildWarmFails(g) \/ ChildCrash(g)
      PROVE  Spawned'
  BY <1>7, BoundsAssumption
  DEF ChildStep, ChildWarm, ChildReceive, ChildSolves, ChildReply, ChildEnd,
      fields,
      ChildWarmFails, ChildCrash, WorkerOK, Spawned, Gens, NoGen,
      BoundsAssumption
<1>8. ASSUME CallStart \/ RestartExits \/ CallShutdown \/ ShutdownJoins
      PROVE  Spawned'
  BY <1>8, BoundsAssumption
  DEF CallStart, fields, RestartExits, CallShutdown, ShutdownJoins, WorkerOK,
      Spawned, Gens, NoGen, BoundsAssumption
<1>9. CASE UNCHANGED vars
  BY <1>9 DEF vars, fields, WorkerOK, Spawned
<1> QED
  BY <1>1, <1>2, <1>3, <1>4, <1>5, <1>6, <1>7, <1>8, <1>9 DEF Next, Terminated

\* Every step keeps the pipes of future children empty.
LEMMA FreshStep ==
  ASSUME WorkerOK, MessagesOK, Spawned, Fresh, [Next]_vars
  PROVE  Fresh'
<1>1. ASSUME NEW t \in Threads, Acquire(t) PROVE Fresh'
  BY <1>1, BoundsAssumption
  DEF Acquire, children, WorkerOK, MessagesOK, Spawned, Fresh, Quiet, Gens,
      NoGen, BoundsAssumption
<1>2. ASSUME NEW t \in Threads, Stop(t) PROVE Fresh'
  <2> SUFFICES ASSUME NEW g \in Gens, g > gens'
               PROVE  child'[g] = "unborn" /\ Quiet(g)'
    BY DEF Fresh
  <2>1. gens' = gens
    BY <1>2
    DEF Stop, StopBlocks, StopDetach, StopForRecovery, StopForStart,
        StopForShutdown
  <2>2. child[g] = "unborn" /\ Quiet(g) /\ g # connection /\ g # process
    BY <2>1 DEF Fresh, Spawned, WorkerOK, Gens, NoGen
  <2>3. child'[g] = "unborn"
    BY <1>2, <2>2
    DEF Stop, StopBlocks, StopDetach, StopForRecovery, StopForStart,
        StopForShutdown, children, JoinProcess, WorkerOK
  <2>4. Quiet(g)'
    BY <1>2, <2>2
    DEF Stop, StopBlocks, StopDetach, StopForRecovery, StopForStart,
        StopForShutdown, children, Quiet, MessagesOK
  <2> QED
    BY <2>3, <2>4
<1>3. ASSUME NEW t \in Threads, Start(t) PROVE Fresh'
  <2> SUFFICES ASSUME NEW g \in Gens, g > gens'
               PROVE  child'[g] = "unborn" /\ Quiet(g)'
    BY DEF Fresh
  <2>1. CASE StartSpawn(t) \/ StartSpawnHalfFails(t)
    <3>1. gens \in Nat /\ gens' = gens + 1 /\ g \in Nat
      BY <2>1, BoundsAssumption
      DEF StartSpawn, StartSpawnHalfFails, WorkerOK, Gens, BoundsAssumption
    <3>2. g > gens /\ g # gens + 1
      BY <3>1
    <3> QED
      BY <2>1, <3>2
      DEF StartSpawn, StartSpawnHalfFails, Abandon, WorkerOK, Fresh, Quiet
  <2>2. CASE ~StartSpawn(t) /\ ~StartSpawnHalfFails(t)
    <3>1. UNCHANGED <<gens, child, serving, toChild>>
      BY <1>3, <2>2
      DEF Start, StartBegin, StartSpawnFails, StartInterrupted, StartTimesOut,
          StartReply, MayStart, Leave, Abandon, fields, children, GoTo, Fault
    <3>2. child[g] = "unborn" /\ Quiet(g) /\ g # connection
      BY <3>1 DEF Fresh, Spawned, WorkerOK, Gens, NoGen
    <3>3. toParent'[g] = toParent[g]
      BY <1>3, <2>2, <3>2
      DEF Start, StartBegin, StartSpawnFails, StartInterrupted, StartTimesOut,
          StartReply, MayStart, Leave, Abandon, fields, children, GoTo, Fault,
          MessagesOK
    <3> QED
      BY <3>1, <3>2, <3>3 DEF Quiet
  <2> QED
    BY <2>1, <2>2
<1>4. ASSUME NEW c \in Clients, CallExecute(c) \/ Expire(c) PROVE Fresh'
  BY <1>4, BoundsAssumption
  DEF CallExecute, children, Expire, WorkerOK, MessagesOK, Spawned, Fresh,
      Quiet, Gens, NoGen, BoundsAssumption
<1>5. ASSUME NEW c \in Clients, Execute(c) PROVE Fresh'
  <2>1. UNCHANGED <<gens, child, serving>>
    BY <1>5
    DEF Execute, ExecuteBegin, ExecuteSend, ExecuteSent, ExecutePolls,
        ExecutePoll, ExecuteBrokenPipe, ExecuteTimesOut,
        ExecuteReply, ExecutePipeEnd, Leave, Abandon, GoTo, fields, children
  <2>2. ASSUME NEW g \in Gens, g > gens
        PROVE  child[g] = "unborn" /\ Quiet(g) /\ g # connection
    BY <2>2 DEF Fresh, Spawned, WorkerOK, Gens, NoGen
  <2>3. ASSUME NEW g \in Gens, g # connection
        PROVE  toChild'[g] = toChild[g] /\ toParent'[g] = toParent[g]
    BY <1>5, <2>3
    DEF Execute, ExecuteBegin, ExecuteSend, ExecuteSent, ExecutePolls,
        ExecutePoll, ExecuteBrokenPipe, ExecuteTimesOut,
        ExecuteReply, ExecutePipeEnd, Leave, Abandon, GoTo, fields, children,
        MessagesOK
  <2> QED
    BY <2>1, <2>2, <2>3 DEF Fresh, Quiet
<1>6. ASSUME NEW p \in Pollers, Poll(p) PROVE Fresh'
  BY <1>6, BoundsAssumption
  DEF Poll, PollIsReady, PollProcess, PollIsAlive, PollRecover, children,
      WorkerOK, MessagesOK, Spawned, Fresh, Quiet, Gens, NoGen,
      BoundsAssumption
<1>7. ASSUME NEW g \in Gens, ChildStep(g) \/ ChildWarmFails(g) \/ ChildCrash(g)
      PROVE  Fresh'
  <2>1. gens' = gens /\ child[g] # "unborn"
    BY <1>7
    DEF ChildStep, ChildWarm, ChildReceive, ChildSolves, ChildReply, ChildEnd,
        ChildWarmFails, ChildCrash, Alive
  <2>2. ASSUME NEW h \in Gens, h # g
        PROVE  child'[h] = child[h] /\ serving'[h] = serving[h]
               /\ toChild'[h] = toChild[h] /\ toParent'[h] = toParent[h]
    BY <1>7, <2>2
    DEF ChildStep, ChildWarm, ChildReceive, ChildSolves, ChildReply, ChildEnd,
        ChildWarmFails, ChildCrash, ChildSends, WorkerOK, MessagesOK
  <2> QED
    BY <2>1, <2>2 DEF Fresh, Quiet
<1>8. ASSUME CallStart \/ RestartExits \/ CallShutdown \/ ShutdownJoins
      PROVE  Fresh'
  BY <1>8, BoundsAssumption
  DEF CallStart, children, RestartExits, CallShutdown, ShutdownJoins, WorkerOK,
      MessagesOK, Spawned, Fresh, Quiet, Gens, NoGen, BoundsAssumption
<1>9. CASE UNCHANGED vars
  BY <1>9 DEF vars, children, WorkerOK, MessagesOK, Spawned, Fresh, Quiet
<1> QED
  BY <1>1, <1>2, <1>3, <1>4, <1>5, <1>6, <1>7, <1>8, <1>9 DEF Next, Terminated

\* Every step keeps a request in the hands of a child that solves.
LEMMA SolvesStep ==
  ASSUME WorkerOK, MessagesOK, SolvesARequest, [Next]_vars
  PROVE  SolvesARequest'
<1>1. ASSUME NEW t \in Threads, Acquire(t) PROVE SolvesARequest'
  BY <1>1 DEF Acquire, children, WorkerOK, MessagesOK, SolvesARequest
<1>2. ASSUME NEW t \in Threads, Stop(t) PROVE SolvesARequest'
  BY <1>2
  DEF Stop, StopBlocks, StopDetach, StopForRecovery, StopForStart,
      StopForShutdown, children, JoinProcess, WorkerOK, MessagesOK,
      SolvesARequest
<1>3. ASSUME NEW t \in Threads, Start(t) PROVE SolvesARequest'
  BY <1>3
  DEF Start, StartBegin, StartSpawn, StartSpawnFails, StartSpawnHalfFails,
      StartInterrupted, StartTimesOut, StartReply, MayStart, children,
      WorkerOK, MessagesOK, SolvesARequest
<1>4. ASSUME NEW c \in Clients, CallExecute(c) \/ Expire(c)
      PROVE  SolvesARequest'
  BY <1>4
  DEF CallExecute, children, Expire, WorkerOK, MessagesOK, SolvesARequest
<1>5. ASSUME NEW c \in Clients, Execute(c) PROVE SolvesARequest'
  BY <1>5
  DEF Execute, ExecuteBegin, ExecuteSend, ExecuteSent, ExecutePolls,
      ExecutePoll, ExecuteBrokenPipe, ExecuteTimesOut,
      ExecuteReply, ExecutePipeEnd, children, WorkerOK, MessagesOK,
      SolvesARequest
<1>6. ASSUME NEW p \in Pollers, Poll(p) PROVE SolvesARequest'
  BY <1>6
  DEF Poll, PollIsReady, PollProcess, PollIsAlive, PollRecover, children,
      WorkerOK, MessagesOK, SolvesARequest
<1>7. ASSUME NEW g \in Gens, ChildStep(g) \/ ChildWarmFails(g) \/ ChildCrash(g)
      PROVE  SolvesARequest'
  BY <1>7
  DEF ChildStep, ChildWarm, ChildReceive, ChildSolves, ChildReply, ChildEnd,
      ChildWarmFails,
      ChildCrash, WorkerOK, MessagesOK, SolvesARequest
<1>8. ASSUME CallStart \/ RestartExits \/ CallShutdown \/ ShutdownJoins
      PROVE  SolvesARequest'
  BY <1>8
  DEF CallStart, children, RestartExits, CallShutdown, ShutdownJoins, WorkerOK,
      MessagesOK, SolvesARequest
<1>9. CASE UNCHANGED vars
  BY <1>9 DEF vars, children, WorkerOK, MessagesOK, SolvesARequest
<1> QED
  BY <1>1, <1>2, <1>3, <1>4, <1>5, <1>6, <1>7, <1>8, <1>9 DEF Next, Terminated

\* Every step keeps the pipe detached while a process is joined or replaced.
LEMMA DetachedStep ==
  ASSUME FlagsOK, ThreadsOK, Exclusion, Detached, [Next]_vars
  PROVE  Detached'
<1>1. ASSUME NEW t \in Threads, Acquire(t) PROVE Detached'
  BY <1>1, ThreadsAssumption
  DEF Acquire, GoTo, fields, ThreadsOK, Exclusion, Locked, Threads,
      ThreadsAssumption, End, Detached, FlagsOK
<1>2. ASSUME NEW t \in Threads, Stop(t) PROVE Detached'
  BY <1>2, ThreadsAssumption
  DEF Stop, StopBlocks, StopDetach, StopForRecovery, StopForStart,
      StopForShutdown, GoTo,
      Leave, ThreadsOK, Exclusion, Locked, Threads, ThreadsAssumption, End,
      Detached, FlagsOK
<1>3. ASSUME NEW t \in Threads, Start(t) PROVE Detached'
  BY <1>3, ThreadsAssumption
  DEF Start, StartBegin, StartSpawn, StartSpawnFails, StartSpawnHalfFails,
      StartInterrupted, StartTimesOut, StartReply, MayStart, Leave, Abandon,
      fields, GoTo, ThreadsOK, Exclusion, Locked, Threads, ThreadsAssumption,
      End, Detached, FlagsOK
<1>4. ASSUME NEW c \in Clients, CallExecute(c) \/ Expire(c) PROVE Detached'
  BY <1>4, ThreadsAssumption
  DEF CallExecute, GoTo, fields, Expire, ThreadsOK, Exclusion, Locked, Threads,
      ThreadsAssumption, End, Detached, FlagsOK
<1>5. ASSUME NEW c \in Clients, Execute(c) PROVE Detached'
  BY <1>5, ThreadsAssumption
  DEF Execute, ExecuteBegin, ExecuteSend, ExecuteSent, ExecutePolls,
      ExecutePoll, ExecuteBrokenPipe, ExecuteTimesOut,
      ExecuteReply, ExecutePipeEnd, Leave, Abandon, GoTo, fields, ThreadsOK,
      Exclusion, Locked, Threads, ThreadsAssumption, End, Detached, FlagsOK
<1>6. ASSUME NEW p \in Pollers, Poll(p) PROVE Detached'
  BY <1>6, ThreadsAssumption
  DEF Poll, PollIsReady, PollProcess, PollIsAlive, PollRecover, GoTo, fields,
      Leave, Abandon, ThreadsOK, Exclusion, Locked, Threads, ThreadsAssumption,
      End, Detached, FlagsOK
<1>7. ASSUME NEW g \in Gens, ChildStep(g) \/ ChildWarmFails(g) \/ ChildCrash(g)
      PROVE  Detached'
  BY <1>7, ThreadsAssumption
  DEF ChildStep, ChildWarm, ChildReceive, ChildSolves, ChildReply, ChildEnd,
      fields,
      ChildWarmFails, ChildCrash, ThreadsOK, Exclusion, Locked, Threads,
      ThreadsAssumption, End, Detached, FlagsOK
<1>8. ASSUME CallStart \/ RestartExits \/ CallShutdown \/ ShutdownJoins
      PROVE  Detached'
  BY <1>8, ThreadsAssumption
  DEF CallStart, GoTo, fields, RestartExits, CallShutdown, ShutdownJoins,
      ThreadsOK, Exclusion, Locked, Threads, ThreadsAssumption, End, Detached,
      FlagsOK
<1>9. CASE UNCHANGED vars
  BY <1>9 DEF vars, fields, ThreadsOK, Exclusion, Detached, FlagsOK
<1> QED
  BY <1>1, <1>2, <1>3, <1>4, <1>5, <1>6, <1>7, <1>8, <1>9 DEF Next, Terminated

\* Every step keeps the pipe of a starting child free of anything else.
LEMMA FirstMessageStep ==
  ASSUME TypeOK, Exclusion, Fresh, SolvesARequest, HasPipe, Detached,
         FirstMessage, [Next]_vars
  PROVE  FirstMessage'
<1>1. ASSUME NEW t \in Threads, Acquire(t) PROVE FirstMessage'
  BY <1>1, ThreadsAssumption
  DEF Acquire, GoTo, fields, children, ThreadsOK, Exclusion, Locked, Threads,
      ThreadsAssumption, End, TypeOK, WorkerOK, MessagesOK, Fresh,
      SolvesARequest, HasPipe, Detached, FirstMessage, Starting, ParentOpen,
      Quiet
<1>2. ASSUME NEW t \in Threads, Stop(t) PROVE FirstMessage'
  BY <1>2, ThreadsAssumption
  DEF Stop, StopBlocks, StopDetach, StopForRecovery, StopForStart,
      StopForShutdown, GoTo,
      JoinProcess, Leave, ThreadsOK, Exclusion, Locked, Threads,
      ThreadsAssumption, End, TypeOK, WorkerOK, MessagesOK, Fresh,
      SolvesARequest, HasPipe, Detached, FirstMessage, Starting, ParentOpen,
      Quiet
<1>3. ASSUME NEW t \in Threads, Start(t) PROVE FirstMessage'
  <2>1. CASE StartSpawn(t)
    <3>1. /\ connection' = gens + 1 /\ gens + 1 \in Gens /\ gens + 1 > gens
          /\ UNCHANGED <<isReady, serving, toChild, toParent>>
      BY <2>1, BoundsAssumption
      DEF StartSpawn, TypeOK, WorkerOK, Gens, BoundsAssumption
    <3>2. Quiet(gens + 1) /\ ~isReady
      BY <2>1, <3>1 DEF StartSpawn, Fresh, Detached
    <3> QED
      BY <3>1, <3>2 DEF FirstMessage, Starting, Quiet
  <2>2. CASE ~StartSpawn(t)
    BY <1>3, <2>2, ThreadsAssumption
    DEF Start, StartBegin, StartSpawnFails, StartSpawnHalfFails,
        StartInterrupted, StartTimesOut, StartReply, MayStart, Leave, Abandon,
        fields, children, GoTo, Fault, ThreadsOK, Exclusion, Locked, Threads,
        ThreadsAssumption, End, TypeOK, WorkerOK, MessagesOK, Fresh,
        SolvesARequest, HasPipe, Detached, FirstMessage, Starting, ParentOpen,
        Quiet
  <2> QED
    BY <2>1, <2>2
<1>4. ASSUME NEW c \in Clients, CallExecute(c) \/ Expire(c) PROVE FirstMessage'
  BY <1>4, ThreadsAssumption
  DEF CallExecute, GoTo, fields, children, Expire, ThreadsOK, Exclusion,
      Locked, Threads, ThreadsAssumption, End, TypeOK, WorkerOK, MessagesOK,
      Fresh, SolvesARequest, HasPipe, Detached, FirstMessage, Starting,
      ParentOpen, Quiet
<1>5. ASSUME NEW c \in Clients, Execute(c) PROVE FirstMessage'
  BY <1>5, ThreadsAssumption
  DEF Execute, ExecuteBegin, ExecuteSend, ExecuteSent, ExecutePolls,
      ExecutePoll, ExecuteBrokenPipe, ExecuteTimesOut,
      ExecuteReply, ExecutePipeEnd, Leave, Abandon, GoTo, fields, children,
      ThreadsOK, Exclusion, Locked, Threads, ThreadsAssumption, End, TypeOK,
      WorkerOK, MessagesOK, Fresh, SolvesARequest, HasPipe, Detached,
      FirstMessage, Starting, ParentOpen, Quiet
<1>6. ASSUME NEW p \in Pollers, Poll(p) PROVE FirstMessage'
  BY <1>6, ThreadsAssumption
  DEF Poll, PollIsReady, PollProcess, PollIsAlive, PollRecover, GoTo, fields,
      children, Leave, Abandon, ThreadsOK, Exclusion, Locked, Threads,
      ThreadsAssumption, End, TypeOK, WorkerOK, MessagesOK, Fresh,
      SolvesARequest, HasPipe, Detached, FirstMessage, Starting, ParentOpen,
      Quiet
<1>7. ASSUME NEW g \in Gens, ChildStep(g) \/ ChildWarmFails(g) \/ ChildCrash(g)
      PROVE  FirstMessage'
  <2> SUFFICES ASSUME NEW t \in Threads, pc'[t] = "warming"
               PROVE  ~isReady' /\ Starting(connection)'
    BY DEF FirstMessage
  <2>1. UNCHANGED <<pc, isReady, connection>>
    BY <1>7
    DEF ChildStep, ChildWarm, ChildReceive, ChildSolves, ChildReply, ChildEnd,
        ChildWarmFails, ChildCrash, fields
  <2>2. connection \in Gens /\ ~isReady /\ Starting(connection)
    BY <2>1 DEF FirstMessage, HasPipe, TypeOK, WorkerOK
  <2>3. CASE g # connection
    <3>1. /\ child'[connection] = child[connection]
          /\ serving'[connection] = serving[connection]
          /\ toChild'[connection] = toChild[connection]
          /\ toParent'[connection] = toParent[connection]
      BY <1>7, <2>2, <2>3
      DEF ChildStep, ChildWarm, ChildReceive, ChildSolves, ChildReply,
          ChildEnd,
          ChildWarmFails, ChildCrash, ChildSends, TypeOK, WorkerOK, MessagesOK
    <3> QED
      BY <2>1, <2>2, <3>1 DEF Starting
  <2>4. CASE g = connection /\ (ChildWarm(g) \/ ChildWarmFails(g))
    <3>1. toParent[g] = <<>>
      BY <2>2, <2>4 DEF ChildWarm, ChildWarmFails, Starting
    <3>2. Len(toParent'[g]) = 1 /\ child'[g] # "warming"
      BY <2>4, <3>1
      DEF ChildWarm, ChildWarmFails, ChildSends, ParentOpen, TypeOK, WorkerOK,
          MessagesOK
    <3> QED
      BY <2>1, <2>2, <2>4, <3>2 DEF Starting, ChildWarm, ChildWarmFails
  <2>5. CASE g = connection /\ ~ChildWarm(g) /\ ~ChildWarmFails(g)
    BY <1>7, <2>1, <2>2, <2>5
    DEF ChildStep, ChildReceive, ChildSolves, ChildReply, ChildEnd,
        ChildCrash, ParentOpen,
        SolvesARequest, Starting, TypeOK, WorkerOK
  <2> QED
    BY <2>3, <2>4, <2>5
<1>8. ASSUME CallStart \/ RestartExits \/ CallShutdown \/ ShutdownJoins
      PROVE  FirstMessage'
  BY <1>8, ThreadsAssumption
  DEF CallStart, GoTo, fields, children, RestartExits, CallShutdown,
      ShutdownJoins, ThreadsOK, Exclusion, Locked, Threads, ThreadsAssumption,
      End, TypeOK, WorkerOK, MessagesOK, Fresh, SolvesARequest, HasPipe,
      Detached, FirstMessage, Starting, ParentOpen, Quiet
<1>9. CASE UNCHANGED vars
  BY <1>9
  DEF vars, fields, children, ThreadsOK, Exclusion, TypeOK, WorkerOK,
      MessagesOK, Fresh, SolvesARequest, HasPipe, Detached, FirstMessage,
      Starting, ParentOpen, Quiet
<1> QED
  BY <1>1, <1>2, <1>3, <1>4, <1>5, <1>6, <1>7, <1>8, <1>9 DEF Next, Terminated

\* Every step keeps a ready worker on a pipe whose first message was read.
LEMMA ReadyHasPipeStep ==
  ASSUME TypeOK, Exclusion, HasPipe, Detached, FirstMessage,
         ReadyHasPipe, [Next]_vars
  PROVE  ReadyHasPipe'
<1>1. ASSUME NEW t \in Threads, Acquire(t) PROVE ReadyHasPipe'
  BY <1>1, ThreadsAssumption
  DEF Acquire, fields, children, ThreadsOK, Exclusion, Locked, Threads,
      ThreadsAssumption, End, TypeOK, WorkerOK, MessagesOK, HasPipe, Detached,
      FirstMessage, ReadyHasPipe, Starting
<1>2. ASSUME NEW t \in Threads, Stop(t) PROVE ReadyHasPipe'
  BY <1>2, ThreadsAssumption
  DEF Stop, StopBlocks, StopDetach, StopForRecovery, StopForStart,
      StopForShutdown,
      JoinProcess, ThreadsOK, Exclusion, Locked, Threads, ThreadsAssumption,
      End, TypeOK, WorkerOK, MessagesOK, HasPipe, Detached, FirstMessage,
      ReadyHasPipe, Starting
<1>3. ASSUME NEW t \in Threads, Start(t) PROVE ReadyHasPipe'
  BY <1>3, ThreadsAssumption
  DEF Start, StartBegin, StartSpawn, StartSpawnFails, StartSpawnHalfFails,
      StartInterrupted, StartTimesOut, StartReply, MayStart, fields, children,
      ThreadsOK, Exclusion, Locked, Threads, ThreadsAssumption, End, TypeOK,
      WorkerOK, MessagesOK, HasPipe, Detached, FirstMessage, ReadyHasPipe,
      Starting
<1>4. ASSUME NEW c \in Clients, CallExecute(c) \/ Expire(c) PROVE ReadyHasPipe'
  BY <1>4, ThreadsAssumption
  DEF CallExecute, fields, children, Expire, ThreadsOK, Exclusion, Locked,
      Threads, ThreadsAssumption, End, TypeOK, WorkerOK, MessagesOK, HasPipe,
      Detached, FirstMessage, ReadyHasPipe, Starting
<1>5. ASSUME NEW c \in Clients, Execute(c) PROVE ReadyHasPipe'
  BY <1>5, ThreadsAssumption
  DEF Execute, ExecuteBegin, ExecuteSend, ExecuteSent, ExecutePolls,
      ExecutePoll, ExecuteBrokenPipe, ExecuteTimesOut,
      ExecuteReply, ExecutePipeEnd, fields, children, ThreadsOK, Exclusion,
      Locked, Threads, ThreadsAssumption, End, TypeOK, WorkerOK, MessagesOK,
      HasPipe, Detached, FirstMessage, ReadyHasPipe, Starting
<1>6. ASSUME NEW p \in Pollers, Poll(p) PROVE ReadyHasPipe'
  BY <1>6, ThreadsAssumption
  DEF Poll, PollIsReady, PollProcess, PollIsAlive, PollRecover, fields,
      children, ThreadsOK, Exclusion, Locked, Threads, ThreadsAssumption, End,
      TypeOK, WorkerOK, MessagesOK, HasPipe, Detached, FirstMessage,
      ReadyHasPipe, Starting
<1>7. ASSUME NEW g \in Gens, ChildStep(g) \/ ChildWarmFails(g) \/ ChildCrash(g)
      PROVE  ReadyHasPipe'
  <2>1. UNCHANGED <<isReady, connection>>
    BY <1>7
    DEF ChildStep, ChildWarm, ChildReceive, ChildSolves, ChildReply, ChildEnd,
        ChildWarmFails, ChildCrash, fields
  <2>2. \A h \in Gens : child'[h] = "warming" => child[h] = "warming"
    BY <1>7
    DEF ChildStep, ChildWarm, ChildReceive, ChildSolves, ChildReply, ChildEnd,
        ChildWarmFails, ChildCrash, TypeOK, WorkerOK
  <2> QED
    BY <2>1, <2>2 DEF ReadyHasPipe, TypeOK, WorkerOK
<1>8. ASSUME CallStart \/ RestartExits \/ CallShutdown \/ ShutdownJoins
      PROVE  ReadyHasPipe'
  BY <1>8, ThreadsAssumption
  DEF CallStart, fields, children, RestartExits, CallShutdown, ShutdownJoins,
      ThreadsOK, Exclusion, Locked, Threads, ThreadsAssumption, End, TypeOK,
      WorkerOK, MessagesOK, HasPipe, Detached, FirstMessage, ReadyHasPipe,
      Starting
<1>9. CASE UNCHANGED vars
  BY <1>9
  DEF vars, fields, children, ThreadsOK, Exclusion, TypeOK, WorkerOK,
      MessagesOK, HasPipe, Detached, FirstMessage, ReadyHasPipe, Starting
<1> QED
  BY <1>1, <1>2, <1>3, <1>4, <1>5, <1>6, <1>7, <1>8, <1>9 DEF Next, Terminated

\* Every step keeps the worker ready while a client sends or awaits.
LEMMA AsksReadyStep ==
  ASSUME FlagsOK, ThreadsOK, Exclusion, AsksReady, [Next]_vars
  PROVE  AsksReady'
<1>1. ASSUME NEW t \in Threads, Acquire(t) PROVE AsksReady'
  BY <1>1, ThreadsAssumption
  DEF Acquire, GoTo, fields, ThreadsOK, Exclusion, Locked, Threads,
      ThreadsAssumption, End, FlagsOK, AsksReady, Ready
<1>2. ASSUME NEW t \in Threads, Stop(t) PROVE AsksReady'
  BY <1>2, ThreadsAssumption
  DEF Stop, StopBlocks, StopDetach, StopForRecovery, StopForStart,
      StopForShutdown, GoTo,
      Leave, ThreadsOK, Exclusion, Locked, Threads, ThreadsAssumption, End,
      FlagsOK, AsksReady, Ready
<1>3. ASSUME NEW t \in Threads, Start(t) PROVE AsksReady'
  BY <1>3, ThreadsAssumption
  DEF Start, StartBegin, StartSpawn, StartSpawnFails, StartSpawnHalfFails,
      StartInterrupted, StartTimesOut, StartReply, MayStart, Leave, Abandon,
      fields, GoTo, ThreadsOK, Exclusion, Locked, Threads, ThreadsAssumption,
      End, FlagsOK, AsksReady, Ready
<1>4. ASSUME NEW c \in Clients, CallExecute(c) \/ Expire(c) PROVE AsksReady'
  BY <1>4, ThreadsAssumption
  DEF CallExecute, GoTo, fields, Expire, ThreadsOK, Exclusion, Locked, Threads,
      ThreadsAssumption, End, FlagsOK, AsksReady, Ready
<1>5. ASSUME NEW c \in Clients, Execute(c) PROVE AsksReady'
  BY <1>5, ThreadsAssumption
  DEF Execute, ExecuteBegin, ExecuteSend, ExecuteSent, ExecutePolls,
      ExecutePoll, ExecuteBrokenPipe, ExecuteTimesOut,
      ExecuteReply, ExecutePipeEnd, Leave, Abandon, GoTo, fields, ThreadsOK,
      Exclusion, Locked, Threads, ThreadsAssumption, End, FlagsOK, AsksReady,
      Ready
<1>6. ASSUME NEW p \in Pollers, Poll(p) PROVE AsksReady'
  BY <1>6, ThreadsAssumption
  DEF Poll, PollIsReady, PollProcess, PollIsAlive, PollRecover, GoTo, fields,
      Leave, Abandon, ThreadsOK, Exclusion, Locked, Threads, ThreadsAssumption,
      End, FlagsOK, AsksReady, Ready
<1>7. ASSUME NEW g \in Gens, ChildStep(g) \/ ChildWarmFails(g) \/ ChildCrash(g)
      PROVE  AsksReady'
  BY <1>7, ThreadsAssumption
  DEF ChildStep, ChildWarm, ChildReceive, ChildSolves, ChildReply, ChildEnd,
      fields,
      ChildWarmFails, ChildCrash, ThreadsOK, Exclusion, Locked, Threads,
      ThreadsAssumption, End, FlagsOK, AsksReady, Ready
<1>8. ASSUME CallStart \/ RestartExits \/ CallShutdown \/ ShutdownJoins
      PROVE  AsksReady'
  BY <1>8, ThreadsAssumption
  DEF CallStart, GoTo, fields, RestartExits, CallShutdown, ShutdownJoins,
      ThreadsOK, Exclusion, Locked, Threads, ThreadsAssumption, End, FlagsOK,
      AsksReady, Ready
<1>9. CASE UNCHANGED vars
  BY <1>9 DEF vars, fields, ThreadsOK, Exclusion, FlagsOK, AsksReady, Ready
<1> QED
  BY <1>1, <1>2, <1>3, <1>4, <1>5, <1>6, <1>7, <1>8, <1>9 DEF Next, Terminated

\* Every step keeps the request of a waiting client alone on the pipe.
LEMMA AwaitsOwnStep ==
  ASSUME TypeOK, Exclusion, SolvesARequest, HasPipe, ReadyHasPipe,
         AsksReady, AwaitsOwn, QuietBetween, [Next]_vars
  PROVE  AwaitsOwn'
<1>1. ASSUME NEW t \in Threads, Acquire(t) PROVE AwaitsOwn'
  BY <1>1, ThreadsAssumption
  DEF Acquire, GoTo, fields, children, ThreadsOK, Exclusion, Locked, Threads,
      ThreadsAssumption, End, TypeOK, WorkerOK, MessagesOK, FlagsOK, AwaitsOwn,
      Exchange
<1>2. ASSUME NEW t \in Threads, Stop(t) PROVE AwaitsOwn'
  BY <1>2, ThreadsAssumption
  DEF Stop, StopBlocks, StopDetach, StopForRecovery, StopForStart,
      StopForShutdown, GoTo,
      Leave, ThreadsOK, Exclusion, Locked, Threads, ThreadsAssumption, End,
      TypeOK, WorkerOK, MessagesOK, FlagsOK, AwaitsOwn, Exchange
<1>3. ASSUME NEW t \in Threads, Start(t) PROVE AwaitsOwn'
  BY <1>3, ThreadsAssumption
  DEF Start, StartBegin, StartSpawn, StartSpawnFails, StartSpawnHalfFails,
      StartInterrupted, StartTimesOut, StartReply, MayStart, Leave, Abandon,
      fields, children, GoTo, ThreadsOK, Exclusion, Locked, Threads,
      ThreadsAssumption, End, TypeOK, WorkerOK, MessagesOK, FlagsOK, AwaitsOwn,
      Exchange
<1>4. ASSUME NEW c \in Clients, CallExecute(c) \/ Expire(c) PROVE AwaitsOwn'
  BY <1>4, ThreadsAssumption
  DEF CallExecute, GoTo, fields, children, Expire, ThreadsOK, Exclusion,
      Locked, Threads, ThreadsAssumption, End, TypeOK, WorkerOK, MessagesOK,
      FlagsOK, AwaitsOwn, Exchange
<1>5. ASSUME NEW c \in Clients, Execute(c) PROVE AwaitsOwn'
  <2>1. ASSUME NEW d \in Clients, pc[d] \in Awaiting \cup {"detach"}, d # c
        PROVE  FALSE
    BY <1>5, <2>1, ClientsAreThreads
    DEF Execute, ExecuteBegin, ExecuteSend, ExecuteSent, ExecutePolls,
        ExecutePoll, ExecuteBrokenPipe, ExecuteTimesOut,
        ExecuteReply, ExecutePipeEnd, Leave, Abandon, GoTo, fields, children,
        Exclusion, Locked
  <2>2. CASE ExecuteSend(c)
    <3>1. connection \in Gens /\ isReady /\ PipeOpen(connection)
      BY <2>2, ClientsAreThreads
      DEF ExecuteSend, HasPipe, AsksReady, TypeOK, WorkerOK
    <3>2. Quiet(connection)
      BY <2>1, <2>2, <3>1 DEF ExecuteSend, QuietBetween
    <3>3. toChild'[connection] = <<c>>
      BY <2>2, <3>1, <3>2 DEF ExecuteSend, Quiet, TypeOK, MessagesOK
    <3>4. \A d \in Clients : pc'[d] \in Awaiting => d = c
      BY <2>1, <2>2, ClientsAreThreads
      DEF ExecuteSend, ExecutePolls, Abandon, GoTo, TypeOK, ThreadsOK
    <3> QED
      BY <2>2, <3>1, <3>2, <3>3, <3>4
      DEF ExecuteSend, fields, AwaitsOwn, Exchange, Quiet
  <2>3. CASE ExecuteSent(c) \/ ExecutePoll(c)
    <3>1. pc[c] \in Awaiting /\ UNCHANGED <<connection, children>>
      BY <2>3 DEF ExecuteSent, ExecutePoll, fields, children
    <3>2. \A d \in Clients : pc'[d] \in Awaiting => d = c
      BY <2>1, <2>3, ClientsAreThreads
      DEF ExecuteSent, ExecutePolls, ExecutePoll, Abandon, GoTo, TypeOK,
          ThreadsOK
    <3> QED
      BY <3>1, <3>2 DEF children, AwaitsOwn, Exchange
  <2>4. CASE ~ExecuteSend(c) /\ ~ExecuteSent(c) /\ ~ExecutePoll(c)
    <3>1. \A d \in Clients : pc'[d] \notin Awaiting
      BY <1>5, <2>1, <2>4, ClientsAreThreads
      DEF Execute, ExecuteBegin, ExecuteBrokenPipe, ExecuteTimesOut,
          ExecuteReply, ExecutePipeEnd, Leave, Abandon, GoTo, fields, children,
          TypeOK, ThreadsOK
    <3> QED
      BY <3>1 DEF AwaitsOwn
  <2> QED
    BY <2>2, <2>3, <2>4
<1>6. ASSUME NEW p \in Pollers, Poll(p) PROVE AwaitsOwn'
  BY <1>6, ThreadsAssumption
  DEF Poll, PollIsReady, PollProcess, PollIsAlive, PollRecover, GoTo, fields,
      children, Leave, Abandon, ThreadsOK, Exclusion, Locked, Threads,
      ThreadsAssumption, End, TypeOK, WorkerOK, MessagesOK, FlagsOK, AwaitsOwn,
      Exchange
<1>7. ASSUME NEW g \in Gens, ChildStep(g) \/ ChildWarmFails(g) \/ ChildCrash(g)
      PROVE  AwaitsOwn'
  <2> SUFFICES ASSUME NEW c \in Clients, pc'[c] \in Awaiting
               PROVE  Exchange(connection, c)'
    BY DEF AwaitsOwn
  <2>1. UNCHANGED <<pc, connection>>
    BY <1>7
    DEF ChildStep, ChildWarm, ChildReceive, ChildSolves, ChildReply, ChildEnd,
        ChildWarmFails, ChildCrash, fields
  <2>2. /\ connection \in Gens /\ Exchange(connection, c)
        /\ child[connection] # "warming"
    BY <2>1, ClientsAreThreads
    DEF HasPipe, AwaitsOwn, AsksReady, ReadyHasPipe, TypeOK, WorkerOK
  <2>3. CASE g # connection
    <3>1. /\ serving'[connection] = serving[connection]
          /\ toChild'[connection] = toChild[connection]
          /\ toParent'[connection] = toParent[connection]
      BY <1>7, <2>2, <2>3
      DEF ChildStep, ChildWarm, ChildReceive, ChildSolves, ChildReply,
          ChildEnd,
          ChildWarmFails, ChildCrash, ChildSends, TypeOK, MessagesOK
    <3> QED
      BY <2>1, <2>2, <3>1 DEF Exchange
  <2>4. CASE g = connection /\ ChildReceive(g)
    <3>1. toChild[g] = <<c>> /\ toParent[g] = <<>>
      BY <2>2, <2>4 DEF ChildReceive, ParentOpen, Exchange
    <3>2. toChild'[g] = <<>> /\ serving'[g] = c /\ toParent'[g] = <<>>
      BY <2>4, <3>1 DEF ChildReceive, TypeOK, MessagesOK
    <3> QED
      BY <2>1, <2>4, <3>2 DEF Exchange
  <2>5. CASE g = connection /\ ChildReply(g)
    <3>1. toChild[g] = <<>> /\ serving[g] = c /\ toParent[g] = <<>>
      BY <2>2, <2>5 DEF ChildReply, SolvesARequest, Exchange
    <3>2. PICK status \in Statuses : ChildSends(g, status, c)
      BY <2>5, <3>1 DEF ChildReply, ParentOpen
    <3>3. Len(toParent'[g]) = 1 /\ toParent'[g][1].request = c
      BY <3>1, <3>2 DEF ChildSends, TypeOK, MessagesOK
    <3>4. toChild'[g] = <<>> /\ serving'[g] = None
      BY <2>5, <3>1 DEF ChildReply, TypeOK, MessagesOK
    <3> QED
      BY <2>1, <2>5, <3>3, <3>4 DEF Exchange
  <2>6. CASE ChildSolves(g) \/ ChildEnd(g) \/ ChildCrash(g)
    BY <2>1, <2>2, <2>6 DEF ChildSolves, ChildEnd, ChildCrash, Exchange
  <2> QED
    BY <1>7, <2>2, <2>3, <2>4, <2>5, <2>6
    DEF ChildStep, ChildWarm, ChildWarmFails
<1>8. ASSUME CallStart \/ RestartExits \/ CallShutdown \/ ShutdownJoins
      PROVE  AwaitsOwn'
  BY <1>8, ThreadsAssumption
  DEF CallStart, GoTo, fields, children, RestartExits, CallShutdown,
      ShutdownJoins, ThreadsOK, Exclusion, Locked, Threads, ThreadsAssumption,
      End, TypeOK, WorkerOK, MessagesOK, FlagsOK, AwaitsOwn, Exchange
<1>9. CASE UNCHANGED vars
  BY <1>9
  DEF vars, fields, children, ThreadsOK, Exclusion, TypeOK, WorkerOK,
      MessagesOK, FlagsOK, AwaitsOwn, Exchange
<1> QED
  BY <1>1, <1>2, <1>3, <1>4, <1>5, <1>6, <1>7, <1>8, <1>9 DEF Next, Terminated

\* Every step keeps the pipe quiet between two requests.
LEMMA QuietBetweenStep ==
  ASSUME TypeOK, Exclusion, SolvesARequest, HasPipe, Detached, FirstMessage,
         ReadyHasPipe, AsksReady, AwaitsOwn, QuietBetween, [Next]_vars
  PROVE  QuietBetween'
<1>1. ASSUME NEW t \in Threads, Acquire(t) PROVE QuietBetween'
  BY <1>1, ThreadsAssumption
  DEF Acquire, GoTo, fields, children, ThreadsOK, Exclusion, Locked, Threads,
      ThreadsAssumption, End, TypeOK, WorkerOK, MessagesOK, FlagsOK,
      QuietBetween, Quiet, PipeOpen
<1>2. ASSUME NEW t \in Threads, Stop(t) PROVE QuietBetween'
  <2>1. ~isReady'
    BY <1>2
    DEF Stop, StopBlocks, StopDetach, StopForRecovery, StopForStart,
        StopForShutdown,
        Detached
  <2> QED
    BY <2>1 DEF QuietBetween
<1>3. ASSUME NEW t \in Threads, Start(t) PROVE QuietBetween'
  <2>1. CASE StartReply(t)
    <3>1. connection \in Gens /\ ~isReady /\ Starting(connection)
      BY <2>1 DEF StartReply, HasPipe, FirstMessage, TypeOK, WorkerOK
    <3>2. CASE toParent[connection] # <<>>
      <4>1. /\ toParent[connection] \in Seq(Replies)
            /\ Len(toParent[connection]) = 1
        BY <3>1, <3>2 DEF Starting, TypeOK, MessagesOK
      <4>2. Tail(toParent[connection]) = <<>>
        <5>1. /\ Tail(toParent[connection]) \in Seq(Replies)
              /\ Len(Tail(toParent[connection])) = 0
          BY <3>2, <4>1, HeadTailProperties
        <5> QED
          BY <5>1, EmptySeq
      <4>3. toParent' = [toParent EXCEPT ![connection] = <<>>]
        BY <2>1, <3>2, <4>2 DEF StartReply
      <4>4. toParent'[connection] = <<>>
        BY <3>1, <4>3 DEF TypeOK, MessagesOK
      <4> QED
        BY <2>1, <3>1, <4>4 DEF StartReply, QuietBetween, Quiet, Starting
    <3>3. CASE toParent[connection] = <<>>
      BY <2>1, <3>1, <3>3 DEF StartReply, QuietBetween
    <3> QED
      BY <3>2, <3>3
  <2>2. CASE StartSpawn(t) \/ StartSpawnHalfFails(t)
    BY <2>2 DEF StartSpawn, StartSpawnHalfFails, Detached, QuietBetween
  <2>3. CASE ~StartReply(t) /\ ~StartSpawn(t) /\ ~StartSpawnHalfFails(t)
    <3>1. UNCHANGED <<fields, children>>
      BY <1>3, <2>3
      DEF Start, StartBegin, StartSpawnFails, StartInterrupted, StartTimesOut,
          MayStart, Leave, Abandon, fields, children, GoTo, Fault
    <3>2. \A c \in Clients : pc[c] \in Awaiting \cup {"detach"} => pc'[c] = pc[c]
      BY <1>3, <2>3, ClientsAreThreads, ThreadsAssumption
      DEF Start, StartBegin, StartSpawnFails, StartInterrupted, StartTimesOut,
          MayStart, Leave, Abandon, fields, children, GoTo, Fault, TypeOK,
          ThreadsOK, ThreadsAssumption
    <3> QED
      BY <3>1, <3>2 DEF QuietBetween, Quiet, PipeOpen, fields, children
  <2> QED
    BY <2>1, <2>2, <2>3
<1>4. ASSUME NEW c \in Clients, CallExecute(c) \/ Expire(c) PROVE QuietBetween'
  BY <1>4, ThreadsAssumption
  DEF CallExecute, GoTo, fields, children, Expire, ThreadsOK, Exclusion,
      Locked, Threads, ThreadsAssumption, End, TypeOK, WorkerOK, MessagesOK,
      FlagsOK, QuietBetween, Quiet, PipeOpen
<1>5. ASSUME NEW c \in Clients, Execute(c) PROVE QuietBetween'
  <2>1. CASE ExecuteBegin(c)
    <3>1. UNCHANGED <<fields, children>>
      BY <2>1 DEF ExecuteBegin
    <3>2. \A d \in Clients : pc[d] \in Awaiting \cup {"detach"} => pc'[d] = pc[d]
      BY <2>1, ClientsAreThreads
      DEF ExecuteBegin, Leave, Abandon, GoTo, TypeOK, ThreadsOK
    <3> QED
      BY <3>1, <3>2 DEF QuietBetween, Quiet, PipeOpen, fields, children
  <2>2. CASE \/ ExecuteSend(c) \/ ExecuteSent(c) \/ ExecuteBrokenPipe(c)
             \/ ExecuteTimesOut(c) \/ ExecutePoll(c)
    <3>1. pc'[c] \in Awaiting \cup {"detach"}
      BY <2>2, ClientsAreThreads
      DEF ExecuteSend, ExecuteSent, ExecutePolls, ExecutePoll,
          ExecuteBrokenPipe, ExecuteTimesOut, Abandon, GoTo,
          TypeOK, ThreadsOK
    <3> QED
      BY <3>1 DEF QuietBetween
  <2>3. CASE ExecuteReply(c)
    <3>1. /\ connection \in Gens /\ Exchange(connection, c)
          /\ toParent[connection] # <<>>
      BY <2>3, ClientsAreThreads
      DEF ExecuteReply, HasPipe, AwaitsOwn, TypeOK, WorkerOK
    <3>2. toParent'[connection] = Tail(toParent[connection])
      BY <2>3, <3>1 DEF ExecuteReply, TypeOK, MessagesOK
    <3>3. Tail(toParent[connection]) = <<>>
      <4>1. toParent[connection] \in Seq(Replies)
        BY <3>1 DEF TypeOK, MessagesOK
      <4>2. Len(toParent[connection]) = 1
        BY <3>1 DEF Exchange
      <4>3. /\ Tail(toParent[connection]) \in Seq(Replies)
            /\ Len(Tail(toParent[connection])) = 0
        BY <3>1, <4>1, <4>2, HeadTailProperties
      <4> QED
        BY <4>3, EmptySeq
    <3> QED
      BY <2>3, <3>1, <3>2, <3>3
      DEF ExecuteReply, fields, Exchange, QuietBetween, Quiet
  <2>4. CASE ExecutePipeEnd(c)
    BY <2>4 DEF ExecutePipeEnd, fields, children, QuietBetween, PipeOpen
  <2> QED
    BY <1>5, <2>1, <2>2, <2>3, <2>4 DEF Execute
<1>6. ASSUME NEW p \in Pollers, Poll(p) PROVE QuietBetween'
  BY <1>6, ThreadsAssumption
  DEF Poll, PollIsReady, PollProcess, PollIsAlive, PollRecover, GoTo, fields,
      children, Leave, Abandon, ThreadsOK, Exclusion, Locked, Threads,
      ThreadsAssumption, End, TypeOK, WorkerOK, MessagesOK, FlagsOK,
      QuietBetween, Quiet, PipeOpen
<1>7. ASSUME NEW g \in Gens, ChildStep(g) \/ ChildWarmFails(g) \/ ChildCrash(g)
      PROVE  QuietBetween'
  <2> SUFFICES ASSUME isReady', PipeOpen(connection)',
                      \A c \in Clients : pc'[c] \notin Awaiting \cup {"detach"}
               PROVE  Quiet(connection)'
    BY DEF QuietBetween
  <2>1. UNCHANGED <<pc, isReady, connection>>
    BY <1>7
    DEF ChildStep, ChildWarm, ChildReceive, ChildSolves, ChildReply, ChildEnd,
        ChildWarmFails, ChildCrash, fields
  <2>2. connection \in Gens /\ child[connection] # "warming"
    BY <2>1 DEF ReadyHasPipe, TypeOK, WorkerOK
  <2>3. CASE g # connection
    <3>1. /\ child'[connection] = child[connection]
          /\ serving'[connection] = serving[connection]
          /\ toChild'[connection] = toChild[connection]
          /\ toParent'[connection] = toParent[connection]
      BY <1>7, <2>2, <2>3
      DEF ChildStep, ChildWarm, ChildReceive, ChildSolves, ChildReply,
          ChildEnd,
          ChildWarmFails, ChildCrash, ChildSends, TypeOK, WorkerOK, MessagesOK
    <3> QED
      BY <2>1, <3>1 DEF QuietBetween, Quiet, PipeOpen
  <2>4. CASE g = connection
             /\ (ChildReceive(g) \/ ChildSolves(g) \/ ChildReply(g))
    <3>1. PipeOpen(connection)
      BY <2>4 DEF ChildReceive, ChildSolves, ChildReply, PipeOpen
    <3>2. Quiet(connection)
      BY <2>1, <3>1 DEF QuietBetween
    <3> QED
      BY <2>4, <3>2
      DEF ChildReceive, ChildSolves, ChildReply, ParentOpen, SolvesARequest,
          Quiet
  <2>5. CASE g = connection /\ (ChildEnd(g) \/ ChildCrash(g))
    BY <2>1, <2>2, <2>5 DEF ChildEnd, ChildCrash, PipeOpen, TypeOK, WorkerOK
  <2>6. CASE g = connection /\ (ChildWarm(g) \/ ChildWarmFails(g))
    BY <2>2, <2>6 DEF ChildWarm, ChildWarmFails
  <2> QED
    BY <1>7, <2>3, <2>4, <2>5, <2>6 DEF ChildStep
<1>8. ASSUME CallStart \/ RestartExits \/ CallShutdown \/ ShutdownJoins
      PROVE  QuietBetween'
  BY <1>8, ThreadsAssumption
  DEF CallStart, GoTo, fields, children, RestartExits, CallShutdown,
      ShutdownJoins, ThreadsOK, Exclusion, Locked, Threads, ThreadsAssumption,
      End, TypeOK, WorkerOK, MessagesOK, FlagsOK, QuietBetween, Quiet, PipeOpen
<1>9. CASE UNCHANGED vars
  BY <1>9
  DEF vars, fields, children, ThreadsOK, Exclusion, TypeOK, WorkerOK,
      MessagesOK, FlagsOK, QuietBetween, Quiet, PipeOpen
<1> QED
  BY <1>1, <1>2, <1>3, <1>4, <1>5, <1>6, <1>7, <1>8, <1>9 DEF Next, Terminated

\* Every step keeps the replies with those who asked for them.
LEMMA OwnReplyStep ==
  ASSUME TypeOK, Exclusion, AwaitsOwn, HasPipe, OwnReply, [Next]_vars
  PROVE  OwnReply'
<1>1. ASSUME NEW t \in Threads, Acquire(t) PROVE OwnReply'
  BY <1>1, ThreadsAssumption
  DEF Acquire, ThreadsOK, Exclusion, Locked, Threads, ThreadsAssumption, End,
      TypeOK, WorkerOK, MessagesOK, FlagsOK, OwnReply, ReplyStatuses
<1>2. ASSUME NEW t \in Threads, Stop(t) PROVE OwnReply'
  BY <1>2, ThreadsAssumption
  DEF Stop, StopBlocks, StopDetach, StopForRecovery, StopForStart,
      StopForShutdown, Leave,
      ThreadsOK, Exclusion, Locked, Threads, ThreadsAssumption, End, TypeOK,
      WorkerOK, MessagesOK, FlagsOK, OwnReply, ReplyStatuses
<1>3. ASSUME NEW t \in Threads, Start(t) PROVE OwnReply'
  BY <1>3, ThreadsAssumption
  DEF Start, StartBegin, StartSpawn, StartSpawnFails, StartSpawnHalfFails,
      StartInterrupted, StartTimesOut, StartReply, MayStart, Leave, Abandon,
      ThreadsOK, Exclusion, Locked, Threads, ThreadsAssumption, End, TypeOK,
      WorkerOK, MessagesOK, FlagsOK, OwnReply, ReplyStatuses
<1>4. ASSUME NEW c \in Clients, CallExecute(c) \/ Expire(c) PROVE OwnReply'
  BY <1>4, ThreadsAssumption
  DEF CallExecute, Expire, ThreadsOK, Exclusion, Locked, Threads,
      ThreadsAssumption, End, TypeOK, WorkerOK, MessagesOK, FlagsOK, OwnReply,
      ReplyStatuses
<1>5. ASSUME NEW c \in Clients, Execute(c) PROVE OwnReply'
  <2>1. CASE ExecuteReply(c)
    <3>1. /\ connection \in Gens /\ Exchange(connection, c)
          /\ toParent[connection] # <<>>
      BY <2>1, ClientsAreThreads
      DEF ExecuteReply, HasPipe, AwaitsOwn, TypeOK, WorkerOK
    <3>2. Head(toParent[connection]).request = c
      BY <3>1 DEF Exchange, TypeOK, MessagesOK
    <3>3. reply' = [reply EXCEPT ![c] = c]
      BY <2>1, <3>2 DEF ExecuteReply
    <3>4. \A d \in Clients : d # c => outcome'[d] = outcome[d]
      BY <2>1 DEF ExecuteReply, Leave, TypeOK, ThreadsOK
    <3> QED
      BY <3>3, <3>4 DEF OwnReply, TypeOK, MessagesOK
  <2>2. CASE ~ExecuteReply(c)
    BY <1>5, <2>2, ClientsAreThreads
    DEF Execute, ExecuteBegin, ExecuteSend, ExecuteSent, ExecutePolls,
        ExecutePoll, ExecuteBrokenPipe, ExecuteTimesOut,
        ExecutePipeEnd, Leave, Abandon, GoTo, fields, children, TypeOK,
        ThreadsOK, OwnReply, ReplyStatuses
  <2> QED
    BY <2>1, <2>2
<1>6. ASSUME NEW p \in Pollers, Poll(p) PROVE OwnReply'
  BY <1>6, ThreadsAssumption
  DEF Poll, PollIsReady, PollProcess, PollIsAlive, PollRecover, Leave, Abandon,
      ThreadsOK, Exclusion, Locked, Threads, ThreadsAssumption, End, TypeOK,
      WorkerOK, MessagesOK, FlagsOK, OwnReply, ReplyStatuses
<1>7. ASSUME NEW g \in Gens, ChildStep(g) \/ ChildWarmFails(g) \/ ChildCrash(g)
      PROVE  OwnReply'
  BY <1>7, ThreadsAssumption
  DEF ChildStep, ChildWarm, ChildReceive, ChildSolves, ChildReply, ChildEnd,
      ChildWarmFails,
      ChildCrash, ThreadsOK, Exclusion, Locked, Threads, ThreadsAssumption,
      End, TypeOK, WorkerOK, MessagesOK, FlagsOK, OwnReply, ReplyStatuses
<1>8. ASSUME CallStart \/ RestartExits \/ CallShutdown \/ ShutdownJoins
      PROVE  OwnReply'
  BY <1>8, ThreadsAssumption
  DEF CallStart, RestartExits, CallShutdown, ShutdownJoins, ThreadsOK,
      Exclusion, Locked, Threads, ThreadsAssumption, End, TypeOK, WorkerOK,
      MessagesOK, FlagsOK, OwnReply, ReplyStatuses
<1>9. CASE UNCHANGED vars
  BY <1>9
  DEF vars, ThreadsOK, Exclusion, TypeOK, WorkerOK, MessagesOK, FlagsOK,
      OwnReply, ReplyStatuses
<1> QED
  BY <1>1, <1>2, <1>3, <1>4, <1>5, <1>6, <1>7, <1>8, <1>9 DEF Next, Terminated

-----------------------------------------------------------------------------

\* The invariant behind OwnReply and OneExchange.
LEMMA PipeInvariance == Spec => [](TypeInv /\ PipeInv)
<1>1. Init => PipeInv
  <2> SUFFICES ASSUME Init PROVE PipeInv
    OBVIOUS
  <2>1. Spawned /\ Fresh /\ SolvesARequest
    BY DEF Init, Spawned, Fresh, SolvesARequest, Quiet, NoGen
  <2>2. Detached /\ FirstMessage /\ ReadyHasPipe
    BY DEF Init, Detached, FirstMessage, ReadyHasPipe
  <2>3. AsksReady /\ AwaitsOwn /\ QuietBetween /\ OwnReply
    BY ClientsAreThreads
    DEF Init, AsksReady, AwaitsOwn, QuietBetween, OwnReply, ReplyStatuses
  <2> QED
    BY <2>1, <2>2, <2>3 DEF PipeInv
<1>2. TypeInv /\ PipeInv /\ [Next]_vars => PipeInv'
  <2> SUFFICES ASSUME TypeInv, PipeInv, [Next]_vars PROVE PipeInv'
    OBVIOUS
  <2> USE DEF TypeInv, TypeOK, PipeInv
  <2>1. Spawned' /\ Fresh' /\ SolvesARequest' /\ Detached'
    BY SpawnedStep, FreshStep, SolvesStep, DetachedStep
  <2>2. FirstMessage' /\ ReadyHasPipe' /\ AsksReady'
    BY FirstMessageStep, ReadyHasPipeStep, AsksReadyStep
  <2>3. AwaitsOwn' /\ QuietBetween' /\ OwnReply'
    BY AwaitsOwnStep, QuietBetweenStep, OwnReplyStep
  <2> QED
    BY <2>1, <2>2, <2>3
<1> QED
  BY <1>1, <1>2, TypeInvariance, PTL DEF Spec

\* A client that is given a reply is given the reply to its own request,
\* whatever the order of timeouts, crashes, late replies and restarts.
THEOREM OwnReplyAlways == Spec => []OwnReply
BY PipeInvariance, PTL DEF PipeInv

\* A ready worker holds at most one request, in one place, and it is the one
\* that the holder of operation_lock awaits.
THEOREM OneExchangeAlways == Spec => []OneExchange
<1>1. TypeInv /\ PipeInv => OneExchange
  <2> SUFFICES ASSUME TypeInv, PipeInv, isReady, PipeOpen(connection)
               PROVE  IF \E c \in Clients : pc[c] \in Awaiting
                      THEN /\ lock \in Clients /\ pc[lock] \in Awaiting
                           /\ Exchange(connection, lock)
                      ELSE \/ Quiet(connection)
                           \/ lock \in Clients /\ pc[lock] = "detach"
    BY DEF OneExchange
  <2>1. \A c \in Clients : pc[c] \in Awaiting \cup {"detach"} => lock = c
    BY ClientsAreThreads DEF TypeInv, Exclusion, Locked
  <2>2. CASE \E c \in Clients : pc[c] \in Awaiting
    BY <2>1, <2>2 DEF PipeInv, AwaitsOwn
  <2>3. CASE ~\E c \in Clients : pc[c] \in Awaiting
    BY <2>1, <2>3 DEF PipeInv, QuietBetween
  <2> QED
    BY <2>2, <2>3
<1> QED
  BY <1>1, PipeInvariance, PTL
=============================================================================
