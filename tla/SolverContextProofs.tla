------------------------ MODULE SolverContextProofs ------------------------
(***************************************************************************)
(* Proofs about SolverContext, for every number of threads, platforms,     *)
(* targets and variables: what a job reads is its own (ReadsAreItsOwn),    *)
(* and whenever the lock is free the globals are what they should be       *)
(* (ContextIsRestored).                                                    *)
(*                                                                         *)
(* Neither is inductive.  IInv adds what the frames of the thread inside   *)
(* the lock hold: each was entered from the one below it (Built), and the  *)
(* lowest saved globals that were in order (Based).  Then leaving a frame  *)
(* gives back what it saved, and the last one gives back the base.         *)
(***************************************************************************)
EXTENDS SolverContext, SequenceTheorems, TLAPS

-----------------------------------------------------------------------------
(* The inductive invariant.                                                 *)

FrameKinds == {"lock", "solver", "virtuals", "settings"}

Entered(env, frame) ==
    IF frame.kind = "virtuals"
    THEN Updated(env, VariablesOf[frame.target], [n \in Variables |-> frame.target])
    ELSE env

\* The globals inside the i-th frame of a thread.
ContextIn(t, i) ==
    IF i < Len(frames[t]) THEN frames[t][i + 1].context ELSE context
EnvironIn(t, i) ==
    IF i < Len(frames[t]) THEN frames[t][i + 1].environ ELSE environ

\* A frame is what its kind makes of the globals that it saved.
Built(t) ==
    \A i \in 1..Len(frames[t]) :
        /\ ContextIn(t, i) = Scoped(frames[t][i].context, frames[t][i].kind,
                                    frames[t][i].target)
        /\ EnvironIn(t, i) = Entered(frames[t][i].environ, frames[t][i])

\* Below the frames, or inside the lock of a plain job, the globals are in
\* order.
Based(t) ==
    frames[t] # <<>> =>
        IF task[t].kind \in PlainKinds THEN Restores(context, environ)
        ELSE Restores(frames[t][1].context, frames[t][1].environ)

\* A job has targets of its sort.
JobOK(t) ==
    /\ task[t].kind = "idle" => task[t].phase = "done" /\ frames[t] = <<>>
    /\ task[t].kind # "idle" => task[t].phase # "done" /\ task[t].targets # <<>>
    /\ task[t].kind = "update_failed" => task[t].phase = "leaving"
    /\ task[t].kind \in PlainKinds => task[t].targets \in Seq(Platforms)
    /\ task[t].kind \notin PlainKinds => task[t].targets \in Seq(Targets)

\* Its frames are those of its kind.
FramesOK(t) ==
    /\ task[t].kind \in PlainKinds =>
          /\ Len(frames[t]) <= 1
          /\ \A i \in 1..Len(frames[t]) : frames[t][i].kind = "lock"
    /\ task[t].kind \notin PlainKinds =>
          \A i \in 1..Len(frames[t]) :
              frames[t][i].kind # "lock" /\ frames[t][i].target \in Targets
    /\ task[t].phase \in {"entering", "body"} =>
          Len(frames[t]) <= Len(Contexts(task[t].kind))
    /\ task[t].phase \in {"entering", "body"} /\ task[t].kind \in ScopedKinds =>
          \A i \in 1..Len(frames[t]) :
              /\ frames[t][i].kind = Contexts(task[t].kind)[i]
              /\ frames[t][i].target = Head(task[t].targets)
    /\ task[t].phase = "body" => Len(frames[t]) = Len(Contexts(task[t].kind))

\* A plain job in its body has configured its platform.
PlatformOK(t) ==
    task[t].phase = "body" /\ task[t].kind \in {"capture", "run_solver"} =>
        /\ current = Head(task[t].targets)
        /\ task[t].kind = "run_solver" => configured

ThreadOK(t) ==
    /\ JobOK(t) /\ FramesOK(t) /\ PlatformOK(t)
    /\ (task[t].kind \notin PlainKinds => Built(t)) /\ Based(t)

IInv == TypeOK /\ ContextIsRestored /\ \A t \in Threads : ThreadOK(t)

-----------------------------------------------------------------------------
(* Contexts.                                                                *)

\* No job is inside more than the contexts of its kind, which are of the
\* kinds of frames.
LEMMA ContextKinds ==
  ASSUME NEW kind \in PlainKinds \cup ScopedKinds
  PROVE  /\ Len(Contexts(kind)) \in Nat
         /\ kind \in PlainKinds => Contexts(kind) = <<"lock">>
         /\ \A i \in 1..Len(Contexts(kind)) :
               /\ Contexts(kind)[i] \in FrameKinds
               /\ kind \in ScopedKinds => Contexts(kind)[i] # "lock"
<1>1. CASE kind \in PlainKinds
  BY <1>1 DEF PlainKinds, ScopedKinds, Contexts, FrameKinds
<1>2. CASE kind \in {"identity", "solve"}
  BY <1>2 DEF PlainKinds, ScopedKinds, Contexts, FrameKinds
<1>3. CASE kind = "export"
  BY <1>3 DEF PlainKinds, ScopedKinds, Contexts, FrameKinds
<1>4. CASE kind = "check"
  BY <1>4 DEF PlainKinds, ScopedKinds, Contexts, FrameKinds
<1>5. CASE kind = "update"
  BY <1>5 DEF PlainKinds, ScopedKinds, Contexts, FrameKinds
<1>6. CASE kind = "update_identity"
  BY <1>6 DEF PlainKinds, ScopedKinds, Contexts, FrameKinds
<1> QED
  BY <1>1, <1>2, <1>3, <1>4, <1>5, <1>6 DEF PlainKinds, ScopedKinds

\* Leaving a context gives back the conda context that it was entered from.
LEMMA LeavingRestores ==
  ASSUME NEW c \in ContextType, NEW kind \in FrameKinds, NEW target
  PROVE  Restored(Scoped(c, kind, target), c, kind) = c
<1>1. CASE kind = "lock"
  BY <1>1 DEF Restored, Scoped
<1>2. CASE kind = "virtuals"
  BY <1>2 DEF Restored, Scoped, ContextType
<1>3. CASE kind = "solver"
  BY <1>3 DEF Restored, Scoped, ContextType
<1>4. CASE kind = "settings"
  BY <1>4 DEF Restored, Scoped, ContextType
<1> QED
  BY <1>1, <1>2, <1>3, <1>4 DEF FrameKinds

\* The same of the environment.
LEMMA LeavingRestoresEnviron ==
  ASSUME NEW env \in EnvironType, NEW frame, frame.environ = env
  PROVE  (IF frame.kind = "virtuals"
          THEN Updated(Entered(env, frame), VariablesOf[frame.target], frame.environ)
          ELSE Entered(env, frame)) = env
BY DEF Entered, Updated, EnvironType

\* A scoped context has the type of a context.
LEMMA ScopedType ==
  ASSUME NEW c \in ContextType, NEW kind \in FrameKinds,
         NEW target \in Platforms \cup Targets, kind # "lock" => target \in Targets
  PROVE  Scoped(c, kind, target) \in ContextType
<1>1. CASE kind = "lock"
  BY <1>1 DEF Scoped
<1>2. CASE kind = "virtuals"
  BY <1>2, ContextAssumption DEF Scoped, ContextType, ContextAssumption
<1>3. CASE kind = "solver"
  BY <1>3, ContextAssumption DEF Scoped, ContextType, ContextAssumption
<1>4. CASE kind = "settings"
  BY <1>4 DEF Scoped, ContextType
<1> QED
  BY <1>1, <1>2, <1>3, <1>4 DEF FrameKinds

\* An updated environment has the type of one.
LEMMA EnteredType ==
  ASSUME NEW env \in EnvironType, NEW frame,
         frame.kind = "virtuals" => frame.target \in Targets
  PROVE  Entered(env, frame) \in EnvironType
BY ContextAssumption DEF Entered, Updated, EnvironType, ContextAssumption

-----------------------------------------------------------------------------
(* The initial state, and the threads that do not take the step.            *)

\* The invariant holds initially.
LEMMA InvInit == Init => IInv
<1> SUFFICES ASSUME Init PROVE IInv
  OBVIOUS
<1>1. TypeOK
  <2>1. context \in ContextType /\ current \in Platforms \cup {None}
    BY ContextAssumption DEF Init, ContextType, ContextAssumption
  <2>2. environ \in EnvironType /\ inherited \in EnvironType
    BY ContextAssumption DEF Init, EnvironType, ContextAssumption
  <2>3. configured \in BOOLEAN
    BY DEF Init
  <2>4. frames \in [Threads -> Seq(FrameType)]
    BY DEF Init
  <2>5. task \in [Threads -> TaskType]
    BY DEF Init, Idle, TaskType
  <2>6. holder \in Threads \cup {NoThread}
    BY DEF Init
  <2>7. \A t \in Threads : frames[t] # <<>> <=> holder = t
    BY ContextAssumption DEF Init, ContextAssumption
  <2> QED
    BY <2>1, <2>2, <2>3, <2>4, <2>5, <2>6, <2>7 DEF TypeOK
<1>2. ContextIsRestored
  BY DEF Init, ContextIsRestored, Restores
<1>3. ASSUME NEW t \in Threads PROVE ThreadOK(t)
  <2>1. frames[t] = <<>> /\ Len(frames[t]) = 0
    BY DEF Init
  <2>2. task[t].kind = "idle" /\ task[t].phase = "done" /\ task[t].targets = <<>>
    BY DEF Init, Idle
  <2>3. task[t].kind \notin PlainKinds
    BY <2>2 DEF PlainKinds
  <2> QED
    BY <2>1, <2>2, <2>3 DEF ThreadOK, JobOK, FramesOK, PlatformOK, Built, Based
<1> QED
  BY <1>1, <1>2, <1>3 DEF IInv

\* A thread is not disturbed by a step that leaves the globals alone.
LEMMA Undisturbed ==
  ASSUME NEW u \in Threads, ThreadOK(u), task'[u] = task[u],
         UNCHANGED <<context, environ, current, configured, frames>>
  PROVE  ThreadOK(u)'
BY DEF ThreadOK, JobOK, FramesOK, PlatformOK, Built, Based, Restores, ContextIn, EnvironIn

\* A thread that is in no context is not disturbed at all.
LEMMA Outside ==
  ASSUME NEW u \in Threads, TypeOK, ThreadOK(u), task'[u] = task[u],
         frames[u] = <<>>, frames'[u] = <<>>
  PROVE  ThreadOK(u)'
<1>1. Len(frames[u]) = 0 /\ Len(frames'[u]) = 0
  OBVIOUS
<1>2. JobOK(u)' /\ FramesOK(u)'
  BY <1>1 DEF ThreadOK, JobOK, FramesOK
<1>3. ~(task[u].phase = "body" /\ task[u].kind \in PlainKinds)
  BY <1>1, ContextKinds DEF ThreadOK, FramesOK
<1>4. PlatformOK(u)'
  BY <1>3 DEF PlatformOK, PlainKinds
<1>5. Built(u)' /\ Based(u)'
  BY <1>1 DEF Built, Based
<1> QED
  BY <1>2, <1>4, <1>5 DEF ThreadOK

\* Who holds the lock is alone inside contexts.
LEMMA Alone ==
  ASSUME TypeOK, NEW t \in Threads, MayEnter(t), NEW u \in Threads, u # t
  PROVE  frames[u] = <<>>
BY ContextAssumption DEF TypeOK, MayEnter, ContextAssumption

-----------------------------------------------------------------------------
(* Steps that change what a thread does, and no globals.                    *)

\* The targets that are left of several, and the one that is worked on.
LEMMA LeftTargets ==
  ASSUME NEW S, NEW s \in Seq(S), Len(s) > 1
  PROVE  Tail(s) \in Seq(S) /\ Tail(s) # <<>>
<1>1. s # <<>>
  OBVIOUS
<1>2. Tail(s) \in Seq(S) /\ Len(Tail(s)) = Len(s) - 1
  BY <1>1, HeadTailProperties
<1>3. Len(Tail(s)) # 0
  <2>1. Len(s) \in Nat
    BY LenProperties
  <2> QED
    BY <1>2, <2>1
<1> QED
  BY <1>2, <1>3, EmptySeq

LEMMA LastTarget ==
  ASSUME NEW S, NEW s \in Seq(S), s # <<>>
  PROVE  <<Head(s)>> \in Seq(S) /\ <<Head(s)>> # <<>>
<1>1. Head(s) \in S
  BY HeadTailProperties
<1> QED
  BY <1>1

\* Such a step keeps the invariant if the thread's new job fits its frames.
LEMMA TaskStep ==
  ASSUME IInv, NEW t \in Threads,
         task' = [task EXCEPT ![t] = task'[t]], task'[t] \in TaskType,
         UNCHANGED <<holder, context, environ, current, configured, frames, inherited>>,
         JobOK(t)', FramesOK(t)', PlatformOK(t)',
         \/ frames[t] = <<>>
         \/ task'[t].kind \in PlainKinds <=> task[t].kind \in PlainKinds
  PROVE  IInv'
<1>1. TypeOK'
  BY DEF IInv, TypeOK
<1>2. ContextIsRestored'
  BY DEF IInv, ContextIsRestored, Restores
<1>3. ASSUME NEW u \in Threads, u # t PROVE ThreadOK(u)'
  BY <1>3, Undisturbed DEF IInv, TypeOK
<1>4. task'[t].kind \notin PlainKinds => Built(t)'
  BY DEF IInv, ThreadOK, Built, ContextIn, EnvironIn
<1>5. Based(t)'
  BY DEF IInv, ThreadOK, Based, Restores
<1> QED
  BY <1>1, <1>2, <1>3, <1>4, <1>5 DEF IInv, ThreadOK

\* A call gives an idle thread a job that is in no context yet.
LEMMA CallStep == ASSUME IInv, NEW t \in Threads, Call(t) PROVE IInv'
<1>1. ThreadOK(t) /\ task[t].kind = "idle" /\ frames[t] = <<>> /\ Len(frames[t]) = 0
  BY DEF IInv, ThreadOK, JobOK, Call
<1>2. PICK kind \in PlainKinds \cup ScopedKinds,
           targets \in Seq(Platforms) \cup Seq(Targets) :
         /\ task' = [task EXCEPT ![t] = [kind |-> kind, targets |-> targets,
                                         phase |-> "entering"]]
         /\ targets # <<>>
         /\ targets \in IF kind \in PlainKinds THEN Seq(Platforms) ELSE Seq(Targets)
  <2>1. PICK kind \in PlainKinds \cup ScopedKinds :
          \E one, two \in IF kind \in PlainKinds THEN Platforms ELSE Targets :
             \/ task' = [task EXCEPT ![t] = [kind |-> kind, targets |-> <<one>>,
                                             phase |-> "entering"]]
             \/ task' = [task EXCEPT ![t] = [kind |-> kind, targets |-> <<one, two>>,
                                             phase |-> "entering"]]
    BY DEF Call
  <2>2. PICK one, two \in IF kind \in PlainKinds THEN Platforms ELSE Targets :
             \/ task' = [task EXCEPT ![t] = [kind |-> kind, targets |-> <<one>>,
                                             phase |-> "entering"]]
             \/ task' = [task EXCEPT ![t] = [kind |-> kind, targets |-> <<one, two>>,
                                             phase |-> "entering"]]
    BY <2>1
  <2>3. \A s \in {<<one>>, <<one, two>>} :
           /\ s # <<>> /\ s \in Seq(Platforms) \cup Seq(Targets)
           /\ s \in IF kind \in PlainKinds THEN Seq(Platforms) ELSE Seq(Targets)
    <3>1. <<one>> # <<>> /\ <<one, two>> # <<>>
      OBVIOUS
    <3>2. CASE kind \in PlainKinds
      <4>1. one \in Platforms /\ two \in Platforms
        BY <2>2, <3>2
      <4>2. <<one>> \in Seq(Platforms) /\ <<one, two>> \in Seq(Platforms)
        BY <4>1
      <4> QED
        BY <3>1, <3>2, <4>2
    <3>3. CASE kind \notin PlainKinds
      <4>1. one \in Targets /\ two \in Targets
        BY <2>2, <3>3
      <4>2. <<one>> \in Seq(Targets) /\ <<one, two>> \in Seq(Targets)
        BY <4>1
      <4> QED
        BY <3>1, <3>3, <4>2
    <3> QED
      BY <3>2, <3>3
  <2>4. CASE task' = [task EXCEPT ![t] = [kind |-> kind, targets |-> <<one>>,
                                          phase |-> "entering"]]
    BY <2>3, <2>4
  <2>5. CASE task' = [task EXCEPT ![t] = [kind |-> kind, targets |-> <<one, two>>,
                                          phase |-> "entering"]]
    BY <2>3, <2>5
  <2> QED
    BY <2>2, <2>4, <2>5
<1>3. task'[t] = [kind |-> kind, targets |-> targets, phase |-> "entering"]
  BY <1>2 DEF IInv, TypeOK
<1>4. kind \notin {"idle", "update_failed"}
  BY DEF PlainKinds, ScopedKinds
<1>5. targets \in Seq(Platforms \cup Targets)
  BY <1>2
<1>6. task'[t] \in TaskType
  BY <1>3, <1>5 DEF TaskType
<1>7. JobOK(t)' /\ PlatformOK(t)'
  BY <1>2, <1>3, <1>4 DEF JobOK, PlatformOK
<1>8. FramesOK(t)'
  BY <1>1, <1>3, ContextKinds DEF FramesOK, Call
<1> QED
  BY <1>1, <1>2, <1>3, <1>6, <1>7, <1>8, TaskStep DEF Call

\* The body of a job is entered inside all its contexts.
LEMMA EnterBodyStep == ASSUME IInv, NEW t \in Threads, EnterBody(t) PROVE IInv'
<1>1. ThreadOK(t) /\ task[t] \in TaskType
  BY DEF IInv, TypeOK
<1>2. task'[t] = [task[t] EXCEPT !.phase = "body"]
  BY DEF IInv, TypeOK, EnterBody
<1>3. task'[t] \in TaskType /\ task' = [task EXCEPT ![t] = task'[t]]
  BY <1>1, <1>2 DEF EnterBody, TaskType, IInv, TypeOK
<1>4. /\ task'[t].kind = task[t].kind /\ task'[t].targets = task[t].targets
      /\ task'[t].phase = "body"
  BY <1>1, <1>2 DEF TaskType
<1>5. JobOK(t)' /\ FramesOK(t)'
  BY <1>1, <1>4 DEF ThreadOK, JobOK, FramesOK, EnterBody, ScopedKinds
<1>6. PlatformOK(t)'
  BY <1>4 DEF PlatformOK, EnterBody, ScopedKinds
<1> QED
  BY <1>3, <1>4, <1>5, <1>6, TaskStep DEF EnterBody

\* Its end leaves the contexts to be left; capture stays inside the lock.
LEMMA EndBodyStep == ASSUME IInv, NEW t \in Threads, EndBody(t) PROVE IInv'
<1>1. ThreadOK(t) /\ task[t] \in TaskType
  BY DEF IInv, TypeOK
<1>2. CASE task[t].kind = "capture" /\ Len(task[t].targets) > 1
  <2>1. task'[t] = [task[t] EXCEPT !.targets = Tail(task[t].targets),
                                    !.phase = "entering"]
    <3>1. task'[t] = IF task[t].kind = "capture" /\ Len(task[t].targets) > 1
                     THEN [task[t] EXCEPT !.targets = Tail(task[t].targets),
                                          !.phase = "entering"]
                     ELSE [task[t] EXCEPT !.phase = "leaving"]
      BY DEF EndBody, IInv, TypeOK
    <3> QED
      BY <1>2, <3>1
  <2>2. /\ task'[t].kind = "capture" /\ task'[t].targets = Tail(task[t].targets)
        /\ task'[t].phase = "entering"
    BY <1>1, <1>2, <2>1 DEF TaskType
  <2>3. /\ task[t].targets \in Seq(Platforms)
        /\ Tail(task[t].targets) \in Seq(Platforms) /\ Tail(task[t].targets) # <<>>
    BY <1>1, <1>2, LeftTargets DEF ThreadOK, JobOK, PlainKinds
  <2>4. Tail(task[t].targets) \in Seq(Platforms \cup Targets)
    BY <2>3
  <2>5. task'[t] \in TaskType /\ task' = [task EXCEPT ![t] = task'[t]]
    BY <1>1, <1>2, <2>1, <2>4 DEF EndBody, TaskType, IInv, TypeOK
  <2>6. JobOK(t)' /\ PlatformOK(t)'
    BY <2>2, <2>3 DEF JobOK, PlatformOK, PlainKinds
  <2>7. FramesOK(t)'
    BY <1>1, <1>2, <2>2 DEF ThreadOK, FramesOK, EndBody, PlainKinds, ScopedKinds
  <2> QED
    BY <1>2, <2>2, <2>5, <2>6, <2>7, TaskStep DEF EndBody
<1>3. CASE ~(task[t].kind = "capture" /\ Len(task[t].targets) > 1)
  <2>1. task'[t] = [task[t] EXCEPT !.phase = "leaving"]
    BY <1>3 DEF IInv, TypeOK, EndBody
  <2>2. /\ task'[t].kind = task[t].kind /\ task'[t].targets = task[t].targets
        /\ task'[t].phase = "leaving"
    BY <1>1, <2>1 DEF TaskType
  <2>3. task'[t] \in TaskType /\ task' = [task EXCEPT ![t] = task'[t]]
    BY <1>1, <1>3, <2>1 DEF EndBody, TaskType, IInv, TypeOK
  <2>4. JobOK(t)' /\ PlatformOK(t)' /\ FramesOK(t)'
    BY <1>1, <2>2 DEF ThreadOK, JobOK, PlatformOK, FramesOK, EndBody
  <2> QED
    BY <2>2, <2>3, <2>4, TaskStep DEF EndBody
<1> QED
  BY <1>2, <1>3

\* What raises leaves the contexts that were entered to be left.
LEMMA RaiseStep == ASSUME IInv, NEW t \in Threads, Raise(t) PROVE IInv'
<1>1. ThreadOK(t) /\ task[t] \in TaskType
  BY DEF IInv, TypeOK
<1>2. task[t].phase \in {"entering", "body"} /\ task[t].kind # "idle"
      /\ task[t].kind # "update_failed" /\ task[t].targets # <<>>
  BY <1>1 DEF Raise, ThreadOK, JobOK
<1>3. PICK kind, targets :
        /\ task'[t] = [kind |-> kind, targets |-> targets, phase |-> "leaving"]
        /\ kind = IF task[t].kind = "update" THEN "update_failed" ELSE task[t].kind
        /\ targets \in {task[t].targets, <<Head(task[t].targets)>>}
  <2>1. PICK goesOn \in BOOLEAN :
          task' = [task EXCEPT ![t].phase = "leaving",
                               ![t].targets = IF goesOn THEN @ ELSE <<Head(@)>>,
                               ![t].kind = IF @ = "update" THEN "update_failed" ELSE @]
    BY DEF Raise
  <2>2. task'[t] = [kind |-> IF task[t].kind = "update" THEN "update_failed"
                             ELSE task[t].kind,
                    targets |-> IF goesOn THEN task[t].targets
                                ELSE <<Head(task[t].targets)>>,
                    phase |-> "leaving"]
    BY <1>1, <2>1 DEF TaskType, IInv, TypeOK
  <2> QED
    BY <2>2
<1>4. kind # "idle" /\ (kind \in PlainKinds <=> task[t].kind \in PlainKinds)
  BY <1>2, <1>3 DEF PlainKinds
<1>5. /\ targets # <<>>
      /\ task[t].targets \in Seq(Platforms) => targets \in Seq(Platforms)
      /\ task[t].targets \in Seq(Targets) => targets \in Seq(Targets)
      /\ targets \in Seq(Platforms \cup Targets)
  <2>1. task[t].targets \in Seq(Platforms \cup Targets)
    BY <1>1 DEF TaskType
  <2>2. CASE targets = task[t].targets
    BY <1>2, <2>1, <2>2
  <2>3. CASE targets = <<Head(task[t].targets)>>
    <3>1. \A S : task[t].targets \in Seq(S) => targets \in Seq(S) /\ targets # <<>>
      BY <1>2, <2>3, LastTarget
    <3> QED
      BY <2>1, <3>1
  <2> QED
    BY <1>3, <2>2, <2>3
<1>6. kind \in PlainKinds \cup ScopedKinds \cup {"idle", "update_failed"}
  BY <1>1, <1>3 DEF TaskType
<1>7. task'[t] \in TaskType /\ task' = [task EXCEPT ![t] = task'[t]]
  <2>1. task'[t] \in TaskType
    BY <1>3, <1>5, <1>6 DEF TaskType
  <2> QED
    BY <1>3, <2>1 DEF Raise, IInv, TypeOK
<1>8. JobOK(t)' /\ PlatformOK(t)'
  BY <1>1, <1>3, <1>4, <1>5 DEF ThreadOK, JobOK, PlatformOK
<1>9. FramesOK(t)'
  BY <1>1, <1>3, <1>4 DEF ThreadOK, FramesOK, Raise
<1>10. task'[t].kind \in PlainKinds <=> task[t].kind \in PlainKinds
  BY <1>3, <1>4
<1> QED
  BY <1>7, <1>8, <1>9, <1>10, TaskStep DEF Raise

\* A job that has left its contexts goes on with a target, or is over.
LEMMA NextTargetStep == ASSUME IInv, NEW t \in Threads, NextTarget(t) PROVE IInv'
<1>1. ThreadOK(t) /\ task[t] \in TaskType /\ frames[t] = <<>> /\ Len(frames[t]) = 0
  BY DEF IInv, TypeOK, NextTarget
<1>2. CASE /\ task[t].kind \in ScopedKinds /\ Len(task[t].targets) > 1
           /\ task' = [task EXCEPT ![t].targets = Tail(@), ![t].phase = "entering"]
  <2>1. /\ task'[t].kind = task[t].kind /\ task'[t].targets = Tail(task[t].targets)
        /\ task'[t].phase = "entering"
    BY <1>1, <1>2 DEF TaskType, IInv, TypeOK
  <2>2. task[t].kind \notin PlainKinds /\ task[t].kind \notin {"idle", "update_failed"}
    BY <1>2 DEF PlainKinds, ScopedKinds
  <2>3. /\ task[t].targets \in Seq(Targets)
        /\ Tail(task[t].targets) \in Seq(Targets) /\ Tail(task[t].targets) # <<>>
    BY <1>1, <1>2, <2>2, LeftTargets DEF ThreadOK, JobOK
  <2>4. Tail(task[t].targets) \in Seq(Platforms \cup Targets)
    BY <2>3
  <2>5. task'[t] \in TaskType /\ task' = [task EXCEPT ![t] = task'[t]]
    BY <1>1, <1>2, <2>4 DEF TaskType, IInv, TypeOK
  <2>6. JobOK(t)' /\ PlatformOK(t)'
    BY <2>1, <2>2, <2>3 DEF JobOK, PlatformOK
  <2>7. FramesOK(t)'
    BY <1>1, <1>2, <2>1, ContextKinds DEF FramesOK, NextTarget
  <2> QED
    BY <1>1, <2>5, <2>6, <2>7, TaskStep DEF NextTarget
<1>3. CASE /\ task[t].kind = "update"
           /\ \E one, two \in Targets :
                 task' = [task EXCEPT ![t] = [kind |-> "check", targets |-> <<one, two>>,
                                              phase |-> "entering"]]
  <2>1. PICK one, two \in Targets :
          task' = [task EXCEPT ![t] = [kind |-> "check", targets |-> <<one, two>>,
                                       phase |-> "entering"]]
    BY <1>3
  <2>2. task'[t] = [kind |-> "check", targets |-> <<one, two>>, phase |-> "entering"]
    BY <2>1 DEF IInv, TypeOK
  <2>3. <<one, two>> \in Seq(Platforms \cup Targets) /\ <<one, two>> \in Seq(Targets)
    OBVIOUS
  <2>4. task'[t] \in TaskType
    BY <2>2, <2>3 DEF TaskType, ScopedKinds
  <2>5. JobOK(t)' /\ PlatformOK(t)'
    BY <2>2, <2>3 DEF JobOK, PlatformOK, PlainKinds
  <2>6. FramesOK(t)'
    BY <1>1, <2>2, ContextKinds DEF FramesOK, NextTarget, ScopedKinds, PlainKinds
  <2> QED
    BY <1>1, <2>1, <2>2, <2>4, <2>5, <2>6, TaskStep DEF NextTarget
<1>4. CASE task' = [task EXCEPT ![t] = Idle]
  <2>1. task'[t] = Idle
    BY <1>4 DEF IInv, TypeOK
  <2>2. task'[t] \in TaskType
    BY <2>1 DEF Idle, TaskType
  <2>3. JobOK(t)' /\ PlatformOK(t)' /\ FramesOK(t)'
    BY <1>1, <2>1 DEF JobOK, PlatformOK, FramesOK, Idle, PlainKinds, NextTarget
  <2> QED
    BY <1>1, <1>4, <2>1, <2>2, <2>3, TaskStep DEF NextTarget
<1> QED
  BY <1>2, <1>3, <1>4 DEF NextTarget

-----------------------------------------------------------------------------
(* Steps of the thread inside the lock.                                     *)

\* What Append does to the frames of a thread.
LEMMA Pushed ==
  ASSUME NEW S, NEW s \in Seq(S), NEW e \in S
  PROVE  /\ Append(s, e) \in Seq(S) /\ Append(s, e) # <<>>
         /\ Len(Append(s, e)) = Len(s) + 1 /\ Append(s, e)[Len(s) + 1] = e
         /\ \A i \in 1..Len(s) : Append(s, e)[i] = s[i]
BY AppendProperties

\* And a prefix of a sequence, with the elements it had.
LEMMA Prefix ==
  ASSUME NEW S, NEW s, NEW n \in Nat, \A i \in 1..n : s[i] \in S
  PROVE  /\ SubSeq(s, 1, n) \in Seq(S)
         /\ Len(SubSeq(s, 1, n)) = n
         /\ \A i \in 1..n : SubSeq(s, 1, n)[i] = s[i]
<1>1. /\ SubSeq(s, 1, n) \in Seq(S)
      /\ Len(SubSeq(s, 1, n)) = IF 1 <= n THEN n - 1 + 1 ELSE 0
      /\ \A i \in 1..(n - 1 + 1) : SubSeq(s, 1, n)[i] = s[1 + i - 1]
  <2>1. n \in Int /\ 1 \in Int
    OBVIOUS
  <2> QED
    BY <2>1, SubSeqProperties
<1>2. (IF 1 <= n THEN n - 1 + 1 ELSE 0) = n /\ n - 1 + 1 = n
  OBVIOUS
<1>3. \A i \in 1..n : 1 + i - 1 = i
  OBVIOUS
<1>4. Len(SubSeq(s, 1, n)) = n
  BY <1>1, <1>2
<1>5. \A i \in 1..n : SubSeq(s, 1, n)[i] = s[i]
  BY <1>1, <1>2, <1>3
<1> QED
  BY <1>1, <1>4, <1>5

LEMMA Popped ==
  ASSUME NEW S, NEW s \in Seq(S), s # <<>>
  PROVE  LET rest == SubSeq(s, 1, Len(s) - 1)
         IN  /\ rest \in Seq(S) /\ Len(rest) = Len(s) - 1
             /\ \A i \in 1..Len(rest) : rest[i] = s[i]
             /\ Len(s) \in Nat \ {0} /\ (rest = <<>> <=> Len(s) = 1)
<1> DEFINE n    == Len(s) - 1
           rest == SubSeq(s, 1, n)
<1>1. Len(s) \in Nat /\ Len(s) # 0
  BY LenProperties, EmptySeq
<1>2. \A i \in 1..Len(s) : s[i] \in S
  BY ElementOfSeq
<1>3. n \in Nat /\ (\A i \in 1..n : i \in 1..Len(s)) /\ (n = 0 <=> Len(s) = 1)
  BY <1>1
<1>4. rest \in Seq(S) /\ Len(rest) = n /\ \A i \in 1..n : rest[i] = s[i]
  <2> HIDE DEF n
  <2> QED
    BY <1>2, <1>3, Prefix
<1>5. rest = <<>> <=> n = 0
  <2> HIDE DEF rest, n
  <2> QED
    BY <1>4, EmptySeq
<1> QED
  BY <1>1, <1>3, <1>4, <1>5

\* Entering a context saves the globals, which are in order if it is the first,
\* and makes of them what its kind makes of them.
LEMMA EnterStep == ASSUME IInv, NEW t \in Threads, Enter(t) PROVE IInv'
<1> DEFINE kind   == Contexts(task[t].kind)[Len(frames[t]) + 1]
           target == Head(task[t].targets)
           frame  == [kind |-> kind, target |-> target, context |-> context,
                      environ |-> environ]
<1>1. /\ ThreadOK(t) /\ task[t] \in TaskType /\ frames[t] \in Seq(FrameType)
      /\ task[t].phase = "entering" /\ MayEnter(t) /\ TypeOK
      /\ Len(frames[t]) < Len(Contexts(task[t].kind)) /\ Len(frames[t]) \in Nat
  BY DEF IInv, TypeOK, Enter
<1>2. task[t].kind \in PlainKinds \cup ScopedKinds
  BY <1>1 DEF ThreadOK, JobOK, TaskType
<1>3. /\ kind \in FrameKinds
      /\ task[t].kind \in PlainKinds => kind = "lock" /\ Len(frames[t]) = 0
      /\ task[t].kind \notin PlainKinds => task[t].kind \in ScopedKinds /\ kind # "lock"
  <2>1. Len(frames[t]) + 1 \in 1..Len(Contexts(task[t].kind))
    BY <1>1, <1>2, ContextKinds
  <2>2. CASE task[t].kind \in PlainKinds
    BY <1>1, <1>2, <2>1, <2>2, ContextKinds DEF FrameKinds
  <2>3. CASE task[t].kind \notin PlainKinds
    BY <1>2, <2>1, <2>3, ContextKinds
  <2> QED
    BY <2>2, <2>3
<1>4. target \in Platforms \cup Targets /\ (task[t].kind \notin PlainKinds => target \in Targets)
  <2>1. task[t].targets # <<>>
    BY <1>1 DEF ThreadOK, JobOK
  <2>2. \A S : task[t].targets \in Seq(S) => target \in S
    BY <2>1, HeadTailProperties
  <2> QED
    BY <1>1, <2>2 DEF ThreadOK, JobOK, TaskType
<1>5. frame \in FrameType
  BY <1>1, <1>3, <1>4 DEF FrameType, FrameKinds, TypeOK
<1>6. /\ frames'[t] = Append(frames[t], frame) /\ holder' = t
      /\ \A u \in Threads : u # t => frames'[u] = frames[u]
      /\ context' = Scoped(context, kind, target) /\ environ' = Entered(environ, frame)
      /\ UNCHANGED <<current, configured, task, inherited>>
  BY DEF Enter, Entered, IInv, TypeOK
<1>7. /\ frames'[t] \in Seq(FrameType) /\ frames'[t] # <<>>
      /\ Len(frames'[t]) = Len(frames[t]) + 1 /\ frames'[t][Len(frames[t]) + 1] = frame
      /\ \A i \in 1..Len(frames[t]) : frames'[t][i] = frames[t][i]
  BY <1>1, <1>5, <1>6, Pushed
<1>8. \A u \in Threads : u # t => frames[u] = <<>>
  BY <1>1, Alone
<1>9. TypeOK'
  <2>1. context' \in ContextType /\ environ' \in EnvironType
    BY <1>1, <1>3, <1>4, <1>6, ScopedType, EnteredType DEF TypeOK, ContextType
  <2>2. frames' \in [Threads -> Seq(FrameType)]
    BY <1>1, <1>5, <1>6, <1>7 DEF TypeOK, Enter
  <2>3. \A u \in Threads : frames'[u] # <<>> <=> holder' = u
    BY <1>6, <1>7, <1>8
  <2> QED
    BY <1>1, <1>6, <2>1, <2>2, <2>3 DEF TypeOK
<1>10. ContextIsRestored'
  BY <1>6, ContextAssumption DEF ContextIsRestored, ContextAssumption
<1>11. ASSUME NEW u \in Threads, u # t PROVE ThreadOK(u)'
  BY <1>1, <1>6, <1>8, <1>11, Outside DEF IInv
<1>12. JobOK(t)' /\ PlatformOK(t)'
  BY <1>1, <1>2, <1>6 DEF ThreadOK, JobOK, PlatformOK, PlainKinds, ScopedKinds
<1>13. FramesOK(t)'
  <2>1. CASE task[t].kind \in PlainKinds
    <3>1. /\ Len(frames'[t]) = 1 /\ frames'[t][1] = frame /\ frame.kind = "lock"
          /\ task'[t] = task[t] /\ task[t].kind \notin ScopedKinds
      BY <1>1, <1>3, <1>6, <1>7, <2>1 DEF PlainKinds, ScopedKinds
    <3>2. task[t].phase = "entering" /\ Len(frames'[t]) <= Len(Contexts(task[t].kind))
      BY <1>1, <1>3, <2>1, <3>1, ContextKinds
    <3>3. \A i \in 1..Len(frames'[t]) : frames'[t][i].kind = "lock"
      BY <3>1
    <3> HIDE DEF frame, kind, target
    <3> QED
      BY <2>1, <3>1, <3>2, <3>3 DEF FramesOK
  <2>2. CASE task[t].kind \notin PlainKinds
    <3>1. \A i \in 1..Len(frames'[t]) :
             \/ i \in 1..Len(frames[t]) /\ frames'[t][i] = frames[t][i]
             \/ i = Len(frames[t]) + 1 /\ frames'[t][i] = frame
      BY <1>1, <1>7
    <3>2. \A i \in 1..Len(frames[t]) :
             /\ frames[t][i].kind # "lock" /\ frames[t][i].target \in Targets
             /\ frames[t][i].kind = Contexts(task[t].kind)[i]
             /\ frames[t][i].target = target
      BY <1>1, <1>3, <2>2 DEF ThreadOK, FramesOK
    <3>3. frame.kind # "lock" /\ frame.target \in Targets
      BY <1>3, <1>4, <2>2
    <3>4. \A i \in 1..Len(frames'[t]) :
             /\ frames'[t][i].kind # "lock" /\ frames'[t][i].target \in Targets
             /\ frames'[t][i].kind = Contexts(task[t].kind)[i]
             /\ frames'[t][i].target = target
      <4> SUFFICES ASSUME NEW i \in 1..Len(frames'[t])
                   PROVE  /\ frames'[t][i].kind # "lock"
                          /\ frames'[t][i].target \in Targets
                          /\ frames'[t][i].kind = Contexts(task[t].kind)[i]
                          /\ frames'[t][i].target = target
        OBVIOUS
      <4>1. CASE i \in 1..Len(frames[t]) /\ frames'[t][i] = frames[t][i]
        BY <3>2, <4>1
      <4>2. CASE i = Len(frames[t]) + 1 /\ frames'[t][i] = frame
        BY <3>3, <4>2
      <4> QED
        BY <3>1, <4>1, <4>2
    <3> QED
      <4>1. task'[t] = task[t] /\ task[t].phase = "entering"
        BY <1>1, <1>6
      <4>2. /\ Len(Contexts(task[t].kind)) \in Nat
            /\ Len(frames'[t]) <= Len(Contexts(task[t].kind))
        BY <1>1, <1>2, <1>7, ContextKinds
      <4> HIDE DEF frame, kind
      <4> QED
        BY <2>2, <3>4, <4>1, <4>2 DEF FramesOK
  <2> QED
    BY <2>1, <2>2
<1>14. task[t].kind \notin PlainKinds => Built(t)'
  <2> SUFFICES ASSUME task[t].kind \notin PlainKinds, NEW i \in 1..Len(frames'[t])
               PROVE  /\ ContextIn(t, i)' = Scoped(frames'[t][i].context, frames'[t][i].kind,
                                                   frames'[t][i].target)
                      /\ EnvironIn(t, i)' = Entered(frames'[t][i].environ, frames'[t][i])
    BY DEF Built, Entered, Updated
  <2>1. CASE i = Len(frames[t]) + 1
    BY <1>1, <1>6, <1>7, <2>1 DEF ContextIn, EnvironIn
  <2>2. CASE i \in 1..Len(frames[t])
    <3>1. ContextIn(t, i)' = ContextIn(t, i) /\ EnvironIn(t, i)' = EnvironIn(t, i)
      <4>1. CASE i = Len(frames[t])
        BY <1>1, <1>7, <4>1 DEF ContextIn, EnvironIn
      <4>2. CASE i < Len(frames[t])
        <5>1. i + 1 \in 1..Len(frames[t]) /\ i < Len(frames'[t])
          BY <1>1, <1>7, <2>2, <4>2
        <5>2. frames'[t][i + 1] = frames[t][i + 1]
          BY <1>7, <5>1
        <5> QED
          BY <4>2, <5>1, <5>2 DEF ContextIn, EnvironIn
      <4> QED
        BY <1>1, <2>2, <4>1, <4>2
    <3> QED
      BY <1>1, <1>7, <2>2, <3>1 DEF ThreadOK, Built
  <2> QED
    BY <1>1, <1>7, <2>1, <2>2
<1>15. Based(t)'
  <2>1. CASE frames[t] = <<>>
    <3>1. Restores(context, environ)
      BY <1>1, <2>1 DEF TypeOK, MayEnter, IInv, ContextIsRestored
    <3>2. frames'[t][1] = frame
      BY <1>7, <2>1
    <3>3. kind = "lock" => context' = context /\ environ' = environ
      BY <1>6 DEF Scoped, Entered
    <3> QED
      BY <1>3, <1>6, <3>1, <3>2, <3>3 DEF Based, Restores
  <2>2. CASE frames[t] # <<>>
    <3>1. Len(frames[t]) # 0 /\ task[t].kind \notin PlainKinds
      BY <1>1, <1>3, <2>2, EmptySeq
    <3>2. frames'[t][1] = frames[t][1]
      BY <1>1, <1>7, <3>1
    <3> QED
      BY <1>1, <1>6, <2>2, <3>1, <3>2 DEF ThreadOK, Based, Restores
  <2> QED
    BY <2>1, <2>2
<1> QED
  BY <1>6, <1>9, <1>10, <1>11, <1>12, <1>13, <1>14, <1>15 DEF IInv, ThreadOK

\* Leaving a context gives back what it saved; behind the last one the globals
\* are in order.
LEMMA LeaveStep == ASSUME IInv, NEW t \in Threads, Leave(t) PROVE IInv'
<1> DEFINE last  == Len(frames[t])
           frame == frames[t][last]
<1>1. /\ ThreadOK(t) /\ task[t] \in TaskType /\ frames[t] \in Seq(FrameType)
      /\ task[t].phase = "leaving" /\ frames[t] # <<>> /\ TypeOK /\ holder = t
  BY DEF IInv, TypeOK, Leave
<1>2. /\ frames'[t] \in Seq(FrameType) /\ Len(frames'[t]) = last - 1
      /\ \A i \in 1..Len(frames'[t]) : frames'[t][i] = frames[t][i]
      /\ last \in Nat \ {0} /\ (frames'[t] = <<>> <=> last = 1)
      /\ \A u \in Threads : u # t => frames'[u] = frames[u]
  <2>1. frames'[t] = SubSeq(frames[t], 1, last - 1)
    BY DEF Leave, IInv, TypeOK
  <2>2. \A u \in Threads : u # t => frames'[u] = frames[u]
    BY DEF Leave, IInv, TypeOK
  <2> QED
    BY <1>1, <2>1, <2>2, Popped
<1>3. frame \in FrameType /\ frame.context \in ContextType /\ frame.environ \in EnvironType
  <2>1. last \in 1..last
    BY <1>2
  <2>2. frame \in FrameType
    BY <1>1, <2>1, ElementOfSeq
  <2> QED
    BY <2>2 DEF FrameType
<1>4. /\ context' = Restored(context, frame.context, frame.kind)
      /\ environ' = IF frame.kind = "virtuals"
                    THEN Updated(environ, VariablesOf[frame.target], frame.environ)
                    ELSE environ
      /\ holder' = IF last = 1 THEN NoThread ELSE holder
      /\ UNCHANGED <<current, configured, task, inherited>>
  BY DEF Leave
<1>5. \A u \in Threads : u # t => frames[u] = <<>>
  BY <1>1, Alone DEF MayEnter
<1>6. task[t].kind \in PlainKinds =>
        context' = context /\ environ' = environ /\ last = 1
  BY <1>1, <1>2, <1>4 DEF ThreadOK, FramesOK, Restored
<1>7. task[t].kind \notin PlainKinds =>
        context' = frame.context /\ environ' = frame.environ
  <2> SUFFICES ASSUME task[t].kind \notin PlainKinds
               PROVE  context' = frame.context /\ environ' = frame.environ
    OBVIOUS
  <2>1. last \in 1..last
    BY <1>2
  <2>2. context = Scoped(frame.context, frame.kind, frame.target)
        /\ environ = Entered(frame.environ, frame)
    BY <1>1, <2>1 DEF ThreadOK, Built, ContextIn, EnvironIn
  <2>3. frame.kind \in FrameKinds
    BY <1>3 DEF FrameType, FrameKinds
  <2> QED
    BY <1>3, <1>4, <2>2, <2>3, LeavingRestores, LeavingRestoresEnviron
<1>8. TypeOK'
  <2>1. context' \in ContextType /\ environ' \in EnvironType
    BY <1>1, <1>3, <1>6, <1>7 DEF TypeOK
  <2>2. frames' \in [Threads -> Seq(FrameType)]
    BY <1>1, <1>2 DEF TypeOK, Leave
  <2>3. \A u \in Threads : frames'[u] # <<>> <=> holder' = u
    BY <1>1, <1>2, <1>4, <1>5, ContextAssumption DEF ContextAssumption
  <2>4. holder' \in Threads \cup {NoThread}
    BY <1>1, <1>4
  <2> QED
    BY <1>1, <1>4, <2>1, <2>2, <2>3, <2>4 DEF TypeOK
<1>9. ContextIsRestored'
  <2> SUFFICES ASSUME holder' = NoThread PROVE Restores(context, environ)'
    BY DEF ContextIsRestored
  <2>1. last = 1
    BY <1>1, <1>4, ContextAssumption DEF ContextAssumption
  <2>2. CASE task[t].kind \in PlainKinds
    BY <1>1, <1>4, <1>6, <2>2 DEF ThreadOK, Based, Restores
  <2>3. CASE task[t].kind \notin PlainKinds
    BY <1>1, <1>4, <1>7, <2>1, <2>3 DEF ThreadOK, Based, Restores
  <2> QED
    BY <2>2, <2>3
<1>10. ASSUME NEW u \in Threads, u # t PROVE ThreadOK(u)'
  BY <1>1, <1>2, <1>4, <1>5, <1>10, Outside DEF IInv
<1>11. JobOK(t)' /\ PlatformOK(t)'
  BY <1>1, <1>4 DEF ThreadOK, JobOK, PlatformOK
<1>12. FramesOK(t)'
  <2>1. \A i \in 1..Len(frames'[t]) : i \in 1..last /\ frames'[t][i] = frames[t][i]
    BY <1>2
  <2>2. task'[t] = task[t]
    BY <1>4
  <2>3. Len(frames'[t]) <= last /\ (last <= 1 => Len(frames'[t]) <= 1)
    BY <1>2
  <2> HIDE DEF last
  <2>4. task[t].kind \in PlainKinds =>
          /\ Len(frames'[t]) <= 1
          /\ \A i \in 1..Len(frames'[t]) : frames'[t][i].kind = "lock"
    BY <1>1, <1>6, <2>1, <2>3 DEF ThreadOK, FramesOK, last
  <2>5. task[t].kind \notin PlainKinds =>
          \A i \in 1..Len(frames'[t]) :
              frames'[t][i].kind # "lock" /\ frames'[t][i].target \in Targets
    BY <1>1, <2>1 DEF ThreadOK, FramesOK, last
  <2> QED
    BY <1>1, <2>2, <2>4, <2>5 DEF FramesOK
<1>13. task[t].kind \notin PlainKinds => Built(t)'
  <2> SUFFICES ASSUME task[t].kind \notin PlainKinds, NEW i \in 1..Len(frames'[t])
               PROVE  /\ ContextIn(t, i)' = Scoped(frames'[t][i].context, frames'[t][i].kind,
                                                   frames'[t][i].target)
                      /\ EnvironIn(t, i)' = Entered(frames'[t][i].environ, frames'[t][i])
    BY DEF Built, Entered, Updated
  <2>1. i \in 1..last /\ i \in Nat
    BY <1>2
  <2>2. ContextIn(t, i)' = ContextIn(t, i) /\ EnvironIn(t, i)' = EnvironIn(t, i)
    <3>1. CASE i = last - 1
      BY <1>2, <1>7, <3>1 DEF ContextIn, EnvironIn
    <3>2. CASE i < last - 1
      <4>1. i + 1 \in 1..Len(frames'[t])
        BY <1>2, <2>1, <3>2
      <4> QED
        BY <1>2, <2>1, <3>2, <4>1 DEF ContextIn, EnvironIn
    <3> QED
      BY <1>2, <2>1, <3>1, <3>2
  <2> QED
    BY <1>1, <1>2, <2>1, <2>2 DEF ThreadOK, Built
<1>14. Based(t)'
  <2> SUFFICES ASSUME frames'[t] # <<>>
               PROVE  /\ task[t].kind \notin PlainKinds
                      /\ Restores(frames[t][1].context, frames[t][1].environ)'
                      /\ frames'[t][1] = frames[t][1]
    BY <1>2, <1>4 DEF Based, Restores
  <2>1. frames'[t][1] = frames[t][1] /\ task[t].kind \notin PlainKinds
    BY <1>2, <1>6
  <2> QED
    BY <1>1, <1>4, <2>1 DEF ThreadOK, Based, Restores
<1> QED
  BY <1>4, <1>8, <1>9, <1>10, <1>11, <1>12, <1>13, <1>14 DEF IInv, ThreadOK

\* A plain job configures its platform, and the globals stay in order.
LEMMA ConfigureStep == ASSUME IInv, NEW t \in Threads, Configure(t) PROVE IInv'
<1> DEFINE platform == Head(task[t].targets)
<1>1. /\ ThreadOK(t) /\ task[t] \in TaskType /\ Len(frames[t]) = 1
      /\ task[t].phase = "entering" /\ task[t].kind \in {"capture", "run_solver"}
      /\ task[t].kind \in PlainKinds /\ TypeOK
  <2>1. ThreadOK(t) /\ TypeOK /\ task[t] \in TaskType
    BY DEF IInv, TypeOK
  <2>2. /\ Len(frames[t]) = 1 /\ task[t].phase = "entering"
        /\ task[t].kind \in {"capture", "run_solver"}
    BY DEF Configure
  <2>3. task[t].kind \in PlainKinds
    BY <2>2 DEF PlainKinds
  <2>4. Len(frames[t]) = 1 /\ task[t].phase = "entering"
    BY <2>2
  <2>5. task[t].kind \in {"capture", "run_solver"}
    BY <2>2
  <2> QED
    BY Zenon, <2>1, <2>3, <2>4, <2>5
<1>2. frames[t] # <<>> /\ holder = t
  <2>1. Len(frames[t]) = 1 /\ TypeOK
    BY Zenon, <1>1
  <2>2. frames[t] # <<>>
    <3>1. Len(frames[t]) = 1
      BY <2>1
    <3> QED
      BY <3>1
  <2>3. frames[t] # <<>> <=> holder = t
    BY <2>1 DEF TypeOK
  <2> QED
    BY <2>2, <2>3
<1>3. platform \in Platforms /\ platform # None
  <2>1. task[t].targets \in Seq(Platforms) /\ task[t].targets # <<>>
    BY <1>1 DEF ThreadOK, JobOK
  <2>2. platform \in Platforms
    BY <2>1, HeadTailProperties
  <2> QED
    BY <2>2, ContextAssumption DEF ContextAssumption
<1>4. Restores(context, environ)
  BY <1>1, <1>2 DEF ThreadOK, Based
<1>5. /\ task'[t] = [task[t] EXCEPT !.phase = "body"]
      /\ \A u \in Threads : u # t => task'[u] = task[u]
      /\ UNCHANGED <<holder, environ, frames, inherited>>
  BY DEF Configure, IInv, TypeOK
<1>6. /\ task'[t].kind = task[t].kind /\ task'[t].targets = task[t].targets
      /\ task'[t].phase = "body" /\ task'[t] \in TaskType
  BY <1>1, <1>5 DEF TaskType
<1>7. /\ current' = platform /\ (task[t].kind = "run_solver" => configured')
      /\ configured' = (configured \/ task[t].kind = "run_solver")
  BY DEF Configure, SamePlatform
<1>8. /\ context'.subdir = platform /\ context'.overrides = platform
      /\ context'.settings = "own"
      /\ context'.solver = IF configured' THEN "rattler" ELSE "default"
      /\ context' \in ContextType
  <2>1. /\ context' = [context EXCEPT
               !.subdir    = IF SamePlatform(platform) THEN context.subdir ELSE platform,
               !.overrides = IF SamePlatform(platform) THEN context.overrides ELSE platform,
               !.solver    = IF task[t].kind = "run_solver" /\ ~configured THEN "rattler"
                             ELSE context.solver]
        /\ context \in ContextType
    BY <1>1 DEF Configure, TypeOK
  <2>2. current = platform => context.subdir = platform /\ context.overrides = platform
    BY <1>3, <1>4 DEF Restores
  <2>3. /\ context'.subdir = platform /\ context'.overrides = platform
        /\ context'.settings = context.settings
    BY <2>1, <2>2 DEF ContextType, SamePlatform
  <2>4. context'.solver = IF task[t].kind = "run_solver" /\ ~configured THEN "rattler"
                          ELSE context.solver
    BY <2>1 DEF ContextType
  <2>5. context' \in ContextType
    BY <1>3, <2>1 DEF ContextType
  <2> QED
    BY <1>1, <1>4, <1>7, <2>3, <2>4, <2>5 DEF Restores
<1>9. Restores(context, environ)'
  BY <1>3, <1>4, <1>5, <1>7, <1>8 DEF Restores
<1>10. TypeOK'
  <2>1. task' \in [Threads -> TaskType]
    BY <1>1, <1>6 DEF TypeOK, Configure
  <2>2. current' \in Platforms \cup {None} /\ configured' \in BOOLEAN
    BY <1>1, <1>3, <1>7 DEF TypeOK
  <2> QED
    BY <1>1, <1>5, <1>8, <2>1, <2>2 DEF TypeOK
<1>11. ContextIsRestored'
  BY <1>9 DEF ContextIsRestored, Restores
<1>12. ASSUME NEW u \in Threads, u # t PROVE ThreadOK(u)'
  <2>1. frames[u] = <<>>
    BY <1>1, <1>2, <1>12, Alone DEF MayEnter
  <2> QED
    BY <1>1, <1>5, <1>12, <2>1, Outside DEF IInv
<1>13. JobOK(t)' /\ PlatformOK(t)'
  BY <1>1, <1>6, <1>7 DEF ThreadOK, JobOK, PlatformOK
<1>14. FramesOK(t)'
  BY <1>1, <1>5, <1>6, ContextKinds DEF ThreadOK, FramesOK, PlainKinds, ScopedKinds
<1>15. Based(t)'
  BY <1>1, <1>6, <1>9 DEF Based
<1> QED
  BY <1>1, <1>6, <1>10, <1>11, <1>12, <1>13, <1>14, <1>15 DEF IInv, ThreadOK

-----------------------------------------------------------------------------
(* What a job reads.                                                        *)

\* In the body of a job on targets, the frames are those of its kind, on the
\* target that it works on, each entered from the one below it, and the lowest
\* from the process's own settings.
LEMMA Layers ==
  ASSUME IInv, NEW t \in Threads, task[t].phase = "body", task[t].kind \in ScopedKinds
  PROVE  LET f == frames[t]
             k == Contexts(task[t].kind)
             g == Head(task[t].targets)
         IN  /\ Len(f) = Len(k) /\ Len(k) \in Nat
             /\ g \in Targets
             /\ \A i \in 1..Len(k) :
                   /\ f[i].context \in ContextType /\ f[i].kind = k[i] /\ f[i].target = g
                   /\ (IF i < Len(k) THEN f[i + 1].context ELSE context)
                         = Scoped(f[i].context, k[i], g)
             /\ k # <<>> => f[1].context.settings = "own"
             /\ k # <<>> /\ k[Len(k)] = "virtuals" =>
                   \A n \in VariablesOf[g] : environ[n] = g
<1>1. ThreadOK(t) /\ TypeOK /\ task[t].kind \notin PlainKinds
  BY DEF IInv, PlainKinds, ScopedKinds
<1>2. Len(frames[t]) = Len(Contexts(task[t].kind)) /\ Len(Contexts(task[t].kind)) \in Nat
  BY <1>1, ContextKinds DEF ThreadOK, FramesOK
<1>3. Head(task[t].targets) \in Targets
  <2>1. task[t].targets \in Seq(Targets) /\ task[t].targets # <<>>
    BY <1>1 DEF ThreadOK, JobOK, ScopedKinds
  <2> QED
    BY <2>1, HeadTailProperties
<1>4. \A i \in 1..Len(frames[t]) : frames[t][i] \in FrameType
  BY <1>1, ElementOfSeq DEF TypeOK
<1>5. \A i \in 1..Len(frames[t]) :
         /\ frames[t][i].kind = Contexts(task[t].kind)[i]
         /\ frames[t][i].target = Head(task[t].targets)
  BY <1>1 DEF ThreadOK, FramesOK
<1>6. \A i \in 1..Len(frames[t]) :
         ContextIn(t, i) = Scoped(frames[t][i].context, frames[t][i].kind,
                                  frames[t][i].target)
  BY <1>1 DEF ThreadOK, Built
<1>7. ASSUME Contexts(task[t].kind) # <<>>
      PROVE  frames[t][1].context.settings = "own"
  <2>1. frames[t] # <<>>
    <3>1. Len(Contexts(task[t].kind)) # 0
      BY <1>7 DEF Contexts, ScopedKinds, PlainKinds
    <3> QED
      BY <1>2, <3>1
  <2> QED
    BY <1>1, <2>1 DEF ThreadOK, Based, Restores
<1>8. ASSUME Contexts(task[t].kind) # <<>>,
             Contexts(task[t].kind)[Len(Contexts(task[t].kind))] = "virtuals"
      PROVE  \A n \in VariablesOf[Head(task[t].targets)] :
                environ[n] = Head(task[t].targets)
  <2> DEFINE last == Len(frames[t])
  <2>1. last # 0
    BY <1>2, <1>8 DEF Contexts, ScopedKinds, PlainKinds
  <2>2. last \in 1..last
    BY <1>2, <2>1
  <2>3. EnvironIn(t, last) = Entered(frames[t][last].environ, frames[t][last])
    BY <1>1, <2>2 DEF ThreadOK, Built
  <2>4. environ = Entered(frames[t][last].environ, frames[t][last])
    BY <1>2, <2>3 DEF EnvironIn
  <2>5. frames[t][last].kind = "virtuals" /\ frames[t][last].target = Head(task[t].targets)
    BY <1>2, <1>5, <1>8, <2>2
  <2>6. VariablesOf[Head(task[t].targets)] \subseteq Variables
    BY <1>3, ContextAssumption DEF ContextAssumption
  <2> QED
    BY <2>4, <2>5, <2>6 DEF Entered, Updated
<1>9. \A i \in 1..Len(frames[t]) : frames[t][i].context \in ContextType
  BY <1>4 DEF FrameType
<1>10. \A i \in 1..Len(Contexts(task[t].kind)) :
          (IF i < Len(Contexts(task[t].kind)) THEN frames[t][i + 1].context ELSE context)
             = Scoped(frames[t][i].context, Contexts(task[t].kind)[i],
                      Head(task[t].targets))
  BY <1>2, <1>5, <1>6 DEF ContextIn
<1> QED
  BY <1>2, <1>3, <1>5, <1>7, <1>8, <1>9, <1>10

\* What each kind of context changes, and what it leaves alone.
LEMMA ScopedFields ==
  ASSUME NEW c \in ContextType, NEW kind \in FrameKinds, NEW g
  PROVE  LET s == Scoped(c, kind, g)
         IN  /\ s.settings = (IF kind = "settings" THEN "carried" ELSE c.settings)
             /\ s.overrides = (IF kind = "solver" THEN g ELSE c.overrides)
             /\ s.solver = (IF kind = "solver" THEN "rattler" ELSE c.solver)
             /\ s.subdir = (IF kind \in {"solver", "virtuals"} THEN SubdirOf[g]
                            ELSE c.subdir)
<1>1. CASE kind = "lock"
  BY <1>1 DEF Scoped
<1>2. CASE kind = "virtuals"
  BY <1>2 DEF Scoped, ContextType
<1>3. CASE kind = "solver"
  BY <1>3 DEF Scoped, ContextType
<1>4. CASE kind = "settings"
  BY <1>4 DEF Scoped, ContextType
<1> QED
  BY <1>1, <1>2, <1>3, <1>4 DEF FrameKinds

\* What a job reads in its body is its own (resolve.py:190, workspace.py:65).
LEMMA ReadsFollow == IInv => ReadsAreItsOwn
<1> SUFFICES ASSUME IInv, NEW t \in Threads, task[t].phase = "body"
             PROVE  LET g    == Head(task[t].targets)
                        kind == task[t].kind
                    IN  /\ kind \in {"capture", "run_solver"} => ReadsPlatform(g)
                        /\ kind \in {"identity", "solve", "check", "update",
                                     "update_identity"} => ReadsTarget(g)
                        /\ kind \in {"identity", "solve", "export", "update",
                                     "update_identity"} => context.overrides = g
                        /\ kind \in {"run_solver", "solve", "update"}
                              => context.solver = "rattler"
                        /\ (context.settings = "carried") <=>
                              kind \in {"update", "update_identity"}
  BY DEF ReadsAreItsOwn
<1> DEFINE g == Head(task[t].targets)
<1>1. /\ task[t].kind \in PlainKinds \cup ScopedKinds /\ ThreadOK(t)
  <2>1. ThreadOK(t) /\ task[t] \in TaskType
    BY DEF IInv, TypeOK
  <2>2. task[t].kind \notin {"idle", "update_failed"}
    BY <2>1 DEF ThreadOK, JobOK
  <2> QED
    BY <2>1, <2>2 DEF TaskType
<1>2. CASE task[t].kind \in PlainKinds
  <2>1. frames[t] # <<>>
    <3>1. Len(frames[t]) = 1
      BY <1>1, <1>2, ContextKinds DEF ThreadOK, FramesOK
    <3>2. Len(<<>>) = 0
      OBVIOUS
    <3> QED
      BY ONLY <3>1, <3>2
  <2>2. Restores(context, environ)
    BY <1>1, <1>2, <2>1 DEF ThreadOK, Based
  <2>3. task[t].kind \in {"capture", "run_solver"} =>
          /\ current = Head(task[t].targets) /\ current # None
          /\ task[t].kind = "run_solver" => configured
    <3> SUFFICES ASSUME task[t].kind \in {"capture", "run_solver"}
                 PROVE  /\ current = Head(task[t].targets) /\ current # None
                        /\ task[t].kind = "run_solver" => configured
      OBVIOUS
    <3>1. task[t].targets \in Seq(Platforms) /\ task[t].targets # <<>>
      BY <1>1, <1>2 DEF ThreadOK, JobOK
    <3>2. Head(task[t].targets) \in Platforms
      BY <3>1, HeadTailProperties
    <3> QED
      BY <1>1, <3>2, ContextAssumption DEF ThreadOK, PlatformOK, ContextAssumption
  <2> QED
    BY <1>2, <2>2, <2>3 DEF Restores, ReadsPlatform, PlainKinds
<1>3. CASE task[t].kind \in {"identity", "solve"}
  <2>1. Contexts(task[t].kind) = <<"solver", "virtuals">> /\ task[t].kind \in ScopedKinds
    BY <1>3 DEF Contexts, PlainKinds, ScopedKinds
  <2>2. frames[t][1].context.settings = "own" /\ frames[t][1].context \in ContextType
    BY <2>1, Layers
  <2>8. /\ Contexts(task[t].kind) # <<>>
        /\ Contexts(task[t].kind)[Len(Contexts(task[t].kind))] = "virtuals"
    BY <2>1
  <2>9. \A n \in VariablesOf[g] : environ[n] = g
    BY <2>1, <2>8, Layers
  <2>3. frames[t][2].context = Scoped(frames[t][1].context, "solver", g)
    BY <2>1, Layers
  <2>4. context = Scoped(frames[t][2].context, "virtuals", g)
    BY <2>1, Layers
  <2> QED
    BY <1>3, <2>2, <2>3, <2>4, <2>9 DEF Scoped, ContextType, ReadsTarget
<1>4. CASE task[t].kind = "export"
  <2>1. Contexts(task[t].kind) = <<"solver">> /\ task[t].kind \in ScopedKinds
    BY <1>4 DEF Contexts, PlainKinds, ScopedKinds
  <2>2. /\ frames[t][1].context.settings = "own" /\ frames[t][1].context \in ContextType
    BY <2>1, Layers
  <2>3. context = Scoped(frames[t][1].context, "solver", g)
    BY <2>1, Layers
  <2> QED
    BY <1>4, <2>2, <2>3 DEF Scoped, ContextType
<1>5. CASE task[t].kind = "check"
  <2>1. Contexts(task[t].kind) = <<"virtuals">> /\ task[t].kind \in ScopedKinds
    BY <1>5 DEF Contexts, PlainKinds, ScopedKinds
  <2>2. frames[t][1].context.settings = "own" /\ frames[t][1].context \in ContextType
    BY <2>1, Layers
  <2>8. /\ Contexts(task[t].kind) # <<>>
        /\ Contexts(task[t].kind)[Len(Contexts(task[t].kind))] = "virtuals"
    BY <2>1
  <2>9. \A n \in VariablesOf[g] : environ[n] = g
    BY <2>1, <2>8, Layers
  <2>3. context = Scoped(frames[t][1].context, "virtuals", g)
    BY <2>1, Layers
  <2> QED
    BY <1>5, <2>2, <2>3, <2>9 DEF Scoped, ContextType, ReadsTarget
<1>6. CASE task[t].kind = "update"
  <2>1. /\ Contexts(task[t].kind) =
              <<"settings", "solver", "virtuals">>
        /\ task[t].kind \in ScopedKinds
    BY <1>6 DEF Contexts, PlainKinds, ScopedKinds
  <2>2. \A i \in 1..3 : frames[t][i].context \in ContextType
    BY <2>1, Layers
  <2>3. frames[t][2].context.settings = "carried"
    <3>1. frames[t][2].context = Scoped(frames[t][1].context, "settings", g)
      BY <2>1, Layers
    <3> QED
      BY <2>2, <3>1, ScopedFields DEF FrameKinds
  <2>4. /\ frames[t][3].context.settings = "carried"
        /\ frames[t][3].context.overrides = g
        /\ frames[t][3].context.solver = "rattler"
    <3>1. frames[t][3].context = Scoped(frames[t][2].context, "solver", g)
      BY <2>1, Layers
    <3> QED
      BY <2>2, <2>3, <3>1, ScopedFields DEF FrameKinds
  <2>5. /\ context.settings = "carried"
        /\ context.overrides = g
        /\ context.solver = "rattler"
        /\ context.subdir = SubdirOf[g]
    <3>1. context = Scoped(frames[t][3].context, "virtuals", g)
      BY <2>1, Layers
    <3> QED
      BY <2>2, <2>4, <3>1, ScopedFields DEF FrameKinds
  <2>8. /\ Contexts(task[t].kind) # <<>>
        /\ Contexts(task[t].kind)[Len(Contexts(task[t].kind))] = "virtuals"
    BY <2>1
  <2>9. \A n \in VariablesOf[g] : environ[n] = g
    BY <2>1, <2>8, Layers
  <2> QED
    BY <1>6, <2>5, <2>9 DEF ReadsTarget
<1>7. CASE task[t].kind = "update_identity"
  <2>1. /\ Contexts(task[t].kind) =
              <<"settings", "solver", "virtuals", "solver", "virtuals">>
        /\ task[t].kind \in ScopedKinds
    BY <1>7 DEF Contexts, PlainKinds, ScopedKinds
  <2>2. \A i \in 1..5 : frames[t][i].context \in ContextType
    BY <2>1, Layers
  <2>3. frames[t][2].context.settings = "carried"
    <3>1. frames[t][2].context = Scoped(frames[t][1].context, "settings", g)
      BY <2>1, Layers
    <3> QED
      BY <2>2, <3>1, ScopedFields DEF FrameKinds
  <2>4. /\ frames[t][3].context.settings = "carried"
        /\ frames[t][3].context.overrides = g
        /\ frames[t][3].context.solver = "rattler"
    <3>1. frames[t][3].context = Scoped(frames[t][2].context, "solver", g)
      BY <2>1, Layers
    <3> QED
      BY <2>2, <2>3, <3>1, ScopedFields DEF FrameKinds
  <2>5. /\ frames[t][4].context.settings = "carried"
        /\ frames[t][4].context.overrides = g
        /\ frames[t][4].context.solver = "rattler"
    <3>1. frames[t][4].context = Scoped(frames[t][3].context, "virtuals", g)
      BY <2>1, Layers
    <3> QED
      BY <2>2, <2>4, <3>1, ScopedFields DEF FrameKinds
  <2>6. /\ frames[t][5].context.settings = "carried"
        /\ frames[t][5].context.overrides = g
        /\ frames[t][5].context.solver = "rattler"
    <3>1. frames[t][5].context = Scoped(frames[t][4].context, "solver", g)
      BY <2>1, Layers
    <3> QED
      BY <2>2, <2>5, <3>1, ScopedFields DEF FrameKinds
  <2>7. /\ context.settings = "carried"
        /\ context.overrides = g
        /\ context.solver = "rattler"
        /\ context.subdir = SubdirOf[g]
    <3>1. context = Scoped(frames[t][5].context, "virtuals", g)
      <4>1. /\ Len(Contexts(task[t].kind)) = 5
            /\ Contexts(task[t].kind)[5] = "virtuals"
        BY <2>1
      <4>2. 5 \in 1..5 /\ ~ (5 < 5)
        OBVIOUS
      <4> HIDE DEF g
      <4> QED
        BY <2>1, <4>1, <4>2, Layers DEF g
    <3> QED
      BY <2>2, <2>6, <3>1, ScopedFields DEF FrameKinds
  <2>8. /\ Contexts(task[t].kind) # <<>>
        /\ Contexts(task[t].kind)[Len(Contexts(task[t].kind))] = "virtuals"
    BY <2>1
  <2>9. \A n \in VariablesOf[g] : environ[n] = g
    BY <2>1, <2>8, Layers
  <2> QED
    BY <1>7, <2>7, <2>9 DEF ReadsTarget
<1> QED
  BY <1>1, <1>2, <1>3, <1>4, <1>5, <1>6, <1>7 DEF ScopedKinds

-----------------------------------------------------------------------------
(* Theorems.                                                                *)

\* Every step keeps the invariant.
LEMMA InvStep == ASSUME IInv, [Next]_contextVars PROVE IInv'
<1>1. ASSUME Spawn PROVE IInv'
  <2>1. TypeOK'
    BY <1>1 DEF IInv, TypeOK, Spawn
  <2>2. ContextIsRestored'
    BY <1>1 DEF IInv, ContextIsRestored, Restores, Spawn
  <2>3. \A t \in Threads : ThreadOK(t)'
    BY <1>1, Undisturbed DEF IInv, Spawn
  <2> QED
    BY <2>1, <2>2, <2>3 DEF IInv
<1>2. ASSUME NEW t \in Threads, Step(t) PROVE IInv'
  BY <1>2, CallStep, EnterStep, EnterBodyStep, ConfigureStep, EndBodyStep, RaiseStep,
     LeaveStep, NextTargetStep
  DEF Step
<1>3. ASSUME UNCHANGED contextVars PROVE IInv'
  <2>1. TypeOK'
    BY <1>3 DEF IInv, TypeOK, contextVars
  <2>2. ContextIsRestored'
    BY <1>3 DEF IInv, ContextIsRestored, Restores, contextVars
  <2>3. \A t \in Threads : ThreadOK(t)'
    BY <1>3, Undisturbed DEF IInv, contextVars
  <2> QED
    BY <2>1, <2>2, <2>3 DEF IInv
<1> QED
  BY <1>1, <1>2, <1>3 DEF Next

\* The inductive invariant holds in every state.
LEMMA InvHolds == Spec => []IInv
<1>1. Init => IInv
  BY InvInit
<1>2. IInv /\ [Next]_contextVars => IInv'
  BY InvStep
<1> QED
  BY <1>1, <1>2, PTL DEF Spec

\* The variables have their types, and only the thread that holds the lock is
\* inside a context.
THEOREM ContextTypeCorrect == Spec => []TypeOK
<1>1. IInv => TypeOK
  BY DEF IInv
<1> QED
  BY <1>1, InvHolds, PTL

\* Whenever the lock is free, everything scoped has been restored and the
\* context is what current_platform says (resolve.py:206).
THEOREM ContextRestored == Spec => []ContextIsRestored
<1>1. IInv => ContextIsRestored
  BY DEF IInv
<1> QED
  BY <1>1, InvHolds, PTL

\* A job reads the context and the environment of its own platform or target,
\* for any number of jobs, targets and failures.
THEOREM ReadsOwn == Spec => []ReadsAreItsOwn
BY ReadsFollow, InvHolds, PTL
=============================================================================
