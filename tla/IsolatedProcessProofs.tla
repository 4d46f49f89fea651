----------------------- MODULE IsolatedProcessProofs ------------------------
(***************************************************************************)
(* Proofs about IsolatedProcess, for every set of tasks, every number of   *)
(* slots and every mix of work: a child lives on behalf of a task that     *)
(* holds a slot (ChildrenAreOwned), and statuses are honest                *)
(* (AnswersAreHonest).                                                     *)
(*                                                                         *)
(* Neither is inductive.  TaskOK follows one task from its request to its  *)
(* answer: what its process and pipe are before it starts, that a message  *)
(* once received stays in the pipe and is what was concluded, and that     *)
(* whoever has given its slot back has seen its child gone or said that it *)
(* was not.  Tasks share only the limiter, which Capacity counts.          *)
(***************************************************************************)
EXTENDS IsolatedProcess, FiniteSetTheorems, TLAPS

-----------------------------------------------------------------------------
(* The inductive invariant.                                                 *)

\* Before the start there is no process and no conclusion.
NotStarted(t) ==
    phase[t] \in {"idle", "queued", "starting"} =>
        child[t] = "none" /\ pipe[t] = "empty" /\ outcome[t] = "none"

\* The answer is the status of the conclusion.
Concluded(t) ==
    status[t] = IF phase[t] = "answered" THEN Status(kind[t], outcome[t]) ELSE 0

\* A child is sent SIGKILL before it is given up, and given up with an error.
GivenUp(t) ==
    /\ phase[t] = "killing" => child[t] \in {"killed", "gone"}
    /\ phase[t] \in {"finished", "answered"} /\ Live(t) =>
          child[t] = "killed" /\ outcome[t] = "stuck"

\* What was concluded is what is in the pipe, or known to the thread.
KnownToThread == {"none", "timeout", "not-started", "end-of-file", "broken", "stuck"}

Received(t) ==
    /\ outcome[t] \notin KnownToThread => pipe[t] = outcome[t]
    /\ "timeout" \in {outcome[t], pipe[t]} => late[t]
    /\ pipe[t] \in {"empty", "partial"} \cup Messages(kind[t])

TaskOK(t) == NotStarted(t) /\ Concluded(t) /\ GivenUp(t) /\ Received(t)

Holders == {t \in Tasks : HoldsSlot(t)}

Capacity == Cardinality(Holders) <= Slots

IInv == TypeOK /\ Capacity /\ \A t \in Tasks : TaskOK(t)

-----------------------------------------------------------------------------
(* Messages and statuses.                                                   *)

\* Only a parser reports a timeout, and no message looks like an empty pipe.
LEMMA MessageKinds ==
  ASSUME NEW k \in Kinds
  PROVE  /\ Messages(k) \subseteq AllMessages
         /\ "empty" \notin Messages(k) /\ "partial" \notin Messages(k)
         /\ "timeout" \in Messages(k) => k = "parse"
<1>1. Messages(k) \subseteq AllMessages
  BY DEF AllMessages
<1> QED
  BY <1>1 DEF Kinds, Messages

\* What a status says of the conclusion.
LEMMA Statuses ==
  ASSUME NEW k \in Kinds, NEW result
  PROVE  /\ Status(k, result) \in {200, 400, 422, 500, 503, 504}
         /\ Status(k, result) = 200 => result = "ok"
         /\ Status(k, result) = 504 => result = "timeout"
         /\ Status(k, result) \in {400, 422} =>
               result \in {"invalid", "unknown-format", "refused"}
         /\ result = "stuck" => Status(k, result) \in {500, 503}
BY DEF Status

-----------------------------------------------------------------------------
(* Steps.                                                                   *)

\* A step of one task leaves the others as they are.
LEMMA Undisturbed ==
  ASSUME NEW u \in Tasks, TaskOK(u),
         kind'[u] = kind[u], phase'[u] = phase[u], late'[u] = late[u],
         child'[u] = child[u], pipe'[u] = pipe[u], outcome'[u] = outcome[u],
         status'[u] = status[u]
  PROVE  TaskOK(u)'
BY DEF TaskOK, NotStarted, Concluded, GivenUp, Received, Live

\* The number of slots in use does not grow if nobody takes one.
LEMMA NobodyEnters ==
  ASSUME Capacity, \A t \in Tasks : HoldsSlot(t)' => HoldsSlot(t)
  PROVE  Capacity'
<1>1. IsFiniteSet(Holders)
  <2>1. Holders \subseteq Tasks
    BY DEF Holders
  <2> QED
    BY <2>1, IsolatedAssumption, FS_Subset DEF IsolatedAssumption
<1>2. Holders' \subseteq Holders
  BY DEF Holders
<1>3. /\ Cardinality(Holders) \in Nat /\ Cardinality(Holders') \in Nat
      /\ Cardinality(Holders') <= Cardinality(Holders)
  BY <1>1, <1>2, FS_Subset, FS_CardinalityType
<1> QED
  BY <1>3, IsolatedAssumption DEF Capacity, IsolatedAssumption

\* A task takes one only if one is free.
LEMMA OneEnters ==
  ASSUME NEW t \in Tasks, HasSlot, ~HoldsSlot(t),
         \A u \in Tasks : u # t => (HoldsSlot(u)' <=> HoldsSlot(u))
  PROVE  Capacity'
<1>1. IsFiniteSet(Holders)
  <2>1. Holders \subseteq Tasks
    BY DEF Holders
  <2> QED
    BY <2>1, IsolatedAssumption, FS_Subset DEF IsolatedAssumption
<1>2. Cardinality(Holders) \in Nat /\ Cardinality(Holders) < Slots
  BY <1>1, FS_CardinalityType DEF HasSlot, Holders
<1>3. /\ IsFiniteSet(Holders \cup {t})
      /\ Cardinality(Holders \cup {t}) = Cardinality(Holders) + 1
  BY <1>1, FS_AddElement DEF Holders
<1>4. Holders' \subseteq Holders \cup {t}
  BY DEF Holders
<1>5. Cardinality(Holders') \in Nat /\ Cardinality(Holders') <= Cardinality(Holders) + 1
  BY <1>3, <1>4, FS_Subset, FS_CardinalityType
<1> QED
  BY <1>2, <1>5, IsolatedAssumption DEF Capacity, IsolatedAssumption

Steps(t) == Request(t) \/ Deadline(t) \/ Handler(t) \/ Child(t)

\* No step but Begin takes a slot.
LEMMA CapacityStep == ASSUME IInv, NEW t \in Tasks, Steps(t) PROVE Capacity'
<1>1. CASE Begin(t)
  <2>1. ~HoldsSlot(t) /\ HasSlot
    BY <1>1 DEF Begin, HoldsSlot
  <2>2. \A u \in Tasks : u # t => (HoldsSlot(u)' <=> HoldsSlot(u))
    BY <1>1 DEF Begin, HoldsSlot, IInv, TypeOK
  <2> QED
    BY <2>1, <2>2, OneEnters
<1>2. CASE ~Begin(t)
  <2>1. \A u \in Tasks : u # t => phase'[u] = phase[u]
    BY DEF Steps, Request, Deadline, Handler, Child, QueueTimesOut, Begin, Start,
           PollTimesOut, Poll, Receive, Terminate, Kill, Joined, Answer, ChildWrites,
           ChildSends, ChildExits, IInv, TypeOK
  <2>2. HoldsSlot(t)' => HoldsSlot(t)
    BY <1>2 DEF Steps, Request, Deadline, Handler, Child, QueueTimesOut, Start,
           PollTimesOut, Poll, Receive, Terminate, Kill, Joined, Answer, ChildWrites,
           ChildSends, ChildExits, IInv, TypeOK, HoldsSlot
  <2>3. \A u \in Tasks : HoldsSlot(u)' => HoldsSlot(u)
    BY <2>1, <2>2 DEF HoldsSlot
  <2> QED
    BY <2>3, NobodyEnters DEF IInv
<1> QED
  BY <1>1, <1>2

\* The types are preserved, one variable at a time.
LEMMA TypeStep == ASSUME IInv, NEW t \in Tasks, Steps(t) PROVE TypeOK'
<1>1. kind[t] \in Kinds /\ Messages(kind[t]) \subseteq AllMessages
  BY MessageKinds DEF IInv, TypeOK
<1>2. pipe[t] \in {"empty", "partial"} \cup Messages(kind[t])
  BY DEF IInv, TaskOK, Received
<1>3. Status(kind[t], outcome[t]) \in {0, 200, 400, 422, 500, 503, 504}
  BY <1>1, Statuses
<1>4. CASE Request(t) \/ Deadline(t)
  <2>1. CASE Request(t)
    BY <2>1 DEF Request, IInv, TypeOK
  <2>2. CASE Deadline(t)
    <3>1. late' \in [Tasks -> BOOLEAN]
      BY <2>2 DEF Deadline, IInv, TypeOK
    <3> QED
      BY <2>2, <3>1 DEF Deadline, IInv, TypeOK
  <2> QED
    BY <1>4, <2>1, <2>2
<1>5. CASE Child(t)
  <2>1. CASE ChildWrites(t)
    BY <2>1 DEF ChildWrites, IInv, TypeOK
  <2>2. CASE ChildSends(t)
    <3>1. PICK m \in Messages(kind[t]) : pipe' = [pipe EXCEPT ![t] = m]
      BY <2>2 DEF ChildSends
    <3>2. m \in AllMessages
      BY <1>1
    <3>3. pipe' \in [Tasks -> {"empty", "partial"} \cup AllMessages]
      BY <3>1, <3>2 DEF IInv, TypeOK
    <3> QED
      BY <2>2, <3>3 DEF ChildSends, IInv, TypeOK
  <2>3. CASE ChildExits(t)
    BY <2>3 DEF ChildExits, IInv, TypeOK
  <2> QED
    BY <1>5, <2>1, <2>2, <2>3 DEF Child
<1>6. CASE QueueTimesOut(t) \/ PollTimesOut(t)
  <2>1. "timeout" \in AllMessages
    BY DEF AllMessages, Kinds, Messages
  <2> QED
    BY <1>6, <2>1 DEF QueueTimesOut, PollTimesOut, IInv, TypeOK
<1>7. CASE Begin(t)
  <2>1. "timeout" \in AllMessages
    BY DEF AllMessages, Kinds, Messages
  <2> QED
    BY <1>7, <2>1 DEF Begin, IInv, TypeOK
<1>8. CASE Start(t)
  BY <1>8 DEF Start, IInv, TypeOK
<1>9. CASE Poll(t) \/ Terminate(t) \/ Kill(t) \/ Joined(t)
  BY <1>9 DEF Poll, Terminate, Kill, Joined, IInv, TypeOK
<1>10. CASE Receive(t)
  <2>1. outcome'[t] \in {"end-of-file", "broken"} \cup Messages(kind[t])
    BY <1>2, <1>10 DEF Receive, IInv, TypeOK
  <2> QED
    BY <1>1, <1>10, <2>1 DEF Receive, IInv, TypeOK
<1>11. CASE Answer(t)
  BY <1>3, <1>11 DEF Answer, IInv, TypeOK
<1> QED
  BY <1>4, <1>5, <1>6, <1>7, <1>8, <1>9, <1>10, <1>11 DEF Steps, Handler

\* What is so of one task stays so, for the task that takes the step.
LEMMA TaskStep == ASSUME IInv, NEW t \in Tasks, Steps(t) PROVE TaskOK(t)'
<1>1. /\ TypeOK /\ kind[t] \in Kinds
      /\ NotStarted(t) /\ Concluded(t) /\ GivenUp(t) /\ Received(t)
  BY DEF IInv, TypeOK, TaskOK
<1>2. /\ "empty" \notin Messages(kind[t]) /\ "partial" \notin Messages(kind[t])
      /\ "timeout" \in Messages(kind[t]) => kind[t] = "parse"
  BY <1>1, MessageKinds
<1>3. outcome[t] \notin {"empty", "partial"}
  BY <1>1, <1>2, MessageKinds DEF TypeOK, AllMessages
<1>4. CASE Request(t) \/ Deadline(t) \/ QueueTimesOut(t) \/ Begin(t)
  BY <1>1, <1>4
  DEF Request, Deadline, QueueTimesOut, Begin, TypeOK, TaskOK, NotStarted, Concluded,
      GivenUp, Received, KnownToThread, Live
<1>5. CASE Start(t) \/ PollTimesOut(t) \/ Poll(t)
  BY <1>1, <1>5
  DEF Start, PollTimesOut, Poll, TypeOK, TaskOK, NotStarted, Concluded, GivenUp,
      Received, KnownToThread, Live
<1>6. CASE Receive(t)
  BY <1>1, <1>2, <1>6
  DEF Receive, TypeOK, TaskOK, NotStarted, Concluded, GivenUp, Received, KnownToThread,
      Live
<1>7. CASE Terminate(t) \/ Kill(t) \/ Joined(t) \/ Answer(t)
  BY <1>1, <1>7
  DEF Terminate, Kill, Joined, Answer, TypeOK, TaskOK, NotStarted, Concluded, GivenUp,
      Received, KnownToThread, Live
<1>8. CASE Child(t)
  BY <1>1, <1>2, <1>3, <1>8
  DEF Child, ChildWrites, ChildSends, ChildExits, TypeOK, TaskOK, NotStarted, Concluded,
      GivenUp, Received, KnownToThread, Live
<1> QED
  BY <1>4, <1>5, <1>6, <1>7, <1>8 DEF Steps, Handler

\* Every step keeps the invariant.
LEMMA InvStep == ASSUME IInv, [Next]_vars PROVE IInv'
<1>1. ASSUME NEW t \in Tasks, Steps(t) PROVE IInv'
  <2>1. ASSUME NEW u \in Tasks, u # t PROVE TaskOK(u)'
    <3>1. /\ kind'[u] = kind[u] /\ phase'[u] = phase[u] /\ late'[u] = late[u]
          /\ child'[u] = child[u] /\ pipe'[u] = pipe[u]
          /\ outcome'[u] = outcome[u] /\ status'[u] = status[u]
      BY <1>1, <2>1
      DEF Steps, Request, Deadline, Handler, Child, QueueTimesOut, Begin, Start,
          PollTimesOut, Poll, Receive, Terminate, Kill, Joined, Answer, ChildWrites,
          ChildSends, ChildExits, IInv, TypeOK
    <3> QED
      BY <3>1, Undisturbed DEF IInv
  <2> QED
    BY <1>1, <2>1, TypeStep, CapacityStep, TaskStep DEF IInv
<1>2. ASSUME UNCHANGED vars PROVE IInv'
  <2>1. \A u \in Tasks : TaskOK(u)'
    BY <1>2, Undisturbed DEF IInv, vars
  <2>2. Capacity'
    BY <1>2, NobodyEnters DEF IInv, vars, HoldsSlot
  <2> QED
    BY <1>2, <2>1, <2>2 DEF IInv, TypeOK, vars
<1> QED
  BY <1>1, <1>2 DEF Next, Steps

LEMMA InvInit == Init => IInv
<1> SUFFICES ASSUME Init PROVE IInv
  OBVIOUS
<1>1. TypeOK
  BY IsolatedAssumption DEF Init, TypeOK, IsolatedAssumption
<1>2. \A t \in Tasks : TaskOK(t)
  BY DEF Init, TaskOK, NotStarted, Concluded, GivenUp, Received, KnownToThread, Live
<1>3. Holders = {}
  BY DEF Init, Holders, HoldsSlot
<1>4. Cardinality(Holders) = 0
  BY <1>3, FS_EmptySet
<1> QED
  BY <1>1, <1>2, <1>4, IsolatedAssumption DEF IInv, Capacity, IsolatedAssumption

\* The inductive invariant holds in every state.
LEMMA InvHolds == Spec => []IInv
<1>1. Init => IInv
  BY InvInit
<1>2. IInv /\ [Next]_vars => IInv'
  BY InvStep
<1> QED
  BY <1>1, <1>2, PTL DEF Spec

-----------------------------------------------------------------------------
(* Theorems.                                                                *)

\* The variables of all tasks have their types.
THEOREM IsolatedTypeCorrect == Spec => []TypeOK
<1>1. IInv => TypeOK
  BY DEF IInv
<1> QED
  BY <1>1, InvHolds, PTL

\* However many requests wait for however many slots, no more than Slots tasks
\* work, and no child lives without a task that holds a slot or an answer that
\* says that it could not be stopped (app.py:1008 and its two counterparts).
THEOREM ChildrenOwned == Spec => []ChildrenAreOwned
<1>1. ASSUME IInv PROVE ChildrenAreOwned
  <2>1. Cardinality({t \in Tasks : HoldsSlot(t)}) <= Slots
    BY <1>1 DEF IInv, Capacity, Holders
  <2>2. ASSUME NEW t \in Tasks, Live(t), ~HoldsSlot(t)
        PROVE  child[t] = "killed" /\ outcome[t] = "stuck" /\ status[t] \in {0, 500, 503}
    <3>1. NotStarted(t) /\ Concluded(t) /\ GivenUp(t) /\ kind[t] \in Kinds
      BY <1>1 DEF IInv, TaskOK, TypeOK
    <3>2. phase[t] \in {"finished", "answered"}
      BY <1>1, <2>2, <3>1 DEF IInv, TypeOK, HoldsSlot, NotStarted, Live
    <3>3. child[t] = "killed" /\ outcome[t] = "stuck"
      BY <2>2, <3>1, <3>2 DEF GivenUp
    <3> QED
      BY <3>1, <3>3, Statuses DEF Concluded
  <2> QED
    BY <2>1, <2>2 DEF ChildrenAreOwned
<1> QED
  BY <1>1, InvHolds, PTL

\* Success is answered only for the complete message of the request's own child,
\* a timeout only after the deadline, and the client's fault only for what the
\* child reported.
THEOREM AnswersHonest == Spec => []AnswersAreHonest
<1>1. ASSUME IInv PROVE AnswersAreHonest
  <2> SUFFICES ASSUME NEW t \in Tasks
               PROVE  /\ status[t] = 200 => pipe[t] = "ok"
                      /\ status[t] = 504 => late[t]
                      /\ status[t] \in {400, 422} =>
                            pipe[t] \in {"invalid", "unknown-format", "refused"}
    BY DEF AnswersAreHonest
  <2>1. Concluded(t) /\ Received(t) /\ kind[t] \in Kinds
    BY <1>1 DEF IInv, TaskOK, TypeOK
  <2>2. status[t] # 0 => status[t] = Status(kind[t], outcome[t])
    BY <2>1 DEF Concluded
  <2> QED
    BY <2>1, <2>2, Statuses DEF Received, KnownToThread
<1> QED
  BY <1>1, InvHolds, PTL
=============================================================================
