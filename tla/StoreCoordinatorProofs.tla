----------------------- MODULE StoreCoordinatorProofs -----------------------
(***************************************************************************)
(* Proofs about StoreCoordinator, for every set of callers, keys and       *)
(* values: its types, that a lifespan drains what it accepted, and that it *)
(* implements OrderedStore.                                                *)
(*                                                                         *)
(* The refinement needs an invariant of three parts.  Callers: a task that *)
(* has not submitted has no operation, one that waits has one and has been *)
(* told nothing.  Stream: the line is empty when the buffer is, the buffer *)
(* is empty when the consumer waits or has ended, so that an operation     *)
(* handed over overtakes nobody, and everyone in the stream has an         *)
(* operation.  Consumer: it holds an operation exactly while it works, and *)
(* reads back only the sets of a FileStore.                                *)
(***************************************************************************)
EXTENDS StoreCoordinator, SequenceLemmas, SequenceTheorems, TLAPS

-----------------------------------------------------------------------------
(* The inductive invariant.                                                 *)

\* A task is idle, waits, or has been told.
CallersInv ==
    \A t \in Tasks :
        /\ task[t] = "idle" => operation[t] = NoOperation /\ told[t] = Pending
        /\ task[t] = "submitted" => operation[t] # NoOperation /\ told[t] = Pending

\* Nobody waits for room that there is, and only submitted operations are
\* in the stream.
StreamInv ==
    /\ buffer = <<>> => waiting = <<>>
    /\ consumer \in {"none", "wait", "ended"} => buffer = <<>>
    /\ buffer # <<>> => operation[Head(buffer)] # NoOperation
    /\ \A i \in 1..Len(waiting) : operation[waiting[i]] # NoOperation

\* What the consumer does, it does to the operation it holds.
ConsumerInv ==
    /\ consumer \in {"apply", "verify", "discard"} <=> current # NoCaller
    /\ current # NoCaller => operation[current] # NoOperation
    /\ consumer \in {"verify", "discard"} => fileStore /\ operation[current].kind = "set"

\* The lifespan: nothing before it, nothing after it.
LifespanInv ==
    /\ stream = "none" <=> consumer = "none"
    /\ stream = "none" => store = [k \in Keys |-> Absent]
    /\ stream = "left" => consumer = "ended"
    /\ consumer = "ended" => stream \in {"closed", "left"}

\* A task whose operation has not ended finds it in the stream, or in the
\* consumer's hands.
InLine(t) ==
    \/ current = t \/ buffer = <<t>>
    \/ \E i \in 1..Len(waiting) : waiting[i] = t

Awaited ==
    \A t \in Tasks : task[t] = "submitted" /\ completed[t] = Pending => InLine(t)

IInv ==
    /\ TypeOK /\ CallersInv /\ StreamInv /\ ConsumerInv /\ LifespanInv /\ Awaited

-----------------------------------------------------------------------------
(* What the leaves below use of the operations and of the consumer.         *)

TaskOperations == CallerOperations \cup {CleanupOperation}

\* The kinds of operation tell them apart, and tell which have a key.
LEMMA OperationKinds ==
  ASSUME NEW o \in TaskOperations \cup {NoOperation}
  PROVE  /\ o \in TaskOperations <=> o # NoOperation
         /\ o # NoOperation <=> o.kind \in {"get", "set", "delete", "cleanup"}
         /\ o.kind \in {"get", "set", "delete"} => o.key \in Keys
         /\ o.kind = "set" => o.value \in Values
BY DEF TaskOperations, CallerOperations, CleanupOperation, NoOperation

\* A completed operation is not pending.
LEMMA OutcomeTypes ==
  ASSUME NEW v \in Values \cup {Absent}
  PROVE  /\ Outcome("done", v) \in [status : {"pending", "failed", "done"},
                                    value : Values \cup {Absent}]
         /\ Failed \in [status : {"pending", "failed", "done"},
                        value : Values \cup {Absent}]
         /\ Outcome("done", v) # Pending /\ Failed # Pending
         /\ Outcome("done", v) # GaveUp /\ Failed # GaveUp
BY DEF Outcome, Failed, Pending, GaveUp

\* The consumer holds the operation of a task.
LEMMA HeldOperation ==
  ASSUME IInv, current # NoCaller
  PROVE  current \in Tasks /\ operation[current] \in TaskOperations
<1>1. current \in Tasks
  BY DEF IInv, TypeOK
<1>2. operation[current] \in TaskOperations \cup {NoOperation}
  BY <1>1 DEF IInv, TypeOK, TaskOperations
<1> QED
  BY <1>1, <1>2, OperationKinds DEF IInv, ConsumerInv

\* The operation in the consumer's hands is over.
Completes ==
    \/ \E v \in Values \cup {Absent} : Complete(Outcome("done", v))
    \/ Complete(Failed)

\* How the consumer gives up the operation it holds: an outcome is kept.
LEMMA Completion ==
  ASSUME IInv, current # NoCaller, Completes
  PROVE  /\ completed' \in [Tasks -> [status : {"pending", "failed", "done"},
                                      value : Values \cup {Absent}]]
         /\ completed'[current] # Pending
         /\ \A t \in Tasks : t # current => completed'[t] = completed[t]
         /\ current' = NoCaller /\ consumer' = "poll"
<1>1. PICK outcome \in [status : {"pending", "failed", "done"},
                        value : Values \cup {Absent}] :
        outcome # Pending /\ Complete(outcome)
  BY OutcomeTypes DEF Completes
<1>2. current \in Tasks
  BY HeldOperation
<1>3. completed \in [Tasks -> [status : {"pending", "failed", "done"},
                               value : Values \cup {Absent}]]
  BY DEF IInv, TypeOK
<1> QED
  BY <1>1, <1>2, <1>3 DEF Complete

\* Removing values from the store leaves a store.
LEMMA DiscardType ==
  ASSUME store \in [Keys -> Values \cup {Absent}], NEW K, Discard(K)
  PROVE  store' \in [Keys -> Values \cup {Absent}]
BY DEF Discard

\* The work of the consumer: what the store holds keeps its type, and the
\* operation goes on, in the consumer's hands, or is completed.
LEMMA Work ==
  ASSUME IInv, Apply \/ Verify \/ DiscardInvalid
  PROVE  /\ current # NoCaller
         /\ store' \in [Keys -> Values \cup {Absent}]
         /\ \/ Completes
            \/ /\ UNCHANGED <<current, completed>>
               /\ consumer' \in {"verify", "discard"}
               /\ fileStore /\ operation[current].kind = "set"
         /\ UNCHANGED <<fileStore, stream, stopping, streamVars, taskVars>>
<1> DEFINE o == operation[current]
<1>1. current # NoCaller
  BY DEF IInv, ConsumerInv, Apply, Verify, DiscardInvalid
<1>2. o \in TaskOperations
  BY <1>1, HeldOperation
<1>3. o.kind \in {"get", "set", "delete"} => o.key \in Keys
  BY <1>2, OperationKinds
<1>4. o.kind = "set" => o.value \in Values
  BY <1>2, OperationKinds
<1>5. store \in [Keys -> Values \cup {Absent}]
  BY DEF IInv, TypeOK
<1> DEFINE Worked == /\ store' \in [Keys -> Values \cup {Absent}]
                     /\ \/ Completes
                        \/ /\ UNCHANGED <<current, completed>>
                           /\ consumer' \in {"verify", "discard"}
                           /\ fileStore /\ o.kind = "set"
<1>6. ASSUME Apply PROVE Worked
  <2> HIDE DEF o
  <2>1. CASE ApplySimple(o)
    <3>1. CASE o.kind = "get" /\ UNCHANGED store /\ Complete(Outcome("done", store[o.key]))
      BY <1>3, <1>5, <3>1 DEF Completes
    <3>2. CASE o.kind = "delete" /\ Discard({o.key}) /\ Complete(Outcome("done", Absent))
      BY <1>5, <3>2, DiscardType DEF Completes
    <3>3. CASE /\ o.kind = "cleanup" /\ Complete(Outcome("done", Absent))
               /\ \E K \in SUBSET Keys : Discard(K)
      BY <1>5, <3>3, DiscardType DEF Completes
    <3> QED
      BY <2>1, <3>1, <3>2, <3>3 DEF ApplySimple
  <2>2. CASE ApplySet(o)
    <3>1. store' \in [Keys -> Values \cup {Absent}]
      BY <1>3, <1>4, <1>5, <2>2 DEF ApplySet, Put
    <3> QED
      BY <2>2, <3>1 DEF ApplySet, Completes
  <2>3. CASE ApplyFails(o)
    <3>1. Complete(Failed)
      BY <2>3 DEF ApplyFails
    <3>2. store' \in [Keys -> Values \cup {Absent}]
      <4>1. CASE \E K \in SUBSET Keys : Discard(K)
        BY <1>5, <4>1, DiscardType
      <4>2. CASE o.kind = "set" /\ Put(o.key, o.value)
        BY <1>3, <1>4, <1>5, <4>2 DEF Put
      <4> QED
        BY <2>3, <1>5, <4>1, <4>2 DEF ApplyFails
    <3> QED
      BY <3>1, <3>2 DEF Completes
  <2> QED
    BY <1>6, <2>1, <2>2, <2>3 DEF Apply, o
<1>7. ASSUME Verify PROVE Worked
  BY <1>5, <1>7 DEF Verify, IInv, ConsumerInv, Completes
<1>8. ASSUME DiscardInvalid PROVE Worked
  BY <1>5, <1>8, DiscardType DEF DiscardInvalid, Completes
<1>9. Worked
  BY <1>6, <1>7, <1>8
<1>10. UNCHANGED <<fileStore, stream, stopping, streamVars, taskVars>>
  BY DEF Apply, Verify, DiscardInvalid
<1> QED
  BY <1>1, <1>9, <1>10

-----------------------------------------------------------------------------
(* The invariant holds at first and every step keeps it.                    *)

\* The initial state: nobody has submitted, and there is no stream.
LEMMA IInvInit == Init => IInv
<1> SUFFICES ASSUME Init PROVE IInv
  OBVIOUS
<1>1. TypeOK
  <2>1. /\ Pending \in [status : {"pending", "failed", "done"},
                        value : Values \cup {Absent}]
        /\ Pending \in [status : {"pending", "failed", "done", "gave-up", "refused"},
                        value : Values \cup {Absent}]
    BY DEF Pending, Outcome
  <2>2. waiting \in Seq(Tasks)
    BY EmptySeq DEF Init
  <2> QED
    BY <2>1, <2>2 DEF Init, TypeOK
<1>2. CallersInv /\ LifespanInv /\ Awaited
  BY DEF Init, CallersInv, LifespanInv, Awaited
<1>3. StreamInv /\ ConsumerInv
  BY DEF Init, StreamInv, ConsumerInv
<1> QED
  BY <1>1, <1>2, <1>3 DEF IInv

\* The steps, by what they do: the consumer's work is one of them.
LEMMA Steps ==
  ASSUME [Next]_vars
  PROVE  \/ Enter \/ Exit \/ Left \/ Receive \/ ReceiveNothing \/ CleanerStops
         \/ Apply \/ Verify \/ DiscardInvalid
         \/ \E t \in Tasks, o \in TaskOperations : Submit(t, o)
         \/ \E t \in Tasks, o \in TaskOperations : SubmitFails(t, o)
         \/ \E t \in Tasks : SubmitReturns(t)
         \/ \E t \in Tasks : SubmitTimesOut(t)
         \/ \E k \in Keys : Expire(k)
         \/ UNCHANGED vars
BY DEF Next, Consume, Clean, Terminated, Tasks, TaskOperations

\* What a sender in line leaves behind.
LEMMA LeavesLine ==
  ASSUME IInv, NEW t \in Tasks, SubmitTimesOut(t)
  PROVE  /\ waiting' \in Seq(Tasks)
         /\ \A n \in 1..Len(waiting') :
               \E j \in 1..Len(waiting) : waiting'[n] = waiting[j]
         /\ \A j \in 1..Len(waiting) : waiting[j] # t =>
               \E n \in 1..Len(waiting') : waiting'[n] = waiting[j]
         /\ waiting = <<>> => waiting' = <<>>
<1>1. waiting \in Seq(Tasks)
  BY DEF IInv, TypeOK
<1>2. CASE waiting' = waiting
  BY <1>1, <1>2
<1>3. ASSUME NEW i \in 1..Len(waiting), waiting[i] = t, waiting' = RemoveAt(waiting, i)
      PROVE  /\ waiting' \in Seq(Tasks) /\ waiting # <<>>
             /\ \A n \in 1..Len(waiting') :
                   \E j \in 1..Len(waiting) : waiting'[n] = waiting[j]
             /\ \A j \in 1..Len(waiting) : waiting[j] # t =>
                   \E n \in 1..Len(waiting') : waiting'[n] = waiting[j]
  <2>1. waiting' \in Seq(Tasks)
    BY <1>1, <1>3, RemoveAtElements
  <2>2. waiting # <<>>
    BY <1>1, <1>3, EmptySeq
  <2>3. /\ \A j \in 1..Len(waiting) : j # i =>
              \E n \in 1..Len(waiting') : waiting'[n] = waiting[j]
        /\ \A n \in 1..Len(waiting') :
              \E j \in 1..Len(waiting) : waiting'[n] = waiting[j]
    BY <1>1, <1>3, RemoveAtMembers
  <2> QED
    BY <1>3, <2>1, <2>2, <2>3
<1> QED
  BY <1>2, <1>3 DEF SubmitTimesOut

\* Every step keeps the types.
LEMMA TypeStep == ASSUME IInv, [Next]_vars PROVE TypeOK'
<1> USE DEF IInv
<1>1. CASE Enter \/ Exit \/ Left
  <2>1. store' \in [Keys -> Values \cup {Absent}]
    BY <1>1, DiscardType DEF Enter, Exit, Left, TypeOK
  <2> QED
    BY <1>1, <2>1 DEF Enter, Exit, Left, TypeOK, streamVars, consumerVars, taskVars
<1>2. CASE Receive
  <2>1. PICK b \in Tasks : buffer = <<b>> /\ Head(buffer) = b
    BY <1>2 DEF Receive, TypeOK
  <2>2. CASE waiting = <<>>
    BY <1>2, <2>1, <2>2 DEF Receive, TypeOK, taskVars
  <2>3. CASE waiting # <<>>
    <3>1. Head(waiting) \in Tasks /\ Tail(waiting) \in Seq(Tasks)
      BY <2>3, HeadTailProperties DEF TypeOK
    <3> QED
      BY <1>2, <2>1, <2>3, <3>1 DEF Receive, TypeOK, taskVars
  <2> QED
    BY <2>2, <2>3
<1>3. CASE ReceiveNothing \/ CleanerStops
  BY <1>3
  DEF ReceiveNothing, CleanerStops, TypeOK, streamVars, consumerVars, taskVars, Tasks
<1>4. CASE Apply \/ Verify \/ DiscardInvalid
  <2>1. CASE Completes
    BY <1>4, <2>1, Work, Completion DEF TypeOK, streamVars, taskVars
  <2>2. CASE ~Completes
    BY <1>4, <2>2, Work DEF TypeOK, streamVars, taskVars
  <2> QED
    BY <2>1, <2>2
<1>5. ASSUME NEW t \in Tasks, NEW o \in TaskOperations, Submit(t, o) PROVE TypeOK'
  <2>1. /\ task' \in [Tasks -> {"idle", "submitted", "done"}]
        /\ operation' \in [Tasks -> CallerOperations \cup {CleanupOperation, NoOperation}]
    BY <1>5 DEF Submit, TypeOK, TaskOperations
  <2>2. Append(waiting, t) \in Seq(Tasks)
    BY AppendProperties DEF TypeOK
  <2>3. /\ buffer' \in {<<>>} \cup {<<u>> : u \in Tasks} /\ waiting' \in Seq(Tasks)
        /\ consumer' \in {"none", "poll", "wait", "apply", "verify", "discard", "ended"}
        /\ current' \in Tasks \cup {NoCaller}
    <3>1. Send(t)
      BY <1>5 DEF Submit
    <3> HIDE DEF IInv
    <3>2. TypeOK
      BY DEF IInv
    <3> QED
      BY <2>2, <3>1, <3>2 DEF Send, TypeOK, streamVars, consumerVars
  <2> QED
    BY <1>5, <2>1, <2>3 DEF Submit, TypeOK
<1>6. ASSUME NEW t \in Tasks, NEW o \in TaskOperations, SubmitFails(t, o) PROVE TypeOK'
  <2>1. /\ task' \in [Tasks -> {"idle", "submitted", "done"}]
        /\ operation' \in [Tasks -> CallerOperations \cup {CleanupOperation, NoOperation}]
        /\ told' \in [Tasks -> [status : {"pending", "failed", "done", "gave-up", "refused"},
                                value : Values \cup {Absent}]]
    BY <1>6 DEF SubmitFails, TypeOK, TaskOperations, GaveUp, Refused, Outcome
  <2> QED
    BY <1>6, <2>1 DEF SubmitFails, TypeOK, streamVars, consumerVars
<1>7. ASSUME NEW t \in Tasks, SubmitReturns(t) \/ SubmitTimesOut(t) PROVE TypeOK'
  <2>1. /\ task' \in [Tasks -> {"idle", "submitted", "done"}]
        /\ told' \in [Tasks -> [status : {"pending", "failed", "done", "gave-up", "refused"},
                                value : Values \cup {Absent}]]
    <3>1. /\ GaveUp \in [status : {"pending", "failed", "done", "gave-up", "refused"},
                         value : Values \cup {Absent}]
          /\ completed[t] \in
                [status : {"pending", "failed", "done", "gave-up", "refused"},
                 value : Values \cup {Absent}]
      BY DEF TypeOK, GaveUp, Outcome
    <3>2. \E answer \in {GaveUp, completed[t]} : told' = [told EXCEPT ![t] = answer]
      BY <1>7 DEF SubmitReturns, SubmitTimesOut
    <3>3. task' = [task EXCEPT ![t] = "done"]
      BY <1>7 DEF SubmitReturns, SubmitTimesOut
    <3> QED
      BY <3>1, <3>2, <3>3 DEF TypeOK
  <2>2. waiting' \in Seq(Tasks)
    BY <1>7, LeavesLine DEF SubmitReturns, TypeOK, streamVars
  <2> QED
    BY <1>7, <2>1, <2>2
    DEF SubmitReturns, SubmitTimesOut, TypeOK, streamVars, consumerVars
<1>8. ASSUME NEW k \in Keys, Expire(k) PROVE TypeOK'
  BY <1>8, DiscardType DEF Expire, TypeOK, streamVars, consumerVars, taskVars
<1>9. CASE UNCHANGED vars
  BY <1>9 DEF vars, TypeOK, streamVars, consumerVars, taskVars
<1> QED
  BY Steps, <1>1, <1>2, <1>3, <1>4, <1>5, <1>6, <1>7, <1>8, <1>9

\* Every step keeps what is known of the callers.
LEMMA CallersStep == ASSUME IInv, [Next]_vars PROVE CallersInv'
<1> USE DEF IInv
<1>1. ASSUME NEW t \in Tasks, NEW o \in TaskOperations, Submit(t, o) PROVE CallersInv'
  <2>1. o # NoOperation
    BY OperationKinds
  <2> QED
    BY <1>1, <2>1 DEF Submit, CallersInv, TypeOK
<1>2. ASSUME NEW t \in Tasks, NEW o \in TaskOperations, SubmitFails(t, o)
      PROVE  CallersInv'
  BY <1>2 DEF SubmitFails, CallersInv, TypeOK
<1>3. ASSUME NEW t \in Tasks, SubmitReturns(t) \/ SubmitTimesOut(t) PROVE CallersInv'
  BY <1>3 DEF SubmitReturns, SubmitTimesOut, CallersInv, TypeOK
<1>4. CASE CleanerStops
  BY <1>4 DEF CleanerStops, CallersInv, TypeOK, Tasks
<1>5. CASE UNCHANGED taskVars
  BY <1>5 DEF taskVars, CallersInv
<1> QED
  BY Steps, Work, <1>1, <1>2, <1>3, <1>4, <1>5
  DEF Enter, Exit, Left, Receive, ReceiveNothing, Expire, vars

\* Every step keeps the line behind the buffer, and operations in both.
LEMMA StreamStep == ASSUME IInv, [Next]_vars PROVE StreamInv'
<1> USE DEF IInv
<1>1. CASE Enter
  BY <1>1 DEF Enter, StreamInv, LifespanInv, streamVars, taskVars
<1>2. CASE Exit \/ Left \/ CleanerStops \/ \E k \in Keys : Expire(k)
  BY <1>2
  DEF Exit, Left, CleanerStops, Expire, StreamInv, streamVars, consumerVars, taskVars
<1>3. CASE Receive
  <2>1. CASE waiting = <<>>
    BY <1>3, <2>1 DEF Receive, StreamInv, taskVars
  <2>2. CASE waiting # <<>>
    <3>1. /\ Len(waiting) \in Nat /\ Len(waiting) # 0
          /\ Len(Tail(waiting)) = Len(waiting) - 1
          /\ \A i \in 1..Len(Tail(waiting)) : Tail(waiting)[i] = waiting[i + 1]
      BY <2>2, HeadTailProperties, EmptySeq, LenProperties DEF TypeOK
    <3>2. Head(waiting) = waiting[1]
      BY <2>2 DEF TypeOK
    <3>3. /\ operation[Head(waiting)] # NoOperation
          /\ \A i \in 1..Len(Tail(waiting)) : operation[Tail(waiting)[i]] # NoOperation
      BY <3>1, <3>2 DEF StreamInv
    <3>4. /\ consumer' = "apply" /\ UNCHANGED operation
          /\ buffer' = <<Head(waiting)>> /\ waiting' = Tail(waiting)
      BY <1>3, <2>2 DEF Receive, taskVars
    <3> QED
      BY <3>3, <3>4 DEF StreamInv
  <2> QED
    BY <2>1, <2>2
<1>4. CASE ReceiveNothing
  BY <1>4 DEF ReceiveNothing, StreamInv, streamVars, taskVars
<1>5. CASE Apply \/ Verify \/ DiscardInvalid
  <2>1. consumer' \in {"poll", "verify", "discard"}
    BY <1>5, Work, Completion
  <2> QED
    BY <1>5, <2>1, Work DEF StreamInv, streamVars, taskVars
<1>6. ASSUME NEW t \in Tasks, NEW o \in TaskOperations, Submit(t, o) PROVE StreamInv'
  <2>1. operation'[t] # NoOperation
    BY <1>6, OperationKinds DEF Submit, TypeOK
  <2>2. \A u \in Tasks : operation[u] # NoOperation => operation'[u] # NoOperation
    BY <1>6, <2>1 DEF Submit, TypeOK
  <2>3. waiting \in Seq(Tasks) /\ Len(waiting) \in Nat
    BY LenProperties DEF TypeOK
  <2>4. \A i \in 1..Len(waiting) : waiting[i] \in Tasks
    BY <2>3, ElementOfSeq
  <2>5. CASE consumer = "wait"
    BY <1>6, <2>2, <2>4, <2>5 DEF Submit, Send, StreamInv, streamVars
  <2>6. CASE consumer # "wait" /\ buffer = <<>>
    <3>1. buffer' = <<t>> /\ UNCHANGED <<waiting, consumer>> /\ stream = "open"
      BY <1>6, <2>6 DEF Submit, Send, consumerVars
    <3>2. consumer \notin {"none", "wait", "ended"}
      BY <2>6, <3>1 DEF LifespanInv
    <3> QED
      BY <2>1, <2>2, <2>4, <3>1, <3>2 DEF StreamInv
  <2>7. CASE consumer # "wait" /\ buffer # <<>>
    <3>1. waiting' = Append(waiting, t) /\ UNCHANGED <<buffer, consumer>>
      BY <1>6, <2>7 DEF Submit, Send, consumerVars
    <3>2. /\ Len(waiting') = Len(waiting) + 1
          /\ \A i \in 1..Len(waiting) : waiting'[i] = waiting[i]
          /\ waiting'[Len(waiting) + 1] = t
      BY <2>3, <3>1, AppendProperties
    <3>3. \A i \in 1..Len(waiting') : operation'[waiting'[i]] # NoOperation
      BY <2>1, <2>2, <2>3, <2>4, <3>2 DEF StreamInv
    <3>4. Head(buffer) \in Tasks
      BY <2>7 DEF TypeOK
    <3> QED
      BY <2>2, <2>7, <3>1, <3>3, <3>4 DEF StreamInv
  <2> QED
    BY <2>5, <2>6, <2>7
<1>7. ASSUME NEW t \in Tasks, NEW o \in TaskOperations, SubmitFails(t, o) PROVE StreamInv'
  <2>1. \A u \in Tasks : operation[u] # NoOperation => operation'[u] # NoOperation
    BY <1>7, OperationKinds DEF SubmitFails, TypeOK
  <2>2. \A i \in 1..Len(waiting) : waiting[i] \in Tasks
    BY ElementOfSeq DEF TypeOK
  <2>3. buffer # <<>> => Head(buffer) \in Tasks
    BY DEF TypeOK
  <2> QED
    BY <1>7, <2>1, <2>2, <2>3 DEF SubmitFails, StreamInv, streamVars, consumerVars
<1>8. ASSUME NEW t \in Tasks, SubmitReturns(t) PROVE StreamInv'
  BY <1>8 DEF SubmitReturns, StreamInv, streamVars, consumerVars
<1>9. ASSUME NEW t \in Tasks, SubmitTimesOut(t) PROVE StreamInv'
  <2>1. /\ \A n \in 1..Len(waiting') :
              \E j \in 1..Len(waiting) : waiting'[n] = waiting[j]
        /\ waiting = <<>> => waiting' = <<>>
    BY <1>9, LeavesLine
  <2>2. UNCHANGED <<buffer, consumer, operation>>
    BY <1>9 DEF SubmitTimesOut, consumerVars
  <2> QED
    BY <2>1, <2>2 DEF StreamInv
<1>10. CASE UNCHANGED vars
  BY <1>10 DEF vars, StreamInv, streamVars, consumerVars, taskVars
<1> QED
  BY Steps, <1>1, <1>2, <1>3, <1>4, <1>5, <1>6, <1>7, <1>8, <1>9, <1>10

\* Every step keeps the operation in the consumer's hands.
LEMMA ConsumerStep == ASSUME IInv, [Next]_vars PROVE ConsumerInv'
<1> USE DEF IInv
<1>1. CASE Enter
  BY <1>1 DEF Enter, ConsumerInv, LifespanInv, streamVars, taskVars
<1>2. CASE Exit \/ Left \/ CleanerStops \/ \E k \in Keys : Expire(k)
  BY <1>2
  DEF Exit, Left, CleanerStops, Expire, ConsumerInv, consumerVars, taskVars
<1>3. CASE Receive
  <2>1. Head(buffer) \in Tasks /\ Head(buffer) # NoCaller
    BY <1>3, CoordinatorAssumption DEF Receive, TypeOK, CoordinatorAssumption
  <2> QED
    BY <1>3, <2>1 DEF Receive, StreamInv, ConsumerInv, taskVars
<1>4. CASE ReceiveNothing
  BY <1>4 DEF ReceiveNothing, ConsumerInv, taskVars
<1>5. CASE Apply \/ Verify \/ DiscardInvalid
  <2>1. CASE Completes
    BY <1>5, <2>1, Work, Completion DEF ConsumerInv
  <2>2. CASE ~Completes
    BY <1>5, <2>2, Work DEF ConsumerInv, taskVars
  <2> QED
    BY <2>1, <2>2
<1>6. ASSUME NEW t \in Tasks, NEW o \in TaskOperations, Submit(t, o) PROVE ConsumerInv'
  <2>1. t # NoCaller
    BY CoordinatorAssumption DEF CoordinatorAssumption
  <2>2. o # NoOperation /\ operation' = [operation EXCEPT ![t] = o]
    BY <1>6, OperationKinds DEF Submit
  <2>3. CASE consumer = "wait"
    BY <1>6, <2>1, <2>2, <2>3 DEF Submit, Send, ConsumerInv, TypeOK
  <2>4. CASE consumer # "wait"
    <3>1. UNCHANGED <<consumer, current, fileStore>>
      BY <1>6, <2>4 DEF Submit, Send, consumerVars
    <3>2. CASE current = NoCaller
      BY <3>1, <3>2 DEF ConsumerInv
    <3>3. CASE current # NoCaller
      <4>1. current # t
        BY <1>6, <3>3 DEF Submit, CallersInv, ConsumerInv
      <4>2. operation'[current] = operation[current]
        BY <2>2, <3>3, <4>1, HeldOperation DEF TypeOK
      <4> QED
        BY <3>1, <4>2 DEF ConsumerInv
    <3> QED
      BY <3>2, <3>3
  <2> QED
    BY <2>3, <2>4
<1>7. ASSUME NEW t \in Tasks, NEW o \in TaskOperations, SubmitFails(t, o)
      PROVE  ConsumerInv'
  <2>1. UNCHANGED <<consumer, current, fileStore>>
    BY <1>7 DEF SubmitFails, consumerVars
  <2>2. CASE current = NoCaller
    BY <2>1, <2>2 DEF ConsumerInv
  <2>3. CASE current # NoCaller
    <3>1. current # t
      BY <1>7, <2>3 DEF SubmitFails, CallersInv, ConsumerInv
    <3>2. operation'[current] = operation[current]
      BY <1>7, <2>3, <3>1, HeldOperation DEF SubmitFails, TypeOK
    <3> QED
      BY <2>1, <3>2 DEF ConsumerInv
  <2> QED
    BY <2>2, <2>3
<1>8. ASSUME NEW t \in Tasks, SubmitReturns(t) \/ SubmitTimesOut(t) PROVE ConsumerInv'
  BY <1>8 DEF SubmitReturns, SubmitTimesOut, ConsumerInv, consumerVars
<1>9. CASE UNCHANGED vars
  BY <1>9 DEF vars, ConsumerInv, consumerVars, taskVars
<1> QED
  BY Steps, <1>1, <1>2, <1>3, <1>4, <1>5, <1>6, <1>7, <1>8, <1>9

\* Every step keeps what is known of the lifespan.
LEMMA LifespanStep == ASSUME IInv, [Next]_vars PROVE LifespanInv'
<1> USE DEF IInv
<1>1. CASE Enter \/ Exit \/ Left
  BY <1>1 DEF Enter, Exit, Left, LifespanInv, consumerVars
<1>2. CASE Receive \/ ReceiveNothing \/ CleanerStops
  BY <1>2 DEF Receive, ReceiveNothing, CleanerStops, LifespanInv, consumerVars
<1>3. CASE Apply \/ Verify \/ DiscardInvalid
  <2>1. consumer \in {"apply", "verify", "discard"}
    BY <1>3 DEF Apply, Verify, DiscardInvalid
  <2>2. consumer' \in {"poll", "verify", "discard"} /\ UNCHANGED stream
    BY <1>3, Work, Completion
  <2> QED
    BY <2>1, <2>2 DEF LifespanInv
<1>4. ASSUME NEW t \in Tasks, NEW o \in TaskOperations, Submit(t, o) PROVE LifespanInv'
  BY <1>4 DEF Submit, Send, LifespanInv, consumerVars
<1>5. ASSUME NEW t \in Tasks, NEW o \in TaskOperations, SubmitFails(t, o)
      PROVE  LifespanInv'
  BY <1>5 DEF SubmitFails, LifespanInv, consumerVars
<1>6. ASSUME NEW t \in Tasks, SubmitReturns(t) \/ SubmitTimesOut(t) PROVE LifespanInv'
  BY <1>6 DEF SubmitReturns, SubmitTimesOut, LifespanInv, consumerVars
<1>7. ASSUME NEW k \in Keys, Expire(k) PROVE LifespanInv'
  <2>1. stream # "none"
    BY <1>7 DEF Expire, LifespanInv
  <2> QED
    BY <1>7, <2>1 DEF Expire, LifespanInv, consumerVars
<1>8. CASE UNCHANGED vars
  BY <1>8 DEF vars, LifespanInv, consumerVars
<1> QED
  BY Steps, <1>1, <1>2, <1>3, <1>4, <1>5, <1>6, <1>7, <1>8

\* Every step keeps a place, in the stream or the consumer's hands, for each
\* operation that somebody waits for.
LEMMA AwaitedStep == ASSUME IInv, [Next]_vars PROVE Awaited'
<1> USE DEF IInv
<1>1. CASE Enter \/ Exit \/ Left \/ ReceiveNothing \/ \E k \in Keys : Expire(k)
  BY <1>1
  DEF Enter, Exit, Left, ReceiveNothing, Expire, Awaited, InLine, streamVars,
      consumerVars, taskVars
<1>2. CASE Receive
  <2>1. PICK b \in Tasks : buffer = <<b>> /\ Head(buffer) = b
    BY <1>2 DEF Receive, TypeOK
  <2>2. current = NoCaller
    BY <1>2 DEF Receive, ConsumerInv
  <2>3. ASSUME NEW u \in Tasks, InLine(u) PROVE InLine(u)'
    <3>1. CASE buffer = <<u>>
      BY <1>2, <2>1, <3>1 DEF Receive, InLine
    <3>2. ASSUME NEW i \in 1..Len(waiting), waiting[i] = u PROVE InLine(u)'
      <4>1. Len(waiting) \in Nat /\ waiting # <<>>
        BY <3>2, EmptySeq, LenProperties DEF TypeOK
      <4>2. /\ Len(Tail(waiting)) = Len(waiting) - 1
            /\ \A j \in 1..Len(Tail(waiting)) : Tail(waiting)[j] = waiting[j + 1]
            /\ Head(waiting) = waiting[1]
        BY <4>1, HeadTailProperties DEF TypeOK
      <4>3. buffer' = <<Head(waiting)>> /\ waiting' = Tail(waiting)
        BY <1>2, <4>1 DEF Receive
      <4>4. CASE i = 1
        BY <3>2, <4>2, <4>3, <4>4 DEF InLine
      <4>5. CASE i # 1
        <5>1. i - 1 \in 1..Len(waiting') /\ waiting'[i - 1] = u
          BY <3>2, <4>1, <4>2, <4>3, <4>5
        <5> QED
          BY <5>1 DEF InLine
      <4> QED
        BY <4>4, <4>5
    <3>3. current # u
      BY <2>2, CoordinatorAssumption DEF CoordinatorAssumption
    <3> QED
      BY <2>3, <3>1, <3>2, <3>3 DEF InLine
  <2> QED
    BY <1>2, <2>3 DEF Receive, Awaited, taskVars
<1>3. CASE Apply \/ Verify \/ DiscardInvalid
  <2>1. UNCHANGED <<buffer, waiting, task>>
    BY <1>3, Work DEF streamVars, taskVars
  <2>2. CASE Completes
    BY <1>3, <2>1, <2>2, Work, Completion DEF Awaited, InLine
  <2>3. CASE ~Completes
    BY <1>3, <2>1, <2>3, Work DEF Awaited, InLine
  <2> QED
    BY <2>2, <2>3
<1>4. ASSUME NEW t \in Tasks, NEW o \in TaskOperations, Submit(t, o) PROVE Awaited'
  <2>1. waiting \in Seq(Tasks) /\ Len(waiting) \in Nat
    BY LenProperties DEF TypeOK
  <2>2. /\ Len(Append(waiting, t)) = Len(waiting) + 1
        /\ \A i \in 1..Len(waiting) : Append(waiting, t)[i] = waiting[i]
        /\ Append(waiting, t)[Len(waiting) + 1] = t
    BY <2>1, AppendProperties
  <2>3. ASSUME NEW u \in Tasks, InLine(u) \/ u = t PROVE InLine(u)'
    <3>1. CASE consumer = "wait"
      <4>1. current = NoCaller /\ NoCaller # u
        BY <3>1, CoordinatorAssumption DEF ConsumerInv, CoordinatorAssumption
      <4> QED
        BY <1>4, <2>3, <3>1, <4>1 DEF Submit, Send, InLine, streamVars
    <3>2. CASE consumer # "wait" /\ buffer = <<>>
      BY <1>4, <2>3, <3>2 DEF Submit, Send, InLine, consumerVars
    <3>3. CASE consumer # "wait" /\ buffer # <<>>
      <4>1. waiting' = Append(waiting, t) /\ UNCHANGED <<buffer, current>>
        BY <1>4, <3>3 DEF Submit, Send, consumerVars
      <4>2. \A i \in 1..Len(waiting) : i \in 1..Len(waiting') /\ waiting'[i] = waiting[i]
        BY <2>1, <2>2, <4>1
      <4>3. Len(waiting) + 1 \in 1..Len(waiting') /\ waiting'[Len(waiting) + 1] = t
        BY <2>1, <2>2, <4>1
      <4> QED
        BY <2>3, <4>1, <4>2, <4>3 DEF InLine
    <3> QED
      BY <3>1, <3>2, <3>3
  <2> QED
    BY <1>4, <2>3 DEF Submit, Awaited, TypeOK
<1>5. ASSUME NEW t \in Tasks, NEW o \in TaskOperations, SubmitFails(t, o) PROVE Awaited'
  BY <1>5 DEF SubmitFails, Awaited, InLine, TypeOK, streamVars, consumerVars
<1>6. ASSUME NEW t \in Tasks, SubmitReturns(t) PROVE Awaited'
  BY <1>6 DEF SubmitReturns, Awaited, InLine, TypeOK, streamVars, consumerVars
<1>7. ASSUME NEW t \in Tasks, SubmitTimesOut(t) PROVE Awaited'
  <2>1. \A j \in 1..Len(waiting) : waiting[j] # t =>
            \E n \in 1..Len(waiting') : waiting'[n] = waiting[j]
    BY <1>7, LeavesLine
  <2>2. UNCHANGED <<buffer, current, completed>> /\ task' = [task EXCEPT ![t] = "done"]
    BY <1>7 DEF SubmitTimesOut, consumerVars
  <2>3. ASSUME NEW u \in Tasks, u # t, InLine(u) PROVE InLine(u)'
    BY <2>1, <2>2, <2>3 DEF InLine
  <2> QED
    BY <2>2, <2>3 DEF Awaited, TypeOK
<1>8. CASE CleanerStops
  BY <1>8
  DEF CleanerStops, Awaited, InLine, TypeOK, Tasks, streamVars, consumerVars
<1>9. CASE UNCHANGED vars
  BY <1>9 DEF vars, Awaited, InLine, streamVars, consumerVars, taskVars
<1> QED
  BY Steps, <1>1, <1>2, <1>3, <1>4, <1>5, <1>6, <1>7, <1>8, <1>9

\* The invariant.
LEMMA Invariant == Spec => []IInv
<1>1. Init => IInv
  BY IInvInit
<1>2. IInv /\ [Next]_vars => IInv'
  BY TypeStep, CallersStep, StreamStep, ConsumerStep, LifespanStep, AwaitedStep DEF IInv
<1> QED
  BY <1>1, <1>2, PTL DEF Spec

-----------------------------------------------------------------------------
(* The invariants.                                                          *)

\* Every variable keeps its type (storage.py: the stream, the consumer, the
\* operations and their events).
THEOREM StoreTypeCorrect == Spec => []TypeOK
<1>1. IInv => TypeOK
  BY DEF IInv
<1> QED
  BY <1>1, Invariant, PTL

\* lifespan() is left with nothing in the stream or in the consumer's hands,
\* and with no caller that waits for an operation nobody will apply.
THEOREM StoreDrains == Spec => []DrainedOnExit
<1>1. IInv => DrainedOnExit
  <2> SUFFICES ASSUME IInv, stream = "left" PROVE DrainedOnExit
    BY DEF DrainedOnExit
  <2>1. buffer = <<>> /\ waiting = <<>> /\ current = NoCaller
    BY DEF IInv, LifespanInv, StreamInv, ConsumerInv
  <2>2. \A t \in Tasks : ~InLine(t)
    BY <2>1, CoordinatorAssumption, EmptySeq DEF InLine, CoordinatorAssumption
  <2> QED
    BY <2>1, <2>2 DEF DrainedOnExit, IInv, Awaited, Tasks
<1> QED
  BY <1>1, Invariant, PTL

-----------------------------------------------------------------------------
(* The refinement of OrderedStore.                                          *)

\* The queue of the abstract service.
queue == buffer \o waiting

\* The buffer and the line are sequences of tasks.
LEMMA StreamTypes ==
  ASSUME TypeOK
  PROVE  buffer \in Seq(Tasks) /\ waiting \in Seq(Tasks)
<1>1. CASE buffer = <<>>
  BY <1>1, EmptySeq DEF TypeOK
<1>2. ASSUME NEW t \in Tasks, buffer = <<t>> PROVE buffer \in Seq(Tasks)
  <2>1. <<t>> \in Seq(Tasks)
    OBVIOUS
  <2> QED
    BY <1>2, <2>1
<1>3. buffer = <<>> \/ \E t \in Tasks : buffer = <<t>>
  BY DEF TypeOK
<1> QED
  BY <1>1, <1>2, <1>3 DEF TypeOK

\* The buffer is the head of the queue and the line is its tail.
LEMMA QueueShape ==
  ASSUME TypeOK, StreamInv
  PROVE  /\ queue \in Seq(Tasks)
         /\ buffer = <<>> => queue = <<>>
         /\ \A b \in Tasks : buffer = <<b>> =>
               queue # <<>> /\ Head(queue) = b /\ Tail(queue) = waiting
<1>1. buffer \in Seq(Tasks) /\ waiting \in Seq(Tasks)
  BY StreamTypes DEF TypeOK
<1>2. queue \in Seq(Tasks)
  BY <1>1, ConcatProperties DEF queue
<1>3. buffer = <<>> => queue = <<>>
  BY <1>1, EmptySeq, ConcatEmptySeq DEF queue, StreamInv
<1>4. ASSUME NEW b \in Tasks, buffer = <<b>>
      PROVE  queue # <<>> /\ Head(queue) = b /\ Tail(queue) = waiting
  <2>0. Len(waiting) \in Nat
    BY <1>1, LenProperties
  <2>1. /\ Len(queue) = 1 + Len(waiting)
        /\ \A i \in 1..(1 + Len(waiting)) :
              queue[i] = IF i <= 1 THEN <<b>>[i] ELSE waiting[i - 1]
    BY <1>1, <1>4, ConcatProperties DEF queue
  <2>2. queue # <<>> /\ Head(queue) = queue[1] /\ queue[1] = b
    BY <1>2, <2>0, <2>1, EmptySeq
  <2>3. /\ Tail(queue) \in Seq(Tasks)
        /\ Len(Tail(queue)) = Len(queue) - 1
        /\ \A i \in 1..Len(Tail(queue)) : Tail(queue)[i] = queue[i + 1]
    BY <1>2, <2>2, HeadTailProperties
  <2>4. Len(Tail(queue)) = Len(waiting)
    BY <2>0, <2>1, <2>3
  <2>5. \A i \in 1..Len(Tail(queue)) : Tail(queue)[i] = waiting[i]
    BY <2>0, <2>1, <2>3, <2>4
  <2>6. Tail(queue) = waiting
    BY <1>1, <2>3, <2>4, <2>5, SeqEqual
  <2> QED
    BY <2>2, <2>6
<1> QED
  BY <1>2, <1>3, <1>4

\* A submitted operation enters at the end of the queue, or is taken at once
\* by an idle consumer that nothing waits for.
LEMMA SendAccepts ==
  ASSUME IInv, IInv', NEW t \in Tasks, NEW o \in TaskOperations, Submit(t, o)
  PROVE  \/ queue' = Append(queue, t) /\ UNCHANGED current
         \/ queue = <<>> /\ current = NoCaller /\ current' = t /\ UNCHANGED queue
<1> USE DEF IInv
<1>1. buffer \in Seq(Tasks) /\ waiting \in Seq(Tasks)
  BY StreamTypes DEF TypeOK
<1>2. CASE consumer = "wait"
  <2>1. current = NoCaller /\ current' = t /\ queue = <<>>
    BY <1>2, QueueShape DEF Submit, Send, ConsumerInv, StreamInv
  <2>2. UNCHANGED queue
    BY <1>2 DEF Submit, Send, queue, streamVars
  <2> QED
    BY <2>1, <2>2
<1>3. CASE consumer # "wait" /\ buffer = <<>>
  <2>1. waiting = <<>> /\ queue = <<>>
    BY <1>3, QueueShape DEF StreamInv
  <2>2. buffer' = <<t>> /\ UNCHANGED <<waiting, current>>
    BY <1>3 DEF Submit, Send, consumerVars
  <2>3. queue' = <<t>> \o <<>>
    BY <2>1, <2>2 DEF queue
  <2>4. <<t>> \o <<>> = <<t>> /\ Append(<<>>, t) = <<t>>
    BY ConcatEmptySeq
  <2> QED
    BY <2>1, <2>2, <2>3, <2>4
<1>4. CASE consumer # "wait" /\ buffer # <<>>
  <2>1. waiting' = Append(waiting, t) /\ UNCHANGED <<buffer, current>>
    BY <1>4 DEF Submit, Send, consumerVars
  <2>2. Append(waiting, t) = waiting \o <<t>> /\ Append(queue, t) = queue \o <<t>>
    BY <1>1, QueueShape, AppendIsConcat
  <2>3. <<t>> \in Seq(Tasks)
    OBVIOUS
  <2>4. (buffer \o waiting) \o <<t>> = buffer \o (waiting \o <<t>>)
    BY <1>1, <2>3, ConcatAssociative
  <2> QED
    BY <2>1, <2>2, <2>4 DEF queue
<1> QED
  BY <1>2, <1>3, <1>4

\* The consumer takes the head of the queue.
LEMMA ReceiveBegins ==
  ASSUME IInv, IInv', Receive
  PROVE  /\ current = NoCaller /\ queue # <<>>
         /\ current' = Head(queue) /\ queue' = Tail(queue)
<1> USE DEF IInv
<1>1. PICK b \in Tasks : buffer = <<b>> /\ Head(buffer) = b
  BY DEF Receive, TypeOK
<1>2. queue # <<>> /\ Head(queue) = b /\ Tail(queue) = waiting
  BY <1>1, QueueShape
<1>3. current = NoCaller /\ current' = b
  BY <1>1 DEF Receive, ConsumerInv
<1>4. queue' = waiting
  <2>1. CASE waiting = <<>>
    <3>1. buffer' = <<>>
      BY <2>1 DEF Receive
    <3>2. waiting' = <<>>
      BY <2>1 DEF Receive
    <3>3. <<>> \o <<>> = <<>>
      BY EmptySeq, ConcatEmptySeq
    <3> QED
      BY <2>1, <3>1, <3>2, <3>3 DEF queue
  <2>2. CASE waiting # <<>>
    <3>1. buffer' = <<Head(waiting)>> /\ waiting' = Tail(waiting)
      BY <2>2 DEF Receive
    <3>2. Head(waiting) \in Tasks /\ waiting \in Seq(Tasks)
      BY <2>2, HeadTailProperties DEF TypeOK
    <3>3. <<Head(waiting)>> \o Tail(waiting) = waiting
      BY <2>2, <3>2, HeadAndTail
    <3> QED
      BY <3>1, <3>3 DEF queue
  <2> QED
    BY <2>1, <2>2
<1> QED
  BY <1>2, <1>3, <1>4

\* A caller that gives up leaves the queue, or leaves its operation there.
LEMMA LeavesQueue ==
  ASSUME IInv, NEW t \in Tasks, SubmitTimesOut(t)
  PROVE  \/ UNCHANGED queue
         \/ \E i \in 1..Len(queue) : queue[i] = t /\ queue' = RemoveAt(queue, i)
<1>1. UNCHANGED buffer
  BY DEF SubmitTimesOut
<1>2. CASE UNCHANGED waiting
  BY <1>1, <1>2 DEF queue
<1>3. ASSUME NEW i \in 1..Len(waiting), waiting[i] = t, waiting' = RemoveAt(waiting, i)
      PROVE  \E j \in 1..Len(queue) : queue[j] = t /\ queue' = RemoveAt(queue, j)
  <2>1. waiting \in Seq(Tasks) /\ waiting # <<>>
    BY <1>3, EmptySeq DEF IInv, TypeOK
  <2>2. PICK b \in Tasks : buffer = <<b>>
    BY <2>1 DEF IInv, TypeOK, StreamInv
  <2>3. /\ i + 1 \in 1..Len(<<b>> \o waiting)
        /\ (<<b>> \o waiting)[i + 1] = waiting[i]
        /\ <<b>> \o RemoveAt(waiting, i) = RemoveAt(<<b>> \o waiting, i + 1)
    BY <2>1, RemoveAtTail
  <2>4. queue = <<b>> \o waiting /\ queue' = <<b>> \o RemoveAt(waiting, i)
    BY <1>1, <1>3, <2>2 DEF queue
  <2> QED
    BY <1>3, <2>3, <2>4
<1> QED
  BY <1>2, <1>3 DEF SubmitTimesOut

\* The definitions of the abstract service that those here must agree with.
LEMMA SameDefinitions ==
  /\ TaskOperations \subseteq Service!Operations
  /\ Service!NoOperation = NoOperation
  /\ Service!Pending = Pending /\ Service!Failed = Failed
  /\ Service!GaveUp = GaveUp /\ Service!Refused = Refused
  /\ \A s, v : Service!Outcome(s, v) = Outcome(s, v)
  /\ \A s, i : Service!RemoveAt(s, i) = RemoveAt(s, i)
  /\ \A K : Service!Discard(K) <=> Discard(K)
  /\ \A k, v : Service!Put(k, v) <=> Put(k, v)
<1>1. CleanupOperation \in [kind : {"cleanup"}, key : {Absent}, value : {Absent}]
  BY DEF CleanupOperation
<1>2. TaskOperations \subseteq Service!Operations
  BY <1>1 DEF TaskOperations, CallerOperations, Service!Operations
<1> QED
  BY <1>2
  DEF Service!NoOperation, NoOperation, Service!Pending, Pending, Service!Failed,
      Failed, Service!GaveUp, GaveUp, Service!Refused, Refused, Service!Outcome,
      Outcome, Service!RemoveAt, RemoveAt, Service!Discard, Discard, Service!Put, Put

\* The initial state is one of the abstract service.
LEMMA AbstractInitially == Init => Service!AbstractInit
<1>1. <<>> \o <<>> = <<>>
  BY EmptySeq, ConcatEmptySeq
<1> QED
  BY <1>1, SameDefinitions DEF Init, Service!AbstractInit

\* The steps of the consumer are steps of the abstract service: an operation
\* has its effect and ends, or writes before it ends.
LEMMA WorkFinishes ==
  ASSUME IInv, Apply \/ Verify \/ DiscardInvalid
  PROVE  Service!Write \/ Service!Finish \/ UNCHANGED Service!abstractVars
<1> DEFINE o == operation[current]
<1>1. current # NoCaller /\ o \in TaskOperations
  BY Work, HeldOperation
<1>2. UNCHANGED <<queue, operation, told, fileStore>>
  BY Work DEF queue, streamVars, taskVars
<1>3. o.kind \in {"get", "set", "delete"} => o.key \in Keys
  BY <1>1, OperationKinds
<1>4. ASSUME Complete(Failed), Service!Fail(o) PROVE Service!Finish
  BY <1>1, <1>2, <1>4, SameDefinitions DEF Complete, Service!Finish, queue
<1>5. ASSUME NEW v \in Values \cup {Absent}, Complete(Outcome("done", v)),
             Service!Succeed(o, v)
      PROVE  Service!Finish
  BY <1>1, <1>2, <1>5, SameDefinitions DEF Complete, Service!Finish, queue
<1>6. ASSUME UNCHANGED <<store, current, completed>>
      PROVE  UNCHANGED Service!abstractVars
  BY <1>2, <1>6 DEF Service!abstractVars, queue
<1>7. store \in [Keys -> Values \cup {Absent}]
  BY DEF IInv, TypeOK
<1> HIDE DEF o
<1>8. CASE Apply /\ ApplySimple(o)
  <2>1. CASE o.kind = "get" /\ UNCHANGED store /\ Complete(Outcome("done", store[o.key]))
    <3>1. Service!Succeed(o, store[o.key]) /\ store[o.key] \in Values \cup {Absent}
      BY <1>3, <1>7, <2>1 DEF Service!Succeed
    <3> QED
      BY <1>5, <2>1, <3>1
  <2>2. CASE o.kind = "delete" /\ Discard({o.key}) /\ Complete(Outcome("done", Absent))
    <3>1. Service!Succeed(o, Absent)
      BY <2>2, SameDefinitions DEF Service!Succeed
    <3> QED
      BY <1>5, <2>2, <3>1
  <2>3. CASE /\ o.kind = "cleanup" /\ Complete(Outcome("done", Absent))
             /\ \E K \in SUBSET Keys : Discard(K)
    <3>1. Service!Succeed(o, Absent)
      BY <2>3, SameDefinitions DEF Service!Succeed
    <3> QED
      BY <1>5, <2>3, <3>1
  <2> QED
    BY <1>8, <2>1, <2>2, <2>3 DEF ApplySimple
<1>9. CASE Apply /\ ApplySet(o)
  <2>1. CASE fileStore /\ Put(o.key, o.value)
    <3>1. o.kind = "set" /\ UNCHANGED <<current, completed>>
      BY <1>9, <2>1 DEF ApplySet
    <3> QED
      BY <1>1, <1>2, <2>1, <3>1, SameDefinitions DEF Service!Write, o, queue
  <2>2. CASE fileStore /\ UNCHANGED store
    BY <1>6, <1>9, <2>2 DEF ApplySet
  <2>3. CASE ~fileStore
    <3>1. Service!Succeed(o, Absent)
      BY <1>9, <2>3, SameDefinitions DEF ApplySet, Service!Succeed
    <3> QED
      BY <1>5, <1>9, <2>3, <3>1 DEF ApplySet
  <2> QED
    BY <1>9, <2>1, <2>2, <2>3 DEF ApplySet
<1>10. CASE Apply /\ ApplyFails(o)
  <2>1. Service!Fail(o)
    BY <1>10, SameDefinitions DEF ApplyFails, Service!Fail
  <2> QED
    BY <1>4, <1>10, <2>1 DEF ApplyFails
<1>11. CASE Verify
  <2>1. fileStore /\ o.kind = "set" /\ UNCHANGED store
    BY <1>11 DEF Verify, IInv, ConsumerInv, o
  <2>2. CASE store[o.key] = o.value /\ Complete(Outcome("done", Absent))
    <3>1. Service!Succeed(o, Absent)
      BY <2>1, <2>2 DEF Service!Succeed
    <3> QED
      BY <1>5, <2>2, <3>1
  <2>3. CASE UNCHANGED <<current, completed>>
    BY <1>6, <2>1, <2>3
  <2> QED
    BY <1>11, <2>2, <2>3 DEF Verify, o
<1>12. CASE DiscardInvalid
  <2>1. o.kind = "set"
    BY <1>12 DEF DiscardInvalid, IInv, ConsumerInv, o
  <2>2. Discard({o.key}) \/ UNCHANGED store
    BY <1>12 DEF DiscardInvalid, o
  <2>3. Service!Fail(o)
    BY <2>1, <2>2, SameDefinitions DEF Service!Fail
  <2> QED
    BY <1>4, <1>12, <2>3 DEF DiscardInvalid
<1> QED
  BY <1>8, <1>9, <1>10, <1>11, <1>12 DEF Apply, o

\* Every step is a step of the abstract service, or changes nothing there.
LEMMA AbstractStep ==
  ASSUME IInv, IInv', [Next]_vars
  PROVE  [Service!AbstractNext]_(Service!abstractVars)
<1>0. /\ TypeOK /\ CallersInv /\ ConsumerInv /\ LifespanInv
      /\ TaskOperations \subseteq Service!Operations
  BY SameDefinitions DEF IInv
<1>1. CASE Enter
  <2>1. store = [k \in Keys |-> Absent] /\ UNCHANGED store
    BY <1>0, <1>1 DEF Enter, Discard, LifespanInv
  <2> QED
    BY <1>1, <2>1 DEF Enter, Service!abstractVars, streamVars, taskVars
<1>2. CASE Exit \/ Left \/ CleanerStops
  BY <1>2
  DEF Exit, Left, CleanerStops, Service!abstractVars, streamVars, consumerVars, taskVars
<1>3. CASE Receive
  <2>1. Service!Begin
    BY <1>3, ReceiveBegins DEF Receive, Service!Begin, taskVars, queue
  <2> QED
    BY <1>3, <2>1 DEF Receive, Service!AbstractNext
<1>4. CASE ReceiveNothing
  BY <1>4 DEF ReceiveNothing, Service!abstractVars, streamVars, taskVars
<1>5. CASE Apply \/ Verify \/ DiscardInvalid
  <2>1. UNCHANGED fileStore
    BY <1>5, Work
  <2> QED
    BY <1>5, <2>1, WorkFinishes DEF Service!AbstractNext
<1>6. ASSUME NEW t \in Tasks, NEW o \in TaskOperations, Submit(t, o)
      PROVE  Service!AbstractNext
  <2>1. operation[t] = NoOperation
    BY <1>0, <1>6 DEF Submit, CallersInv
  <2>2. Service!Accept(t, o)
    BY <1>6, <2>1, SendAccepts, SameDefinitions DEF Submit, Service!Accept, queue
  <2> QED
    BY <1>0, <1>6, <2>2 DEF Submit, Service!AbstractNext
<1>7. ASSUME NEW t \in Tasks, NEW o \in TaskOperations, SubmitFails(t, o)
      PROVE  Service!AbstractNext
  <2>1. operation[t] = NoOperation
    BY <1>0, <1>7 DEF SubmitFails, CallersInv
  <2>2. Service!Refuse(t, o)
    BY <1>7, <2>1, SameDefinitions
    DEF SubmitFails, Service!Refuse, streamVars, consumerVars
  <2> QED
    BY <1>0, <1>7, <2>2 DEF SubmitFails, Service!AbstractNext
<1>8. ASSUME NEW t \in Tasks, SubmitReturns(t) PROVE Service!AbstractNext
  <2>1. told[t] = Pending
    BY <1>0, <1>8 DEF SubmitReturns, CallersInv
  <2>2. Service!Tell(t)
    BY <1>8, <2>1, SameDefinitions
    DEF SubmitReturns, Service!Tell, streamVars, consumerVars
  <2> QED
    BY <1>8, <2>2 DEF SubmitReturns, Service!AbstractNext
<1>9. ASSUME NEW t \in Tasks, SubmitTimesOut(t) PROVE Service!AbstractNext
  <2>1. operation[t] # NoOperation /\ told[t] = Pending
    BY <1>0, <1>9 DEF SubmitTimesOut, CallersInv
  <2>2. \/ UNCHANGED queue
        \/ \E i \in 1..Len(queue) : queue[i] = t /\ queue' = RemoveAt(queue, i)
    BY <1>9, LeavesQueue
  <2>3. Service!GiveUp(t)
    <3>1. \/ UNCHANGED queue
          \/ \E i \in 1..Len(queue) :
                queue[i] = t /\ queue' = Service!RemoveAt(queue, i)
      BY <2>2, SameDefinitions
    <3>2. /\ told' = [told EXCEPT ![t] = GaveUp]
          /\ UNCHANGED <<store, current, operation, completed>>
      BY <1>9 DEF SubmitTimesOut, consumerVars
    <3> QED
      BY <2>1, <3>1, <3>2, SameDefinitions DEF Service!GiveUp, queue
  <2> QED
    BY <1>9, <2>3 DEF SubmitTimesOut, Service!AbstractNext
<1>10. ASSUME NEW k \in Keys, Expire(k) PROVE Service!AbstractNext
  <2>1. Service!Expire(k)
    BY <1>10, SameDefinitions
    DEF Expire, Service!Expire, streamVars, consumerVars, taskVars
  <2> QED
    BY <1>10, <2>1 DEF Expire, Service!AbstractNext
<1>11. CASE UNCHANGED vars
  BY <1>11 DEF vars, Service!abstractVars, streamVars, consumerVars, taskVars
<1> QED
  BY Steps, <1>1, <1>2, <1>3, <1>4, <1>5, <1>6, <1>7, <1>8, <1>9, <1>10, <1>11

\* StoreOperationCoordinator implements one ordered store: operations take
\* effect one at a time, in the order of their submission, whoever times out,
\* and callers are told what their operations did.
THEOREM StoreServesInOrder == Spec => ServesInOrder
<1>1. Init => Service!AbstractInit
  BY AbstractInitially
<1>2. IInv /\ IInv' /\ [Next]_vars => [Service!AbstractNext]_(Service!abstractVars)
  BY AbstractStep
<1> QED
  BY <1>1, <1>2, Invariant, PTL DEF Spec, ServesInOrder, Service!AbstractSpec
=============================================================================
