-------------------------- MODULE StoreCoordinator --------------------------
(***************************************************************************)
(* StoreOperationCoordinator of conda_presto/storage.py: tasks of the      *)
(* event loop submit operations, with a deadline each, to a memory object  *)
(* stream that holds one of them; one shielded consumer applies them to a  *)
(* Litestar store.                                                         *)
(*                                                                         *)
(* Tasks interleave only where they await, so a step is what one task does *)
(* between two awaits.  The stream is anyio's (external): a sender finds   *)
(* the consumer waiting and hands the operation over, or finds room in the *)
(* buffer, or waits in line; a waiting sender that is cancelled leaves the *)
(* line with its operation.                                                *)
(***************************************************************************)
EXTENDS Naturals, Sequences, SequencesExt

CONSTANTS
    Callers,    \* tasks that submit one operation each
    Cleaner,    \* the task of cleanup_expired
    Keys,
    Values,
    Absent,     \* no value under a key
    NoCaller

Tasks == Callers \cup {Cleaner}

ASSUME CoordinatorAssumption ==
    /\ Absent \notin Values /\ NoCaller \notin Tasks /\ Cleaner \notin Callers

CallerOperations ==
    [kind : {"get", "delete"}, key : Keys, value : {Absent}]
    \cup [kind : {"set"}, key : Keys, value : Values]

CleanupOperation == [kind |-> "cleanup", key |-> Absent, value |-> Absent]
NoOperation      == [kind |-> "none", key |-> Absent, value |-> Absent]

Outcome(status, value) == [status |-> status, value |-> value]

Pending == Outcome("pending", Absent)   \* not completed; not told
Failed  == Outcome("failed", Absent)    \* operation.error; re-raised
GaveUp  == Outcome("gave-up", Absent)   \* submit returns False
Refused == Outcome("refused", Absent)   \* no stream, or a closed one

VARIABLES
    fileStore,  \* whether the store is a Litestar FileStore; never changes
    stream,     \* send_stream: "none", "open", "closed", and "none" again
                \* once the lifespan is "left"
    stopping,   \* stop_cleanup is set
    buffer,     \* the operation in the stream's buffer, by its task
    waiting,    \* tasks that wait in send(), in order
    consumer,   \* where run() is
    current,    \* the task whose operation the consumer holds, or NoCaller
    task,       \* where each submitting task is
    operation,  \* the StoreOperation of each task
    completed,  \* how each operation ended, once its event is set
    told,       \* what submit() returned or raised in each task
    store       \* what the store holds under each key

streamVars   == <<buffer, waiting>>
consumerVars == <<consumer, current>>
taskVars     == <<task, operation, told>>
vars == <<fileStore, stream, stopping, streamVars, consumerVars, taskVars, completed,
          store>>

Init ==
    /\ fileStore \in BOOLEAN
    /\ stream = "none" /\ stopping = FALSE
    /\ buffer = <<>> /\ waiting = <<>>
    /\ consumer = "none" /\ current = NoCaller
    /\ task = [t \in Tasks |-> "idle"]
    /\ operation = [t \in Tasks |-> NoOperation]
    /\ completed = [t \in Tasks |-> Pending]
    /\ told = [t \in Tasks |-> Pending]
    /\ store = [k \in Keys |-> Absent]

Put(k, v)  == store' = [store EXCEPT ![k] = v]
Discard(K) == store' = [k \in Keys |-> IF k \in K THEN Absent ELSE store[k]]

-----------------------------------------------------------------------------
(* lifespan()                                                               *)

\* Lines 53-72: a FileStore first drops its expired entries, or all of them
\* when one is corrupt, or fails to.
Enter ==
    /\ stream = "none"
    /\ IF fileStore THEN \E K \in SUBSET Keys : Discard(K) ELSE UNCHANGED store
    /\ stream' = "open" /\ consumer' = "poll"
    /\ UNCHANGED <<fileStore, stopping, streamVars, current, taskVars, completed>>

\* Lines 73-76: the body of the lifespan is over.
Exit ==
    /\ stream = "open"
    /\ stopping' = TRUE /\ stream' = "closed"
    /\ UNCHANGED <<fileStore, streamVars, consumerVars, taskVars, completed, store>>

\* Lines 67 and 77-78: the task group has waited for its tasks.
Left ==
    /\ stream = "closed" /\ consumer = "ended"
    /\ fileStore => task[Cleaner] = "done"
    /\ stream' = "left"
    /\ UNCHANGED <<fileStore, stopping, streamVars, consumerVars, taskVars, completed,
                   store>>

-----------------------------------------------------------------------------
(* submit(), called by get, set, delete and the hourly cleanup_expired.     *)

\* The send of line 189: anyio hands the item to a waiting receiver, buffers
\* it, or lets the sender wait in line.
Send(t) ==
    \/ /\ consumer = "wait"
       /\ current' = t /\ consumer' = "apply"
       /\ UNCHANGED streamVars
    \/ /\ consumer # "wait" /\ buffer = <<>>
       /\ buffer' = <<t>>
       /\ UNCHANGED <<waiting, consumerVars>>
    \/ /\ consumer # "wait" /\ buffer # <<>>
       /\ waiting' = Append(waiting, t)
       /\ UNCHANGED <<buffer, consumerVars>>

Submit(t, o) ==
    /\ task[t] = "idle" /\ stream = "open"
    /\ task' = [task EXCEPT ![t] = "submitted"]
    /\ operation' = [operation EXCEPT ![t] = o]
    /\ Send(t)
    /\ UNCHANGED <<fileStore, stream, stopping, told, completed, store>>

\* Lines 186-187, the send on a closed stream, and a deadline already passed.
SubmitFails(t, o) ==
    /\ task[t] = "idle"
    /\ task' = [task EXCEPT ![t] = "done"]
    /\ operation' = [operation EXCEPT ![t] = o]
    /\ \E answer \in IF stream = "open" THEN {GaveUp} ELSE {Refused} :
          told' = [told EXCEPT ![t] = answer]
    /\ UNCHANGED <<fileStore, stream, stopping, streamVars, consumerVars, completed, store>>

\* Lines 190 and 193-195.
SubmitReturns(t) ==
    /\ task[t] = "submitted" /\ completed[t] # Pending
    /\ task' = [task EXCEPT ![t] = "done"]
    /\ told' = [told EXCEPT ![t] = completed[t]]
    /\ UNCHANGED <<fileStore, stream, stopping, streamVars, consumerVars, operation,
                   completed, store>>

\* Lines 188 and 191-192: the deadline passes, perhaps just after the event
\* was set, or the caller is cancelled.  A sender in line leaves it.
SubmitTimesOut(t) ==
    /\ task[t] = "submitted"
    /\ task' = [task EXCEPT ![t] = "done"]
    /\ told' = [told EXCEPT ![t] = GaveUp]
    /\ \/ ~Contains(waiting, t) /\ UNCHANGED waiting
       \/ \E i \in 1..Len(waiting) : waiting[i] = t /\ waiting' = RemoveAt(waiting, i)
    /\ UNCHANGED <<fileStore, stream, stopping, buffer, consumerVars, operation, completed,
                   store>>

\* Lines 136-145: an hour passes, or the lifespan ends first.
Clean ==
    /\ fileStore /\ stream = "open" /\ ~stopping
    /\ Submit(Cleaner, CleanupOperation) \/ SubmitFails(Cleaner, CleanupOperation)

CleanerStops ==
    /\ fileStore /\ stopping /\ task[Cleaner] = "idle"
    /\ task' = [task EXCEPT ![Cleaner] = "done"]
    /\ UNCHANGED <<fileStore, stream, stopping, streamVars, consumerVars, operation, told,
                   completed, store>>

-----------------------------------------------------------------------------
(* run(), the consumer.                                                     *)

\* Mutant: the sender that came last enters the buffer.
ReceiveLast ==
    /\ consumer = "poll" /\ buffer # <<>>
    /\ current' = Head(buffer) /\ consumer' = "apply"
    /\ IF waiting = <<>>
       THEN buffer' = <<>> /\ UNCHANGED waiting
       ELSE buffer' = <<Last(waiting)>> /\ waiting' = Front(waiting)
    /\ UNCHANGED <<fileStore, stream, stopping, taskVars, completed, store>>

\* Line 87: the next operation, in the order of the stream, which a waiting
\* sender enters as the buffer gives up its item.
Receive ==
    /\ consumer = "poll" /\ buffer # <<>>
    /\ current' = Head(buffer) /\ consumer' = "apply"
    /\ IF waiting = <<>>
       THEN buffer' = <<>> /\ UNCHANGED waiting
       ELSE buffer' = <<Head(waiting)>> /\ waiting' = Tail(waiting)
    /\ UNCHANGED <<fileStore, stream, stopping, taskVars, completed, store>>

\* Mutant: the end of the stream is seen before what it still holds.
ReceiveNothingMore ==
    /\ consumer \in {"poll", "wait"}
    /\ \/ consumer = "poll" /\ buffer = <<>> /\ stream = "open" /\ consumer' = "wait"
       \/ stream = "closed" /\ consumer' = "ended"
    /\ UNCHANGED <<fileStore, stream, stopping, streamVars, current, taskVars, completed,
                   store>>

\* An empty stream: wait for a sender, or end once it is closed.
ReceiveNothing ==
    /\ consumer \in {"poll", "wait"} /\ buffer = <<>>
    /\ \/ consumer = "poll" /\ stream = "open" /\ consumer' = "wait"
       \/ stream = "closed" /\ consumer' = "ended"
    /\ UNCHANGED <<fileStore, stream, stopping, streamVars, current, taskVars, completed,
                   store>>

\* Mutant: the value is kept without how the operation ended.
CompleteBare(outcome) ==
    /\ completed' = [completed EXCEPT ![current] = outcome.value]
    /\ current' = NoCaller /\ consumer' = "poll"

\* Lines 119-122: the result or the error is kept, the event set.
Complete(outcome) ==
    /\ completed' = [completed EXCEPT ![current] = outcome]
    /\ current' = NoCaller /\ consumer' = "poll"

\* Lines 90-94 and 124-132: the operations with one effect.
ApplySimple(o) ==
    \/ o.kind = "get" /\ UNCHANGED store
       /\ Complete(Outcome("done", store[o.key])) 
    \/ o.kind = "delete" /\ Discard({o.key}) /\ Complete(Outcome("done", Absent))
    \/ o.kind = "cleanup" /\ Complete(Outcome("done", Absent))
       /\ \E K \in SUBSET Keys : Discard(K)

\* Lines 96-103: a set of another store is over when it returns; one of a
\* FileStore may not have written, without an error, and is read back.
ApplySet(o) ==
    /\ o.kind = "set"
    /\ IF fileStore
       THEN /\ consumer' = "verify"
            /\ Put(o.key, o.value) \/ UNCHANGED store
            /\ UNCHANGED <<current, completed>>
       ELSE /\ Put(o.key, o.value)
            /\ Complete(Outcome("done", Absent))

\* Mutant: an operation that raises does not set its event.
ApplyFailsSilently(o) ==
    /\ current' = NoCaller /\ consumer' = "poll"
    /\ UNCHANGED <<store, completed>>

\* Mutant: what the store raises is not kept for the caller.
ApplyFailsUnnoticed(o) ==
    UNCHANGED store /\ Complete(Outcome("done", Absent))

\* The store raises, with or without the effect of the call.
ApplyFails(o) ==
    /\ \/ UNCHANGED store
       \/ o.kind \in {"delete", "cleanup"} /\ \E K \in SUBSET Keys :
             /\ o.kind = "delete" => K = {o.key}
             /\ Discard(K)
       \/ o.kind = "set" /\ ~fileStore /\ Put(o.key, o.value)
    /\ Complete(Failed)

Apply ==
    /\ consumer = "apply"
    /\ LET o == operation[current]
       IN  ApplySimple(o) \/ ApplySet(o) \/ ApplyFails(o)
    /\ UNCHANGED <<fileStore, stream, stopping, streamVars, taskVars>>

\* Mutant: a set of a FileStore is trusted once it returned.
VerifyNothing ==
    /\ consumer = "verify"
    /\ Complete(Outcome("done", Absent))
    /\ UNCHANGED <<fileStore, stream, stopping, streamVars, taskVars, store>>

\* Lines 104-111: the value read back, or another one or an error.
Verify ==
    /\ consumer = "verify"
    /\ LET o == operation[current]
       IN  \/ store[o.key] = o.value /\ Complete(Outcome("done", Absent))
           \/ consumer' = "discard" /\ UNCHANGED <<current, completed>>
    /\ UNCHANGED <<fileStore, stream, stopping, streamVars, taskVars, store>>

\* Lines 112-118: the entry is deleted, if it can be, and the set fails.
DiscardInvalid ==
    /\ consumer = "discard"
    /\ Discard({operation[current].key}) \/ UNCHANGED store
    /\ Complete(Failed)
    /\ UNCHANGED <<fileStore, stream, stopping, streamVars, taskVars>>

Consume == Receive \/ ReceiveNothing \/ Apply \/ Verify \/ DiscardInvalid

-----------------------------------------------------------------------------
\* An entry of the store expires.
Expire(k) ==
    /\ store[k] # Absent
    /\ Discard({k})
    /\ UNCHANGED <<fileStore, stream, stopping, streamVars, consumerVars, taskVars,
                   completed>>

Terminated ==
    /\ stream = "left" /\ \A t \in Callers : task[t] = "done"
    /\ UNCHANGED vars

Next ==
    \/ Enter \/ Exit \/ Left \/ Consume \/ Clean \/ CleanerStops
    \/ \E t \in Callers, o \in CallerOperations : Submit(t, o) \/ SubmitFails(t, o)
    \/ \E t \in Tasks : SubmitReturns(t) \/ SubmitTimesOut(t)
    \/ \E k \in Keys : Expire(k)
    \/ Terminated

Spec == Init /\ [][Next]_vars

\* The event loop runs every task that is ready, and the store answers.
Fairness ==
    /\ WF_vars(Consume) /\ WF_vars(Left) /\ WF_vars(CleanerStops)
    /\ \A t \in Tasks : WF_vars(SubmitReturns(t))

FairSpec == Spec /\ Fairness

-----------------------------------------------------------------------------
(* Properties.                                                              *)

TypeOK ==
    /\ fileStore \in BOOLEAN
    /\ stream \in {"none", "open", "closed", "left"} /\ stopping \in BOOLEAN
    /\ buffer \in {<<>>} \cup {<<t>> : t \in Tasks} /\ waiting \in Seq(Tasks)
    /\ consumer \in {"none", "poll", "wait", "apply", "verify", "discard", "ended"}
    /\ current \in Tasks \cup {NoCaller}
    /\ task \in [Tasks -> {"idle", "submitted", "done"}]
    /\ operation \in [Tasks -> CallerOperations \cup {CleanupOperation, NoOperation}]
    /\ completed \in [Tasks -> [status : {"pending", "failed", "done"},
                                value : Values \cup {Absent}]]
    /\ told \in [Tasks -> [status : {"pending", "failed", "done", "gave-up", "refused"},
                           value : Values \cup {Absent}]]
    /\ store \in [Keys -> Values \cup {Absent}]

\* The lifespan is left with nothing in the stream or in the consumer's
\* hands: no caller waits for an operation that nobody will apply.
DrainedOnExit ==
    stream = "left" =>
        /\ buffer = <<>> /\ waiting = <<>> /\ current = NoCaller
        /\ \A t \in Callers : task[t] = "submitted" => completed[t] # Pending

\* Operations take effect one at a time, in the order in which they were
\* submitted, also when their callers time out, are cancelled or wait in line
\* while the lifespan ends, and callers are told what their operations did.
Service == INSTANCE OrderedStore WITH
    Callers <- Tasks, verified <- fileStore, content <- store,
    queue <- buffer \o waiting, op <- operation, result <- completed

ServesInOrder == Service!AbstractSpec

\* Every operation in the stream's buffer takes effect or fails, also when its
\* caller gave up and when the lifespan is over.
BufferedIsApplied ==
    \A t \in Tasks : buffer = <<t>> ~> completed[t] # Pending

\* A caller whose operation was accepted is released without its deadline.
CallersReturn == \A t \in Tasks : task[t] = "submitted" ~> task[t] = "done"
=============================================================================
