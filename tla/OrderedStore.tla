---------------------------- MODULE OrderedStore ----------------------------
(***************************************************************************)
(* What StoreOperationCoordinator (conda_presto/storage.py) promises to    *)
(* the result cache: one store on which operations take effect one after   *)
(* the other, in the order in which they were accepted, whether or not     *)
(* their callers still wait.  A caller that is told that its operation     *)
(* completed is told what that operation did.  A caller that gave up knows *)
(* nothing: its operation may have left the queue, or takes effect later,  *)
(* in its turn.                                                            *)
(*                                                                         *)
(* The queue is one sequence here.  StoreCoordinator implements it with a  *)
(* one-place stream, its waiting senders and a consumer task.              *)
(***************************************************************************)
EXTENDS Naturals, Sequences, SequencesExt

CONSTANTS
    Callers,   \* tasks that submit one operation each
    Keys,
    Values,
    Absent,    \* no value under a key
    NoCaller

Operations ==
    [kind : {"get", "delete"}, key : Keys, value : {Absent}]
    \cup [kind : {"set"}, key : Keys, value : Values]
    \cup [kind : {"cleanup"}, key : {Absent}, value : {Absent}]

NoOperation == [kind |-> "none", key |-> Absent, value |-> Absent]

Outcome(status, value) == [status |-> status, value |-> value]

Pending == Outcome("pending", Absent)
Failed  == Outcome("failed", Absent)
GaveUp  == Outcome("gave-up", Absent)
Refused == Outcome("refused", Absent)

VARIABLES
    verified, \* whether a set is read back before it is reported
    content,  \* what the store holds under each key
    queue,    \* callers of the accepted operations, in order of acceptance
    current,  \* the caller whose operation is under way, or NoCaller
    op,       \* the operation of each caller
    result,   \* how the operation of each caller ended
    told      \* what each caller was told

abstractVars == <<verified, content, queue, current, op, result, told>>

AbstractInit ==
    /\ verified \in BOOLEAN
    /\ content \in [Keys -> Values \cup {Absent}]
    /\ queue = <<>> /\ current = NoCaller
    /\ op = [c \in Callers |-> NoOperation]
    /\ result = [c \in Callers |-> Pending]
    /\ told = [c \in Callers |-> Pending]

\* An operation is accepted at the end of the queue, or begun at once when
\* nothing is ahead of it.
Accept(c, o) ==
    /\ op[c] = NoOperation
    /\ op' = [op EXCEPT ![c] = o]
    /\ \/ queue' = Append(queue, c) /\ UNCHANGED current
       \/ queue = <<>> /\ current = NoCaller /\ current' = c /\ UNCHANGED queue
    /\ UNCHANGED <<content, result, told>>

\* An operation is refused: the service is not running, or its caller has no
\* time left.
Refuse(c, o) ==
    /\ op[c] = NoOperation
    /\ op' = [op EXCEPT ![c] = o]
    /\ \E answer \in {Refused, GaveUp} : told' = [told EXCEPT ![c] = answer]
    /\ UNCHANGED <<content, queue, current, result>>

\* A caller stops waiting: its operation leaves the queue, or keeps its turn.
GiveUp(c) ==
    /\ op[c] # NoOperation /\ told[c] = Pending
    /\ told' = [told EXCEPT ![c] = GaveUp]
    /\ \/ UNCHANGED queue
       \/ \E i \in 1..Len(queue) : queue[i] = c /\ queue' = RemoveAt(queue, i)
    /\ UNCHANGED <<content, current, op, result>>

Begin ==
    /\ current = NoCaller /\ queue # <<>>
    /\ current' = Head(queue) /\ queue' = Tail(queue)
    /\ UNCHANGED <<content, op, result, told>>

Put(k, v)  == content' = [content EXCEPT ![k] = v]
Discard(K) == content' = [k \in Keys |-> IF k \in K THEN Absent ELSE content[k]]

\* A verified set writes before it is over.
Write ==
    /\ current # NoCaller
    /\ verified /\ op[current].kind = "set"
    /\ Put(op[current].key, op[current].value)
    /\ UNCHANGED <<queue, current, op, result, told>>

\* What an operation that succeeds does, and the value it yields.
Succeed(o, value) ==
    CASE o.kind = "get"     -> value = content[o.key] /\ UNCHANGED content
      [] o.kind = "delete"  -> value = Absent /\ Discard({o.key})
      [] o.kind = "cleanup" -> value = Absent /\ \E K \in SUBSET Keys : Discard(K)
      [] o.kind = "set"     ->
            /\ value = Absent
            /\ IF verified THEN content[o.key] = o.value /\ UNCHANGED content
                           ELSE Put(o.key, o.value)

\* An operation that fails may leave its own key without a value, a cleanup
\* any key; only a set that is not verified may have written.
Fail(o) ==
    \/ UNCHANGED content
    \/ o.kind \in {"set", "delete"} /\ Discard({o.key})
    \/ o.kind = "set" /\ ~verified /\ Put(o.key, o.value)
    \/ o.kind = "cleanup" /\ \E K \in SUBSET Keys : Discard(K)

\* The operation under way is over.
Finish ==
    /\ current # NoCaller
    /\ \/ \E v \in Values \cup {Absent} :
             /\ Succeed(op[current], v)
             /\ result' = [result EXCEPT ![current] = Outcome("done", v)]
       \/ /\ Fail(op[current])
          /\ result' = [result EXCEPT ![current] = Failed]
    /\ current' = NoCaller
    /\ UNCHANGED <<queue, op, told>>

\* A caller that still waits learns how its operation ended.
Tell(c) ==
    /\ result[c] # Pending /\ told[c] = Pending
    /\ told' = [told EXCEPT ![c] = result[c]]
    /\ UNCHANGED <<content, queue, current, op, result>>

\* Entries expire.
Expire(k) == Discard({k}) /\ UNCHANGED <<queue, current, op, result, told>>

AbstractNext ==
    /\ verified' = verified
    /\ \/ \E c \in Callers : GiveUp(c) \/ Tell(c)
       \/ \E c \in Callers, o \in Operations : Accept(c, o) \/ Refuse(c, o)
       \/ Begin \/ Write \/ Finish
       \/ \E k \in Keys : Expire(k)

AbstractSpec == AbstractInit /\ [][AbstractNext]_abstractVars
=============================================================================
