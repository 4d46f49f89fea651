--------------------------- MODULE CacheOverStore ---------------------------
(***************************************************************************)
(* The result cache as a client of the store operation coordinator: the    *)
(* tasks of ResultCache submit their operations to OrderedStore, which is  *)
(* what StoreCoordinator implements, and go on with what OrderedStore      *)
(* tells them.  Whatever OrderedStore may do to them is then allowed for   *)
(* in the queue and the store that ResultCache has in its place, so that   *)
(* what is shown of ResultCache holds of the cache over the coordinator.   *)
(*                                                                         *)
(* A task awaits the store at most once at each of the places in Waiting,  *)
(* so the callers of OrderedStore are pairs of a task and a place.  The    *)
(* cleanup task is left out: it does to the store what Expire does.        *)
(***************************************************************************)
EXTENDS ResultCache

VARIABLES
    verified, \* OrderedStore's variables of these names,
    line,     \* its queue,
    current,
    op,
    result,
    told

serviceVars == <<line, current, op, result, told>>

Callers == Tasks \X Waiting

NoCaller == <<Absent, "none">>

Coordinator == INSTANCE OrderedStore WITH
    Values <- StoredValues \ {Absent}, content <- store, queue <- line

Pending == Coordinator!Pending

-----------------------------------------------------------------------------
(* What ResultCache sees of OrderedStore: queue, ready and published.       *)

InLine == IF current = NoCaller THEN line ELSE <<current>> \o line

OperationOf(c) ==
    [task |-> c[1], kind |-> op[c].kind, key |-> op[c].key, value |-> op[c].value,
     awaited |-> told[c] = Pending]

QueueView == [i \in 1..Len(InLine) |-> OperationOf(InLine[i])]

Caller(t) == <<t, pc[t]>>

\* What a caller was told or, until then, what it will be told.
Known(c) == IF told[c] # Pending THEN told[c] ELSE result[c]

Learned(t, outcome) == Completion(t, outcome.status = "done", outcome.value)

ReadyView ==
    {Learned(t, Known(Caller(t))) :
        t \in {u \in Tasks : pc[u] \in Waiting /\ Known(Caller(u)) # Pending}}

PublishedView ==
    {<<op[c].key, op[c].value>> :
        c \in {d \in Callers : op[d].kind \in {"set", "delete"} /\ result[d].status = "done"}}

-----------------------------------------------------------------------------
(* The tasks over OrderedStore.                                             *)

\* submit(), by a task that the piece p leads to where it awaits the store.
Asks(t, p) ==
    LET c == <<t, p.next>>
        o == [kind |-> p.kind, key |-> p.key, value |-> p.value]
    IN  IF p.next = "done" THEN UNCHANGED <<store, serviceVars>>
                           ELSE Coordinator!Accept(c, o) \/ Coordinator!Refuse(c, o)

Calling ==
    /\ \E t \in Tasks, c \in Calls : Call(t, c)
    /\ UNCHANGED serviceVars

Starting(t) ==
    /\ pc[t] = "called"
    /\ Carries(t, Begin(t)) /\ Asks(t, Begin(t))

\* A task goes on once it has been told how its operation ended.
Continuing(t) ==
    LET outcome == told[Caller(t)]
        p       == Continue(t, outcome.status = "done", outcome.value)
    IN  /\ pc[t] \in Waiting /\ outcome # Pending
        /\ Carries(t, p) /\ Asks(t, p)

Serving ==
    /\ \/ \E c \in Callers : Coordinator!GiveUp(c) \/ Coordinator!Tell(c)
       \/ Coordinator!Begin \/ Coordinator!Write \/ Coordinator!Finish
       \/ \E k \in Keys : Coordinator!Expire(k)
    /\ UNCHANGED <<mem, pc, call, answer>>

ComposedInit ==
    /\ Init /\ persistent
    /\ verified \in BOOLEAN
    /\ line = <<>> /\ current = NoCaller
    /\ op = [c \in Callers |-> Coordinator!NoOperation]
    /\ result = [c \in Callers |-> Pending]
    /\ told = [c \in Callers |-> Pending]

ComposedNext ==
    /\ \/ Calling
       \/ \E t \in Tasks : Starting(t) \/ Continuing(t)
       \/ Serving
    /\ UNCHANGED <<persistent, verified>>
    /\ queue' = QueueView' /\ ready' = ReadyView' /\ published' = PublishedView'

composedVars == <<vars, verified, serviceVars>>

ComposedSpec == ComposedInit /\ [][ComposedNext]_composedVars

-----------------------------------------------------------------------------

\* cache.py relies on no more than storage.py provides: whatever OrderedStore
\* does to the operations of the cache (a refusal, a failure with or without
\* effect, a timeout before, while or after the operation is applied, an entry
\* that expires between a write and its read-back) is what ResultCache assumes
\* of its store.
StoreIsAsAssumed == Spec
=============================================================================
