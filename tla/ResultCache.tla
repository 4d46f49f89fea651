---------------------------- MODULE ResultCache -----------------------------
(***************************************************************************)
(* ResultCache of conda_presto/cache.py: a bounded in-process LRU of       *)
(* results, in front of an optional persistent store that other replicas   *)
(* share.  A result is kept under the key of the request that produced it  *)
(* and under the digest of its own bytes, its artifact, which /r/<digest>  *)
(* serves; a response carries that address only if the artifact was        *)
(* retained.                                                               *)
(*                                                                         *)
(* Tasks of the event loop remember and look up results.  They interleave  *)
(* where they await the store, whose operations are ordered, may fail, and *)
(* may outlive the caller that timed out, as OrderedStore says.            *)
(***************************************************************************)
EXTENDS Integers, Sequences, SequencesExt, FiniteSets

CONSTANTS
    Tasks,
    Requests,    \* digests of request keys
    Bodies,      \* results: bytes and media type
    Size,        \* their size in memory
    Secret,      \* results in which credentials are detected
    Oversized,   \* results too large for the persistent store
    MaxSize,     \* max_size
    MaxBytes,    \* max_bytes, 0 for no limit
    Absent,      \* nothing under a key
    Corrupt      \* a stored value that does not decode, or is too large

ASSUME CacheAssumption ==
    /\ Size \in [Bodies -> Nat]
    /\ Secret \subseteq Bodies /\ Oversized \subseteq Bodies
    /\ MaxSize \in Nat /\ MaxBytes \in Nat
    /\ Absent \notin Bodies /\ Corrupt \notin Bodies /\ Absent # Corrupt

\* Lines 232-240: the two kinds of keys; an artifact's is its own digest.
RequestKey(r) == <<"request", r>>
ResolveKey(b) == <<"resolve", b>>

Keys == {RequestKey(r) : r \in Requests} \cup {ResolveKey(b) : b \in Bodies}

IsArtifact(k) == k[1] = "resolve"

\* Mutant: stored values are not scanned for credentials.
InvalidUnscanned(k, v) == v = Corrupt \/ (IsArtifact(k) /\ k # ResolveKey(v))

\* Mutant: the digest of an artifact is not compared with its key.
InvalidUnchecked(k, v) == v = Corrupt \/ v \in Secret

\* Lines 313-362: what get_stored refuses to serve under a key.
Invalid(k, v) ==
    v = Corrupt \/ v \in Secret \/ (IsArtifact(k) /\ k # ResolveKey(v))

-----------------------------------------------------------------------------
(* The memory: self.entries, oldest first, and self.current_bytes.          *)

EmptyMemory == [order |-> <<>>, body |-> [k \in Keys |-> Absent], bytes |-> 0]

Holds(m, k) == m.body[k] # Absent

Without(order, k) == RemoveFirst(order, k)

\* Mutant: a popped entry keeps its bytes.
PoppedHeavy(m, k) ==
    [m EXCEPT !.order = Without(@, k), !.body[k] = Absent]

\* entries.pop(key, None) and the bytes it frees.
Popped(m, k) ==
    IF Holds(m, k)
    THEN [order |-> Without(m.order, k),
          body  |-> [m.body EXCEPT ![k] = Absent],
          bytes |-> m.bytes - Size[m.body[k]]]
    ELSE m

\* entries.move_to_end(key)
Touched(m, k) ==
    [m EXCEPT !.order = Append(Without(@, k), k)]

BytesOf(m, keys) ==
    LET sum[n \in 0..Len(keys)] ==
            IF n = 0 THEN 0 ELSE sum[n - 1] + Size[m.body[keys[n]]]
    IN  sum[Len(keys)]

\* Mutant: the entries are counted, not their bytes.
FitsByCount(m, n) == Len(m.order) - n <= MaxSize

\* Whether the loop of lines 293-295 stops after evicting the n oldest.
Fits(m, n) ==
    /\ Len(m.order) - n <= MaxSize
    /\ MaxBytes > 0 => m.bytes - BytesOf(m, SubSeq(m.order, 1, n)) <= MaxBytes

Evictions(m) ==
    CHOOSE i \in 0..Len(m.order) : Fits(m, i) /\ \A j \in 0..(i - 1) : ~Fits(m, j)

Evicted(m) ==
    LET n == Evictions(m)
        gone == SubSeq(m.order, 1, n)
    IN  [order |-> SubSeq(m.order, n + 1, Len(m.order)),
         body  |-> [k \in Keys |-> IF Contains(gone, k) THEN Absent ELSE m.body[k]],
         bytes |-> m.bytes - BytesOf(m, gone)]

\* remember_memory, lines 279-298.
Remembered(m, k, b) ==
    IF b \in Secret \/ (MaxBytes > 0 /\ Size[b] > MaxBytes) THEN Popped(m, k)
    ELSE LET without == Popped(m, k)
         IN  Evicted([order |-> Append(without.order, k),
                      body  |-> [without.body EXCEPT ![k] = b],
                      bytes |-> without.bytes + Size[b]])

-----------------------------------------------------------------------------
VARIABLES
    persistent, \* whether there is a store; never changes
    mem,        \* the memory
    store,      \* the persistent store
    queue,      \* store operations in order, with whether a task awaits them
    ready,      \* completed operations whose tasks have not resumed
    pc,         \* what each task awaits
    call,       \* what each task was called for
    answer,     \* the response of each task: its body, Absent for none, and
                \* whether it carries the artifact's address
    published   \* ghost: the <<key, body>> whose set the store has accepted

vars == <<persistent, mem, store, queue, ready, pc, call, answer, published>>

Calls ==
    [kind : {"remember"}, key : {RequestKey(r) : r \in Requests}, body : Bodies,
     retain : BOOLEAN]
    \cup [kind : {"lookup"}, key : Keys, body : {Absent}, retain : {TRUE}]

NoCall == [kind |-> "none", key |-> Absent, body |-> Absent, retain |-> FALSE]
Immutable(t) == IsArtifact(call[t].key)

Unanswered == [status |-> "pending", body |-> Absent, advertised |-> FALSE]

\* Where a task awaits the store.
Waiting == {"read", "discard", "store-request", "drop-request", "store-artifact",
            "drop-artifact"}

StoredValues == (Bodies \ Oversized) \cup {Absent, Corrupt}

Init ==
    /\ persistent \in BOOLEAN
    /\ mem = EmptyMemory
    /\ store \in IF persistent THEN [Keys -> StoredValues]
                 ELSE {[k \in Keys |-> Absent]}
    /\ queue = <<>> /\ ready = {} /\ published = {}
    /\ pc = [t \in Tasks |-> "idle"]
    /\ call = [t \in Tasks |-> NoCall]
    /\ answer = [t \in Tasks |-> Unanswered]

-----------------------------------------------------------------------------
(* Pieces of the tasks: what a task leaves in memory, where it goes, and    *)
(* the store operation that it awaits there or the response that it gives.  *)
(* m is the memory that the step has built so far.                          *)

\* Mutant: every result is given an address.
RespondRetained(m, body, advertised) ==
    [mem |-> m, next |-> "done", kind |-> "none", key |-> Absent, value |-> Absent,
     answer |-> [status |-> "response", body |-> body, advertised |-> body # Absent]]

\* response_for, lines 459-478, or no response for a lookup that found nothing.
Respond(m, body, advertised) ==
    [mem |-> m, next |-> "done", kind |-> "none", key |-> Absent, value |-> Absent,
     answer |-> [status |-> "response", body |-> body, advertised |-> advertised]]

Await(label, m, kind, k, v) ==
    [mem |-> m, next |-> label, kind |-> kind, key |-> k, value |-> v,
     answer |-> Unanswered]

\* Mutant: the memory is filled before the store has accepted the entry.
PublishEagerly(label, m, k, b) == Await(label, Remembered(m, k, b), "set", k, b)

\* Lines 421-433: the entry leaves memory until the store has accepted it.
Publish(label, m, k, b) == Await(label, Popped(m, k), "set", k, b)

\* discard, lines 404-408, and delete_persistent: the answer will be none.
DiscardInvalid(m, k) ==
    IF persistent THEN Await("discard", m, "delete", k, Absent)
                  ELSE Respond(m, Absent, FALSE)

\* store_entry up to its await, lines 412-432, under the artifact's key, and
\* the response, if nothing is awaited.
StoreArtifact(m, b) ==
    LET k == ResolveKey(b)
    IN  IF b \in Secret
        THEN IF persistent
             THEN Await("drop-artifact", Popped(m, k), "delete", k, Absent)
             ELSE Respond(Popped(m, k), b, FALSE)
        ELSE IF ~persistent
        THEN LET after == Remembered(m, k, b)
             IN  Respond(after, b, Holds(after, k))
        ELSE IF b \in Oversized
        THEN Respond(Popped(m, k), b, FALSE)
        ELSE Publish("store-artifact", m, k, b)

\* The same under the request's key; remember goes on with the artifact.
StoreRequest(m, k, b) ==
    IF b \in Secret
    THEN IF persistent
         THEN Await("drop-request", Popped(m, k), "delete", k, Absent)
         ELSE StoreArtifact(Popped(m, k), b)
    ELSE IF ~persistent
    THEN StoreArtifact(Remembered(m, k, b), b)
    ELSE IF b \in Oversized
    THEN StoreArtifact(Popped(m, k), b)
    ELSE Publish("store-request", m, k, b)

\* get_response once get_stored has found b, lines 381-388.
Found(t, m, b) ==
    IF Immutable(t) THEN Respond(m, b, TRUE) ELSE StoreArtifact(m, b)

\* remember(), lines 443-457, up to its first await.
Remembering(t) ==
    IF call[t].retain THEN StoreRequest(mem, call[t].key, call[t].body)
                      ELSE Respond(mem, call[t].body, FALSE)

\* get_response(), lines 371-388, and get_stored().
LookingUp(t) ==
    LET k == call[t].key
        b == mem.body[k]
    IN  IF Holds(mem, k)
        THEN IF Invalid(k, b) THEN DiscardInvalid(Popped(mem, k), k)
                              ELSE Found(t, Touched(mem, k), b)
        ELSE IF persistent THEN Await("read", mem, "get", k, Absent)
                           ELSE Respond(mem, Absent, FALSE)

\* A task that is called.
Begin(t) == IF call[t].kind = "remember" THEN Remembering(t) ELSE LookingUp(t)

\* What a task does when the store operation it awaits is over: `ok` is
\* False after a timeout or an error, v is what a get returned.
Continue(t, ok, v) ==
    LET k == call[t].key
        b == call[t].body
    IN  CASE pc[t] = "read" ->
               IF ~ok \/ v = Absent THEN Respond(mem, Absent, FALSE)
               ELSE IF Invalid(k, v) THEN DiscardInvalid(mem, k)
               ELSE IF Holds(mem, k) THEN Found(t, Touched(mem, k), mem.body[k])
               ELSE Found(t, Remembered(mem, k, v), v)
          [] pc[t] = "discard" -> Respond(mem, Absent, FALSE)
          [] pc[t] = "store-request" ->
               StoreArtifact(IF ok THEN Remembered(mem, k, b) ELSE mem, b)
          [] pc[t] = "drop-request" -> StoreArtifact(mem, b)
          [] pc[t] = "store-artifact" ->
               Respond(IF ok THEN Remembered(mem, ResolveKey(b), b) ELSE mem, b, ok)
          [] pc[t] = "drop-artifact" -> Respond(mem, b, FALSE)

-----------------------------------------------------------------------------
(* The tasks.                                                               *)

\* The task itself does what the piece p says.
Carries(t, p) ==
    /\ mem' = p.mem
    /\ pc' = [pc EXCEPT ![t] = p.next]
    /\ call' = IF p.kind = "set" THEN [call EXCEPT ![t].body = p.value] ELSE call
    /\ answer' = IF p.next = "done" THEN [answer EXCEPT ![t] = p.answer] ELSE answer

\* What a task learns of its operation.
Completion(t, ok, v) == [task |-> t, ok |-> ok, value |-> v]

NotCompleted(t) == Completion(t, FALSE, Absent)

\* The completed operations of the other tasks.
ReadyBut(t) == {e \in ready : e.task # t}

\* submit(): the operation of p joins the queue, or is refused at once, by a
\* coordinator that does not run.
Submits(t, p) ==
    \/ p.next = "done" /\ queue' = queue /\ ready' = ReadyBut(t)
    \/ /\ p.next # "done"
       /\ queue' = Append(queue, [task |-> t, kind |-> p.kind, key |-> p.key,
                                  value |-> p.value, awaited |-> TRUE])
       /\ ready' = ReadyBut(t)
    \/ /\ p.next # "done"
       /\ queue' = queue /\ ready' = ReadyBut(t) \cup {NotCompleted(t)}

Takes(t, p) ==
    /\ Carries(t, p) /\ Submits(t, p)
    /\ UNCHANGED <<persistent, store, published>>

Start(t) == pc[t] = "called" /\ Takes(t, Begin(t))

\* The task of a completed operation resumes.
Resume(t) == \E e \in ready : e.task = t /\ Takes(t, Continue(t, e.ok, e.value))

\* The deadline of the operation that a task awaits passes.  It leaves the
\* queue, or stays in it for nobody, or had just completed; the task learns
\* only that the time is over.
TimeOut(t) ==
    /\ pc[t] \in Waiting
    /\ \/ \E i \in 1..Len(queue) :
             /\ queue[i].task = t /\ queue[i].awaited
             /\ \/ queue' = RemoveAt(queue, i)
                \/ queue' = [queue EXCEPT ![i].awaited = FALSE]
       \/ (\E e \in ready : e.task = t) /\ UNCHANGED queue
    /\ ready' = ReadyBut(t) \cup {NotCompleted(t)}
    /\ UNCHANGED <<persistent, mem, store, pc, call, answer, published>>

Call(t, c) ==
    /\ pc[t] = "idle"
    /\ pc' = [pc EXCEPT ![t] = "called"]
    /\ call' = [call EXCEPT ![t] = c]
    /\ UNCHANGED <<persistent, mem, store, queue, ready, answer, published>>

-----------------------------------------------------------------------------
(* The store: the coordinator applies the first operation, which succeeds,  *)
(* or fails with or without its effect.                                     *)

\* Mutant: (completed, value) is returned in the wrong order.
CompleteSwapped(o, ok, v) ==
    /\ queue' = Tail(queue)
    /\ ready' = IF o.awaited THEN ready \cup {Completion(o.task, v, ok)} ELSE ready

Complete(o, ok, v) ==
    /\ queue' = Tail(queue)
    /\ ready' = IF o.awaited THEN ready \cup {Completion(o.task, ok, v)} ELSE ready

\* What the operation o does to the store, and how it ends: it succeeds, and
\* yields v, or fails.  A set that failed may have written, or have lost what
\* was there.
Performed(o, ok, v) ==
    \/ /\ o.kind = "get" /\ ok /\ v = store[o.key]
       /\ UNCHANGED <<store, published>>
    \/ /\ o.kind \in {"set", "delete"} /\ ok /\ v = Absent
       /\ store' = [store EXCEPT ![o.key] = o.value]
       /\ published' = published \cup {<<o.key, o.value>>}
    \/ /\ ~ok /\ v = Absent
       /\ \/ UNCHANGED store
          \/ /\ o.kind # "get"
             /\ \E left \in {Absent, o.value} : store' = [store EXCEPT ![o.key] = left]
       /\ UNCHANGED published

ApplyWith(ok, v) ==
    /\ queue # <<>>
    /\ Performed(Head(queue), ok, v) /\ Complete(Head(queue), ok, v)
    /\ UNCHANGED <<persistent, mem, pc, call, answer>>

Apply == \E ok \in BOOLEAN, v \in StoredValues : ApplyWith(ok, v)

\* A set may have written before it is over, because it is read back.
Write ==
    /\ queue # <<>> /\ Head(queue).kind = "set"
    /\ store' = [store EXCEPT ![Head(queue).key] = Head(queue).value]
    /\ UNCHANGED <<persistent, mem, queue, ready, pc, call, answer, published>>

Expire(k) ==
    /\ store[k] # Absent
    /\ store' = [store EXCEPT ![k] = Absent]
    /\ UNCHANGED <<persistent, mem, queue, ready, pc, call, answer, published>>

Terminated ==
    /\ \A t \in Tasks : pc[t] = "done"
    /\ queue = <<>>
    /\ UNCHANGED vars

Next ==
    \/ \E t \in Tasks, c \in Calls : Call(t, c)
    \/ \E t \in Tasks : Start(t) \/ Resume(t) \/ TimeOut(t)
    \/ Apply \/ Write
    \/ \E k \in Keys : Expire(k)
    \/ Terminated

Spec == Init /\ [][Next]_vars

-----------------------------------------------------------------------------
(* Properties.                                                              *)

Labels == Waiting \cup {"idle", "called", "done"}

TypeOK ==
    /\ persistent \in BOOLEAN
    /\ mem.body \in [Keys -> Bodies \cup {Absent}] /\ mem.bytes \in Int
    /\ \A i \in DOMAIN mem.order : mem.order[i] \in Keys
    /\ store \in [Keys -> StoredValues]
    /\ pc \in [Tasks -> Labels]
    /\ answer \in [Tasks -> [status : {"pending", "response"},
                             body : Bodies \cup {Absent}, advertised : BOOLEAN]]
    /\ \A i \in DOMAIN queue : queue[i].kind \in {"get", "set", "delete"}
    /\ \A e \in ready : e.ok \in BOOLEAN

\* The accounting of the memory is exact and within its limits: current_bytes
\* is the sum of what the entries hold, whatever replaced, evicted, popped and
\* refilled them while tasks awaited the store.
Accounting ==
    /\ IsInjective(mem.order)
    /\ \A k \in Keys : Holds(mem, k) <=> Contains(mem.order, k)
    /\ mem.bytes = BytesOf(mem, mem.order)
    /\ Len(mem.order) <= MaxSize
    /\ MaxBytes > 0 => mem.bytes <= MaxBytes

\* Whatever the store holds, /r/<digest> answers with the bytes of that digest.
ArtifactsAreExact ==
    \A t \in Tasks :
        /\ answer[t].body # Absent /\ call[t].kind = "lookup" /\ IsArtifact(call[t].key)
        => call[t].key = ResolveKey(answer[t].body)

\* A result with credentials is in nobody's cache: not in memory, not on its
\* way to the store, not served by a lookup, and its address not given.
SecretsAreNotRetained ==
    /\ \A k \in Keys : mem.body[k] \notin Secret
    /\ \A i \in DOMAIN queue : queue[i].kind = "set" => queue[i].value \notin Secret
    /\ \A t \in Tasks : answer[t].body \in Secret =>
          call[t].kind = "remember" /\ ~answer[t].advertised

\* docs/reference/cache.md: the address of a shared artifact is advertised
\* only after its publication; without a store, only while it is in memory.
AdvertisedWasRetained ==
    [][\A t \in Tasks :
          /\ ~answer[t].advertised /\ answer'[t].advertised
          /\ call[t].kind = "remember" \/ ~IsArtifact(call[t].key)
          => LET k == ResolveKey(answer'[t].body)
             IN  IF persistent THEN <<k, answer'[t].body>> \in published
                               ELSE mem'.body[k] = answer'[t].body]_vars

\* cache.py:419: a publication that failed does not become a local hit.  What
\* memory holds was accepted by the store, or read from it.
HitsAreShared ==
    [][\A k \in Keys :
          LET b == mem'.body[k]
          IN  persistent /\ b # Absent /\ b # mem.body[k] =>
                 \/ <<k, b>> \in published
                 \/ \E e \in ready : e.ok /\ e.value = b /\ call[e.task].key = k]_vars
=============================================================================
