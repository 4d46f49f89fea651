-------------------------- MODULE IsolatedProcess ---------------------------
(***************************************************************************)
(* Work that the server runs in a process of its own, until a deadline:    *)
(* one-shot solves (run_solve_in_process, app.py), input parsing           *)
(* (ParsedInputFile.from_content_until, inputs.py) and attestation         *)
(* (AttestationService.run_until, attestation.py).  The three share one    *)
(* protocol: a thread under the capacity limiter starts a child, polls its *)
(* pipe, receives one message and makes sure the child is gone; and their  *)
(* handlers map what happened to a status.                                 *)
(*                                                                         *)
(* A child may compute for ever, exit without an answer, break off in the  *)
(* middle of its message, ignore SIGTERM, and outlive SIGKILL for longer   *)
(* than the thread waits.                                                  *)
(***************************************************************************)
EXTENDS Naturals, FiniteSets

CONSTANTS
    Tasks,
    Slots,       \* CONDA_PRESTO_CONCURRENCY
    Mixes        \* the kinds of work that may run together

Kinds == {"solve", "parse", "sign", "verify"}

ASSUME IsolatedAssumption ==
    Mixes \subseteq [Tasks -> Kinds] /\ Slots \in Nat \ {0} /\ IsFiniteSet(Tasks)

VARIABLES
    kind,     \* what each task asks for
    phase,    \* where the handler of a task is
    late,     \* whether its deadline has passed
    child,    \* its process
    pipe,     \* what the child has written
    outcome,  \* what the thread has concluded
    status    \* the status of the answer

vars == <<kind, phase, late, child, pipe, outcome, status>>

Init ==
    /\ kind \in Mixes
    /\ phase = [t \in Tasks |-> "idle"]
    /\ late = [t \in Tasks |-> FALSE]
    /\ child = [t \in Tasks |-> "none"]
    /\ pipe = [t \in Tasks |-> "empty"]
    /\ outcome = [t \in Tasks |-> "none"]
    /\ status = [t \in Tasks |-> 0]

-----------------------------------------------------------------------------
(* The child: solve_process_entrypoint, _from_path_process, _run_process.   *)

\* What the entrypoints send: results, and the errors they distinguish.
Messages(k) ==
    CASE k = "solve"  -> {"ok", "unknown-format", "workspace-error", "error"}
      [] k = "parse"  -> {"ok", "invalid", "timeout", "error"}
      [] k = "sign"   -> {"ok", "unavailable", "failed"}
      [] k = "verify" -> {"ok", "unavailable", "failed", "refused"}

Live(t) == child[t] \in {"alive", "terminated", "killed"}

ChildWrites(t) ==
    /\ child[t] = "alive" /\ pipe[t] = "empty"
    /\ pipe' = [pipe EXCEPT ![t] = "partial"]
    /\ UNCHANGED <<kind, phase, late, child, outcome, status>>

\* A parse times out only by its deadline.
ChildSends(t) ==
    /\ child[t] \in {"alive", "terminated"} /\ pipe[t] = "partial"
    /\ \E m \in Messages(kind[t]) :
          /\ kind[t] = "parse" /\ m = "timeout" => late[t]
          /\ pipe' = [pipe EXCEPT ![t] = m]
    /\ UNCHANGED <<kind, phase, late, child, outcome, status>>

\* The child ends, also by a crash, or by the signal it got.
ChildExits(t) ==
    /\ Live(t)
    /\ child' = [child EXCEPT ![t] = "gone"]
    /\ UNCHANGED <<kind, phase, late, pipe, outcome, status>>

-----------------------------------------------------------------------------
(* The handler and its thread.                                              *)

HoldsSlot(t) == phase[t] \in {"starting", "polling", "receiving", "stopping",
                              "joining", "killing"}

Request(t) ==
    /\ phase[t] = "idle"
    /\ phase' = [phase EXCEPT ![t] = "queued"]
    /\ UNCHANGED <<kind, late, child, pipe, outcome, status>>

Deadline(t) ==
    /\ phase[t] \notin {"idle", "answered"} /\ ~late[t]
    /\ late' = [late EXCEPT ![t] = TRUE]
    /\ UNCHANGED <<kind, phase, child, pipe, outcome, status>>

\* fail_after cancels a task that still waits for the limiter.
QueueTimesOut(t) ==
    /\ phase[t] = "queued" /\ late[t]
    /\ phase' = [phase EXCEPT ![t] = "finished"]
    /\ outcome' = [outcome EXCEPT ![t] = "timeout"]
    /\ UNCHANGED <<kind, late, child, pipe, status>>

\* Mutant: the limiter is not passed to the thread.
HasSlotAlways == TRUE

HasSlot == Cardinality({t \in Tasks : HoldsSlot(t)}) < Slots

\* The thread begins, and finds that there is time left.
Begin(t) ==
    /\ phase[t] = "queued"
    /\ HasSlot
    /\ phase' = [phase EXCEPT ![t] = IF late[t] THEN "finished" ELSE "starting"]
    /\ outcome' = [outcome EXCEPT ![t] = IF late[t] THEN "timeout" ELSE @]
    /\ UNCHANGED <<kind, late, child, pipe, status>>

Start(t) ==
    /\ phase[t] = "starting"
    /\ \/ /\ child' = [child EXCEPT ![t] = "alive"]
          /\ phase' = [phase EXCEPT ![t] = "polling"]
          /\ outcome' = outcome
       \/ /\ child' = child
          /\ phase' = [phase EXCEPT ![t] = "finished"]
          /\ outcome' = [outcome EXCEPT ![t] = "not-started"]
    /\ UNCHANGED <<kind, late, pipe, status>>

\* Mutant: there is no deadline.
PollForever(t) == phase[t] = "polling" /\ UNCHANGED vars

\* receiver.poll(remaining) finds nothing by the deadline.
PollTimesOut(t) ==
    /\ phase[t] = "polling" /\ late[t]
    /\ pipe[t] = "empty" /\ Live(t)
    /\ phase' = [phase EXCEPT ![t] = "stopping"]
    /\ outcome' = [outcome EXCEPT ![t] = "timeout"]
    /\ UNCHANGED <<kind, late, child, pipe, status>>

\* It finds the beginning of a message, or the end of the pipe.
Poll(t) ==
    /\ phase[t] = "polling"
    /\ pipe[t] # "empty" \/ ~Live(t)
    /\ phase' = [phase EXCEPT ![t] = "receiving"]
    /\ UNCHANGED <<kind, late, child, pipe, outcome, status>>

\* Mutant: an empty pipe is received like a message.
ReceiveAnything(t) ==
    /\ phase[t] = "receiving"
    /\ pipe[t] \in Messages(kind[t]) \/ ~Live(t)
    /\ phase' = [phase EXCEPT ![t] = "stopping"]
    /\ outcome' = [outcome EXCEPT ![t] = pipe[t]]
    /\ UNCHANGED <<kind, late, child, pipe, status>>

\* recv waits for the whole message, without a timeout.
Receive(t) ==
    /\ phase[t] = "receiving"
    /\ pipe[t] \in Messages(kind[t]) \/ ~Live(t)
    /\ phase' = [phase EXCEPT ![t] = "stopping"]
    /\ outcome' = [outcome EXCEPT ![t] = CASE pipe[t] = "empty"   -> "end-of-file"
                                           [] pipe[t] = "partial" -> "broken"
                                           [] OTHER               -> pipe[t]]
    /\ UNCHANGED <<kind, late, child, pipe, status>>

\* finally: SIGTERM, and a wait of at most five seconds.
Terminate(t) ==
    /\ phase[t] = "stopping"
    /\ child' = [child EXCEPT ![t] = IF Live(t) THEN "terminated" ELSE @]
    /\ phase' = [phase EXCEPT ![t] = "joining"]
    /\ UNCHANGED <<kind, late, pipe, outcome, status>>

\* Mutant: SIGTERM is thought to be enough.
KillNever(t) ==
    /\ phase[t] = "joining"
    /\ phase' = [phase EXCEPT ![t] = "finished"]
    /\ UNCHANGED <<kind, late, child, pipe, outcome, status>>

\* SIGKILL to a child that is still there.
Kill(t) ==
    /\ phase[t] = "joining"
    /\ IF Live(t)
       THEN /\ child' = [child EXCEPT ![t] = "killed"]
            /\ phase' = [phase EXCEPT ![t] = "killing"]
       ELSE /\ child' = child
            /\ phase' = [phase EXCEPT ![t] = "finished"]
    /\ UNCHANGED <<kind, late, pipe, outcome, status>>

\* The last join returns with the child gone, or the thread says it is not.
Joined(t) ==
    /\ phase[t] = "killing"
    /\ phase' = [phase EXCEPT ![t] = "finished"]
    /\ outcome' = [outcome EXCEPT ![t] = IF Live(t) THEN "stuck" ELSE @]
    /\ UNCHANGED <<kind, late, child, pipe, status>>

\* Mutant: what is not a known error is a result.
StatusLeniently(k, result) ==
    CASE result \in {"ok", "end-of-file"} -> 200
      [] result = "timeout"               -> 504
      [] OTHER                            -> 500

\* How run_solve, parse_input_for_request, sign_post and verify_post answer.
Status(k, result) ==
    CASE result = "ok"                                       -> 200
      [] result = "timeout"                                  -> 504
      [] result \in {"unknown-format", "invalid"}            -> 400
      [] k = "verify" /\ result = "refused"               -> 422
      [] k = "verify" /\ result = "unavailable"           -> 503
      [] k = "sign" /\ result \in {"unavailable", "failed", "end-of-file", "stuck"}
                                                             -> 503
      [] OTHER                                               -> 500

\* A late result is still the answer: the thread is not abandoned.
Answer(t) ==
    /\ phase[t] = "finished"
    /\ phase' = [phase EXCEPT ![t] = "answered"]
    /\ status' = [status EXCEPT ![t] = Status(kind[t], outcome[t])]
    /\ UNCHANGED <<kind, late, child, pipe, outcome>>

Child(t) == ChildWrites(t) \/ ChildSends(t) \/ ChildExits(t)

Handler(t) ==
    \/ QueueTimesOut(t) \/ Begin(t) \/ Start(t) \/ PollTimesOut(t) \/ Poll(t)
    \/ Receive(t) \/ Terminate(t) \/ Kill(t) \/ Joined(t) \/ Answer(t)

AllAnswered == \A t \in Tasks : phase[t] = "answered"

Next ==
    \/ \E t \in Tasks : Request(t) \/ Deadline(t) \/ Handler(t) \/ Child(t)
    \/ AllAnswered /\ UNCHANGED vars

Spec == Init /\ [][Next]_vars

\* Threads run, time passes, and a child that writes its message, to a thread
\* that reads it, finishes it or dies.  Nothing else is assumed of children.
FairSpec ==
    /\ Spec
    /\ \A t \in Tasks :
          /\ WF_vars(Handler(t))
          /\ WF_vars(Deadline(t))
          /\ WF_vars(phase[t] = "receiving" /\ (ChildSends(t) \/ ChildExits(t)))

-----------------------------------------------------------------------------
(* Properties.                                                              *)

AllMessages == UNION {Messages(k) : k \in Kinds}

TypeOK ==
    /\ kind \in [Tasks -> Kinds]
    /\ phase \in [Tasks -> {"idle", "queued", "starting", "polling", "receiving",
                            "stopping", "joining", "killing", "finished", "answered"}]
    /\ late \in [Tasks -> BOOLEAN]
    /\ child \in [Tasks -> {"none", "alive", "terminated", "killed", "gone"}]
    /\ pipe \in [Tasks -> {"empty", "partial"} \cup AllMessages]
    /\ outcome \in [Tasks -> AllMessages \cup
                      {"none", "not-started", "end-of-file", "broken", "stuck"}]
    /\ status \in [Tasks -> {0, 200, 400, 422, 500, 503, 504}]

\* Capacity: a child is alive only on behalf of a task that holds a slot, unless
\* it outlived SIGKILL, in which case the task is answered with an error, even
\* if the child's result had arrived.
ChildrenAreOwned ==
    /\ Cardinality({t \in Tasks : HoldsSlot(t)}) <= Slots
    /\ \A t \in Tasks : Live(t) =>
          \/ HoldsSlot(t)
          \/ child[t] = "killed" /\ outcome[t] = "stuck" /\ status[t] \in {0, 500, 503}

\* 200 is answered only for a complete result of the request's own child, 504
\* only after its deadline, and the client is blamed only for what its child
\* reported: whether the child exits, breaks off or is killed meanwhile.
AnswersAreHonest ==
    \A t \in Tasks :
        /\ status[t] = 200 => pipe[t] = "ok"
        /\ status[t] = 504 => late[t]
        /\ status[t] \in {400, 422} =>
              pipe[t] \in {"invalid", "unknown-format", "refused"}

\* Every request is answered, whatever its child does.
RequestsAreAnswered == \A t \in Tasks : phase[t] = "queued" ~> phase[t] = "answered"

=============================================================================
