--------------------------- MODULE SolverContext ----------------------------
(***************************************************************************)
(* The process-global state that a solve reads: the conda `context`, the   *)
(* CONDA_OVERRIDE_* environment variables, which take precedence over it,  *)
(* and `current_platform`, by which configure_platform skips what it       *)
(* already did (resolve.py, workspace.py, workspace_lock.py, cache.py).    *)
(*                                                                         *)
(* Threads of the server run jobs under the reentrant platform_lock.  A    *)
(* job on plain platforms configures them and leaves them configured; a    *)
(* job on workspace targets enters scoped contexts, one inside the other,  *)
(* and restores what each changed, in the reverse order, also when its     *)
(* body raises.  A child process copies the environment at any moment.     *)
(*                                                                         *)
(* A virtual package version is represented by the platform or target      *)
(* whose settings it comes from.                                           *)
(***************************************************************************)
EXTENDS Naturals, Sequences

CONSTANTS
    Threads,
    Platforms,    \* conda subdirs
    Targets,      \* logical workspace targets
    SubdirOf,     \* the subdir of each target
    Variables,    \* CONDA_OVERRIDE_* names
    VariablesOf,  \* those a target's virtual packages have
    Ambient,      \* the environment the process was started with
    NativeSubdir,
    NoThread,
    None          \* no value

ASSUME ContextAssumption ==
    /\ SubdirOf \in [Targets -> Platforms]
    /\ VariablesOf \in [Targets -> SUBSET Variables]
    /\ Ambient \in [Variables -> {Ambient[n] : n \in Variables}]
    /\ NativeSubdir \in Platforms
    /\ NoThread \notin Threads
    /\ None \notin Platforms \cup Targets

VARIABLES
    holder,      \* the thread that holds platform_lock
    context,     \* conda's context: subdir, overrides, solver, settings
    environ,     \* os.environ
    current,     \* current_platform
    configured,  \* context_configured
    frames,      \* the contexts each thread is inside, innermost last
    task,        \* the job of each thread, the targets it has left, its phase
    inherited    \* the environment that the last child was started with

contextVars == <<holder, context, environ, current, configured, frames, task,
                 inherited>>

Idle == [kind |-> "idle", targets |-> <<>>, phase |-> "done"]

Init ==
    /\ holder = NoThread
    /\ context = [subdir |-> NativeSubdir, overrides |-> None,
                  solver |-> "default", settings |-> "own"]
    /\ environ = Ambient
    /\ current = None
    /\ configured = FALSE
    /\ frames = [t \in Threads |-> <<>>]
    /\ task = [t \in Threads |-> Idle]
    /\ inherited = Ambient

-----------------------------------------------------------------------------
(* Jobs.                                                                    *)

PlainKinds == {"capture", "run_solver", "configured"}
ScopedKinds == {"identity", "export", "solve", "check", "update",
                "update_identity"}

\* The contexts that the body of a job is inside, outermost first.
Contexts(kind) ==
    CASE kind \in PlainKinds -> <<"lock">>
      [] kind \in {"identity", "solve"} -> <<"solver", "virtuals">>
      [] kind = "export" -> <<"solver">>
      [] kind = "check" -> <<"virtuals">>
      [] kind = "update" -> <<"settings", "solver", "virtuals">>
      [] kind = "update_identity" ->
            <<"settings", "solver", "virtuals", "solver", "virtuals">>
      [] OTHER -> <<>>

\* Calls: ResolveCacheContext.capture and warmup_indexes take platforms,
\* run_solver one platform, configured none, the others targets.
Call(t) ==
    /\ task[t].kind = "idle"
    /\ \E kind \in PlainKinds \cup ScopedKinds :
       \E one, two \in IF kind \in PlainKinds THEN Platforms ELSE Targets :
          task' = [task EXCEPT ![t] =
                      [kind |-> kind,
                       targets |-> IF \/ one = two
                                      \/ kind \in {"run_solver", "configured", "update",
                                                   "update_identity"}
                                   THEN <<one>> ELSE <<one, two>>,
                       phase |-> "entering"]]
    /\ UNCHANGED <<holder, context, environ, current, configured, frames, inherited>>

-----------------------------------------------------------------------------
(* Contexts.                                                                *)

\* Mutant: the target's subdir is set without being restored.
RestoredLoosely(now, saved, kind) ==
    CASE kind = "virtuals" -> now
      [] kind = "solver"   -> [now EXCEPT !.overrides = saved.overrides,
                                          !.solver = saved.solver]
      [] kind = "settings" -> [now EXCEPT !.settings = saved.settings]
      [] OTHER             -> now

\* The context that `with` leaves behind: each kind restores what it changed.
Restored(now, saved, kind) ==
    CASE kind = "virtuals" -> [now EXCEPT !.subdir = saved.subdir]
      [] kind = "solver"   -> [now EXCEPT !.subdir = saved.subdir,
                                          !.overrides = saved.overrides,
                                          !.solver = saved.solver]
      [] kind = "settings" -> [now EXCEPT !.settings = saved.settings]
      [] OTHER             -> now

\* The context inside a `with`.
Scoped(now, kind, target) ==
    CASE kind = "virtuals" -> [now EXCEPT !.subdir = SubdirOf[target]]
      [] kind = "solver"   -> [now EXCEPT !.subdir = SubdirOf[target],
                                          !.overrides = target,
                                          !.solver = "rattler"]
      [] kind = "settings" -> [now EXCEPT !.settings = "carried"]
      [] OTHER             -> now

\* The environment with some variables given the values of another.
Updated(env, names, values) ==
    [n \in Variables |-> IF n \in names THEN values[n] ELSE env[n]]

\* Mutant: the platform lock is not taken again by a nested context, nor
\* waited for by an outer one.
MayEnterAnyway(t) == TRUE

\* platform_lock is reentrant.
MayEnter(t) == holder \in {NoThread, t}

\* Enter the next context of the job.
Enter(t) ==
    LET kind   == Contexts(task[t].kind)[Len(frames[t]) + 1]
        target == Head(task[t].targets)
    IN  /\ task[t].phase = "entering"
        /\ Len(frames[t]) < Len(Contexts(task[t].kind))
        /\ MayEnter(t)
        /\ holder' = t
        /\ frames' = [frames EXCEPT ![t] =
                         Append(@, [kind |-> kind, target |-> target,
                                    context |-> context, environ |-> environ])]
        /\ context' = Scoped(context, kind, target)
        /\ environ' = IF kind = "virtuals"
                      THEN Updated(environ, VariablesOf[target],
                                   [n \in Variables |-> target])
                      ELSE environ
        /\ UNCHANGED <<current, configured, task, inherited>>

\* All contexts entered, the body of a job on targets, and of `configured`.
EnterBody(t) ==
    /\ task[t].phase = "entering"
    /\ task[t].kind \in ScopedKinds \cup {"configured"}
    /\ Len(frames[t]) = Len(Contexts(task[t].kind))
    /\ task' = [task EXCEPT ![t].phase = "body"]
    /\ UNCHANGED <<holder, context, environ, current, configured, frames, inherited>>

\* Mutant: whoever else set the context is not noticed.
SkipsPlatform(platform) == current = platform \/ current # None

\* configure_platform skips a platform that is already configured.
SamePlatform(platform) == current = platform

\* configure_platform, then configure_context in run_solver.
Configure(t) ==
    LET platform == Head(task[t].targets) IN
    /\ task[t].phase = "entering"
    /\ task[t].kind \in {"capture", "run_solver"}
    /\ Len(frames[t]) = 1
    /\ context' = [context EXCEPT
          !.subdir    = IF SamePlatform(platform) THEN @ ELSE platform,
          !.overrides = IF SamePlatform(platform) THEN @ ELSE platform,
          !.solver    = IF task[t].kind = "run_solver" /\ ~configured THEN "rattler"
                        ELSE @]
    /\ current' = IF SamePlatform(platform) THEN current ELSE platform
    /\ configured' = (configured \/ task[t].kind = "run_solver")
    /\ task' = [task EXCEPT ![t].phase = "body"]
    /\ UNCHANGED <<holder, environ, frames, inherited>>

\* The body ends.  capture goes to its next platform inside the lock.
EndBody(t) ==
    /\ task[t].phase = "body"
    /\ task' = [task EXCEPT ![t] =
          IF @.kind = "capture" /\ Len(@.targets) > 1
          THEN [@ EXCEPT !.targets = Tail(task[t].targets), !.phase = "entering"]
          ELSE [@ EXCEPT !.phase = "leaving"]]
    /\ UNCHANGED <<holder, context, environ, current, configured, frames, inherited>>

\* Entering or the body raises: the contexts entered so far are left.  solve
\* without an exporter reports the error of a target and goes on to the next.
Raise(t) ==
    /\ task[t].phase \in {"entering", "body"}
    /\ \E goesOn \in IF task[t].kind = "solve" THEN BOOLEAN ELSE {FALSE} :
          task' = [task EXCEPT ![t].phase = "leaving",
                               ![t].targets = IF goesOn THEN @ ELSE <<Head(@)>>,
                               ![t].kind = IF @ = "update" THEN "update_failed" ELSE @]
    /\ UNCHANGED <<holder, context, environ, current, configured, frames, inherited>>

\* Leave the innermost context; the outermost releases the lock.
Leave(t) ==
    LET frame == frames[t][Len(frames[t])] IN
    /\ task[t].phase = "leaving"
    /\ frames[t] # <<>>
    /\ frames' = [frames EXCEPT ![t] = SubSeq(@, 1, Len(@) - 1)]
    /\ context' = Restored(context, frame.context, frame.kind)
    /\ environ' = IF frame.kind = "virtuals"
                  THEN Updated(environ, VariablesOf[frame.target], frame.environ)
                  ELSE environ
    /\ holder' = IF Len(frames[t]) = 1 THEN NoThread ELSE holder
    /\ UNCHANGED <<current, configured, task, inherited>>

\* Outside the lock: the next target, the consistency check of every target
\* after an update, or the end of the job.
NextTarget(t) ==
    /\ task[t].phase = "leaving"
    /\ frames[t] = <<>>
    /\ \/ /\ task[t].kind \in ScopedKinds
          /\ Len(task[t].targets) > 1
          /\ task' = [task EXCEPT ![t].targets = Tail(@), ![t].phase = "entering"]
       \/ /\ task[t].kind = "update"
          /\ \E one, two \in Targets :
                task' = [task EXCEPT ![t] = [kind |-> "check", targets |-> <<one, two>>,
                                             phase |-> "entering"]]
       \/ /\ Len(task[t].targets) = 1 \/ task[t].kind \in PlainKinds
          /\ task[t].kind # "update"
          /\ task' = [task EXCEPT ![t] = Idle]
    /\ UNCHANGED <<holder, context, environ, current, configured, frames, inherited>>

\* A child process, a worker or a one-shot solve, copies os.environ.  Its
\* parent takes operation_lock at most, never platform_lock.
Spawn ==
    /\ inherited' = environ
    /\ UNCHANGED <<holder, context, environ, current, configured, frames, task>>

Step(t) ==
    \/ Call(t) \/ Enter(t) \/ EnterBody(t) \/ Configure(t)
    \/ EndBody(t) \/ Raise(t) \/ Leave(t) \/ NextTarget(t)

Next == Spawn \/ \E t \in Threads : Step(t)

Spec == Init /\ [][Next]_contextVars

-----------------------------------------------------------------------------
(* Properties.                                                              *)

ContextType ==
    [subdir : Platforms, overrides : Platforms \cup Targets \cup {None},
     solver : {"default", "rattler"}, settings : {"own", "carried"}]

EnvironType == [Variables -> Targets \cup {Ambient[n] : n \in Variables}]

FrameType ==
    [kind : {"lock", "solver", "virtuals", "settings"},
     target : Platforms \cup Targets, context : ContextType, environ : EnvironType]

TaskType ==
    [kind : PlainKinds \cup ScopedKinds \cup {"idle", "update_failed"},
     targets : Seq(Platforms \cup Targets),
     phase : {"entering", "body", "leaving", "done"}]

\* The values the variables may have; the lock's holder is inside a context.
TypeOK ==
    /\ holder \in Threads \cup {NoThread}
    /\ context \in ContextType
    /\ environ \in EnvironType
    /\ current \in Platforms \cup {None}
    /\ configured \in BOOLEAN
    /\ frames \in [Threads -> Seq(FrameType)]
    /\ task \in [Threads -> TaskType]
    /\ inherited \in EnvironType
    /\ \A t \in Threads : frames[t] # <<>> <=> holder = t

ReadsPlatform(platform) ==
    /\ context.subdir = platform /\ context.overrides = platform
    /\ environ = Ambient

ReadsTarget(target) ==
    /\ context.subdir = SubdirOf[target]
    /\ \A n \in VariablesOf[target] : environ[n] = target

\* What a job reads in its body is its own: the platform's virtual packages in
\* the operator's environment, or those of its target; the settings the update
\* carries or the process's own; and the rattler solver wherever one is driven.
\* Other jobs, failed ones included, run on the same globals in between.
ReadsAreItsOwn ==
    \A t \in Threads : task[t].phase = "body" =>
        LET target == Head(task[t].targets)
            kind   == task[t].kind
        IN  /\ kind \in {"capture", "run_solver"} => ReadsPlatform(target)
            /\ kind \in {"identity", "solve", "check", "update", "update_identity"}
                  => ReadsTarget(target)
            /\ kind \in {"identity", "solve", "export", "update", "update_identity"}
                  => context.overrides = target
            /\ kind \in {"run_solver", "solve", "update"} => context.solver = "rattler"
            /\ (context.settings = "carried") <=>
                  kind \in {"update", "update_identity"}

\* Whenever the lock is free, everything scoped has been restored, whatever
\* raised, and the context is what current_platform claims it is, on which the
\* shortcut of configure_platform relies.
Restores(now, env) ==
    /\ env = Ambient
    /\ now.settings = "own"
    /\ now.solver = IF configured THEN "rattler" ELSE "default"
    /\ IF current = None
       THEN now.subdir = NativeSubdir /\ now.overrides = None
       ELSE now.subdir = current /\ now.overrides = current

ContextIsRestored == holder = NoThread => Restores(context, environ)

\* resolve.py:196 says of configure_platform that it "avoids process-global
\* env-var writes (which would not be thread-safe under the HTTP server's
\* concurrent requests)": a child process should then inherit the operator's
\* environment, never the overrides of a target another thread is working on.
ChildrenInheritAmbient == inherited = Ambient

=============================================================================
