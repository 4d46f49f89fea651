------------------------------ MODULE Requests ------------------------------
(***************************************************************************)
(* One request on its way through the server (the handlers of app.py) or   *)
(* the command line (cli.py): what is refused before its file is parsed,   *)
(* what the parser makes of the file (ParsedInputFile.from_path,           *)
(* inputs.py), and which solves follow.  Parsing and solving may time out  *)
(* or fail.  Processes, caches and the workers are modules of their own.   *)
(***************************************************************************)
EXTENDS WorkspaceTargets

CONSTANTS
    Requests,      \* the requests that may be made
    Allowed,       \* CONDA_PRESTO_CHANNEL_ALLOWLIST
    Defaults,      \* CONDA_PRESTO_CHANNELS
    Native,        \* NATIVE_SUBDIR
    Available      \* the platforms of an ordinary lockfile

\* What a client may send; UpdateRequest has one environment and platform.
IsRequest(r) ==
    /\ r.cli \in BOOLEAN
    /\ r.operation \in {"resolve", "export", "transcode", "parse", "sbom", "validate",
                        "update"}
    /\ r.file \in {"none", "environment", "manifest", "lock", "ordinary-lock"}
    /\ r.file \in {"manifest", "lock"} => IsDocument(r.doc)
    /\ r.companion # None => IsDocument(r.companion)
    /\ r.specs \in Nat \cup {None} /\ r.querySpecs \in Nat
    /\ r.channels \subseteq Channels /\ r.fileChannels \subseteq Channels
    /\ r.packages \in Seq(Packages)
    /\ r.platforms # None => r.platforms \in Seq(Targets)
    /\ r.environments # None => r.environments \in Seq(Environments)
    /\ r.operation = "update" /\ ~r.cli =>
          /\ r.environments # None /\ Len(r.environments) = 1
          /\ r.platforms # None /\ Len(r.platforms) = 1

ASSUME RequestsAssumption == \A r \in Requests : IsRequest(r)

\* Limits are numbers, and the server runs on a platform that conda knows: the
\* handlers check the platforms that a request names, not the native one.
ASSUME LimitsAssumption ==
    /\ MaxTargets \in Nat /\ MaxSpecs \in Nat /\ MaxChannels \in Nat
    /\ Native \in KnownSubdirs /\ Defaults \subseteq Channels

\* A value that is missing is none of those it stands for.
ASSUME NoneAssumption ==
    /\ None \notin Nat /\ None # {}
    /\ None \notin Seq(Pairs) /\ None \notin Seq(Environments) /\ None \notin Seq(Targets)

VARIABLES
    request,   \* the request
    stage,     \* where it is
    parsed,    \* what its file was parsed to, or None
    pending,   \* the solves it still asks for
    results,   \* those made, and whether they succeeded
    answer     \* the status and what is sent with it

vars == <<request, stage, parsed, pending, results, answer>>

Init ==
    /\ request \in Requests
    /\ stage = "received"
    /\ parsed = None
    /\ pending = <<>>
    /\ results = <<>>
    /\ answer = [status |-> None, body |-> None]

-----------------------------------------------------------------------------
(* What a request asks for.                                                 *)

Given(list) == list # None /\ list # <<>>

\* A body overrides the query of a solve, and extends that of an export.
SpecsOf(r) ==
    CASE r.operation \in {"export", "transcode"} ->
            (IF r.specs = None THEN 0 ELSE r.specs) + r.querySpecs
      [] OTHER -> IF r.specs = None THEN r.querySpecs ELSE r.specs

Pair(r) == <<r.environments[1], r.platforms[1]>>

LockedSbom(r) == r.operation = "sbom" /\ r.file = "lock"

\* The format that the parser is asked to render.
ExportFormat(r) ==
    CASE LockedSbom(r) -> "cyclonedx"
      [] /\ r.operation \in {"export", "transcode"}
         /\ r.operation = "transcode" => r.format \in Lockfiles
         /\ SpecsOf(r) = 0 /\ r.channels = {}   -> r.format
      [] OTHER -> None

\* What the handlers refuse before they parse the file.
LockedSbomAdmits(r) ==
    /\ Given(r.environments) /\ Given(r.platforms)
    /\ SpecsOf(r) = 0 /\ r.channels = {}

SbomAdmits(r) == r.companion = None /\ Given(r.platforms)

ValidateAdmits(r) == r.file # "none" /\ r.companion # None

UpdateAdmits(r) == r.file # "none" /\ r.companion # None /\ r.packages # <<>>

HttpAdmits(r) ==
    CASE r.operation = "sbom"      ->
            IF LockedSbom(r) THEN LockedSbomAdmits(r) ELSE SbomAdmits(r)
      [] r.operation = "validate"  -> ValidateAdmits(r)
      [] r.operation = "update"    -> UpdateAdmits(r)
      [] r.operation = "transcode" -> r.companion = None
      [] r.operation = "parse"     -> r.file # "none"
      [] OTHER                     -> TRUE

\* What cmd_parse, cmd_update and execute refuse.
CliParseAdmits(r) ==
    /\ r.file # "none" /\ SpecsOf(r) = 0 /\ r.channels = {}
    /\ (r.operation = "export") = (r.format # None)
    /\ r.operation = "validate" =>
          r.companion # None /\ ~Given(r.platforms) /\ ~Given(r.environments)

CliUpdateAdmits(r) ==
    /\ r.file # "none" /\ r.companion # None
    /\ Given(r.environments) /\ Len(r.environments) = 1
    /\ Given(r.platforms) /\ Len(r.platforms) = 1
    /\ r.packages # <<>> /\ r.channels = {} /\ r.format = None

CliAdmits(r) ==
    /\ r.companion # None => r.operation \in {"export", "validate", "update"}
    /\ CASE r.operation = "update"  -> CliUpdateAdmits(r)
         [] r.operation = "resolve" -> TRUE
         [] OTHER                   -> CliParseAdmits(r)

Admits(r) == IF r.cli THEN CliAdmits(r) ELSE HttpAdmits(r)

-----------------------------------------------------------------------------
(* ParsedInputFile.from_path.                                               *)

ParsedFile == [specs |-> 0, channels |-> {}, selected |-> <<>>, content |-> None,
               mismatches |-> None, target |-> None]

\* `--platform` and `--environment` are lists that may be empty; the complete
\* workspace is checked and updated.
PlatformsOf(r) ==
    IF r.operation \in {"validate", "update"} \/ (r.cli /\ ~Given(r.platforms))
    THEN None ELSE r.platforms

EnvironmentsOf(r) ==
    IF r.operation \in {"validate", "update"} \/ (r.cli /\ ~Given(r.environments))
    THEN None ELSE r.environments

FromManifest(r) ==
    LET selected == ManifestSelection(r.doc, EnvironmentsOf(r), PlatformsOf(r))
        exported == IF selected = <<>> THEN Select(r.doc, None, None) ELSE selected
        format   == ExportFormat(r)
    IN IF \/ selected = Rejected \/ r.companion # None
       THEN Rejected
       ELSE IF format = None \/ r.operation = "transcode"
            THEN [ParsedFile EXCEPT !.selected = selected]
            ELSE IF exported = Rejected \/ ~ExportsManifest(r.doc, exported, format)
                 THEN Rejected
                 ELSE [ParsedFile EXCEPT !.selected = exported, !.content = exported]

\* Mutant: a lock is updated although it is stale.
UpdatesAnyway(r) ==
    LET target == Companion(r.companion, Pair(r))
    IN IF \/ target = Rejected
          \/ ~(ToSet(r.packages) \subseteq Dependencies(r.companion, target))
       THEN Rejected
       ELSE target

Updates(r) == PrepareUpdate(r.doc, r.companion, Pair(r), r.packages)

FromLock(r) ==
    LET whole    == r.operation \in {"validate", "update"}
        format   == ExportFormat(r)
        selected == LockSelection(r.doc, EnvironmentsOf(r), PlatformsOf(r),
                                  format # None, whole)
        renders  == IF LockedSbom(r)
                    THEN RendersEach(r.doc, r.companion, selected, format)
                    ELSE RendersLock(r.doc, r.companion, selected, format)
        check    == IF whole THEN CheckConsistency(r.doc, r.companion) ELSE {}
        target   == IF r.operation = "update" THEN Updates(r) ELSE None
    IN IF \/ selected = Rejected \/ check = Rejected \/ target = Rejected
          \/ format # None /\ ~renders
          \/ format = None /\ r.companion # None /\ ~whole
       THEN Rejected
       ELSE [ParsedFile EXCEPT
                !.selected   = selected,
                !.content    = IF format = None THEN None ELSE selected,
                !.mismatches = IF r.operation = "validate" THEN check ELSE None,
                !.target     = target]

\* Its platforms, if all are there: converted if the formats allow it, or
\* materialized for a solve of the command line.
FromOrdinaryLock(r) ==
    LET format  == ExportFormat(r)
        targets == IF Given(r.platforms) THEN r.platforms ELSE <<Native>>
        present == ToSet(targets) \subseteq Available
        solved  == r.cli /\ r.operation = "resolve"
    IN IF \/ EnvironmentsOf(r) # None
          \/ r.companion # None
       THEN Rejected
       ELSE [ParsedFile EXCEPT
                !.specs    = IF solved /\ present THEN 1 ELSE 0,
                !.channels = IF solved /\ present THEN r.fileChannels ELSE {},
                !.content  = IF present /\ format = "ordinary-lock"
                             THEN Distinct(targets) ELSE None]

FromEnvironment(r) ==
    LET format == ExportFormat(r)
    IN IF \/ EnvironmentsOf(r) # None \/ r.companion # None
          \/ /\ format # None /\ r.operation = "export"
             /\ (PlatformsOf(r) # None \/ format \in Lockfiles)
       THEN Rejected
       ELSE [ParsedFile EXCEPT
                !.specs    = 1,
                !.channels = r.fileChannels,
                !.content  = IF format # None /\ r.operation = "export" THEN <<None>>
                             ELSE None]

FromPath(r) ==
    CASE r.file = "manifest"      -> FromManifest(r)
      [] r.file = "lock"          -> FromLock(r)
      [] OTHER                    ->
            IF r.operation \in {"validate", "update"} THEN Rejected
            ELSE IF r.file = "ordinary-lock" THEN FromOrdinaryLock(r)
            ELSE FromEnvironment(r)

\* None is neither a parsed file nor a set of mismatches.
ASSUME ParsedAssumption ==
    \A r \in Requests : Admits(r) /\ r.file # "none" =>
        /\ FromPath(r) # None
        /\ FromPath(r) # Rejected /\ r.operation = "validate" =>
              FromPath(r).mismatches # None

-----------------------------------------------------------------------------
(* What the handlers do with a parsed file.                                 *)

\* validate_channels
AreAllowed(channels) == channels \subseteq Allowed

\* validate_caps
WithinCaps(specs, channels, platforms) ==
    /\ specs <= MaxSpecs
    /\ Cardinality(channels) <= MaxChannels
    /\ Len(platforms) <= MaxTargets
    /\ ToSet(platforms) \subseteq KnownSubdirs
    /\ AreAllowed(channels)

Job(specs, channels, platform, pair) ==
    [specs |-> specs, channels |-> channels, platform |-> platform, pair |-> pair]

\* The solve of a target, or of an update of some of its dependencies.
TargetJob(doc, pair, packages) ==
    Job(Cardinality(Dependencies(doc, pair)), SolveChannels(doc, pair, packages),
        doc.subdir[pair[2]], pair)

WholeJob(doc, pair) == TargetJob(doc, pair, Dependencies(doc, pair))

WorkspaceJobs(r) ==
    LET selected == Select(r.doc, EnvironmentsOf(r), PlatformsOf(r))
        jobs     == [i \in 1..Len(selected) |-> WholeJob(r.doc, selected[i])]
    IN IF \/ r.operation # "resolve" \/ SpecsOf(r) # 0 \/ r.channels # {}
          \/ selected = Rejected
       THEN Rejected
       ELSE IF \/ ~ValidOutput(r.doc, selected, r.format)
               \/ ~r.cli /\ \E i \in DOMAIN jobs :
                     ~WithinCaps(jobs[i].specs, jobs[i].channels, <<jobs[i].platform>>)
            THEN Rejected
            ELSE jobs

\* The solves of requirements, one for each platform.
OrdinaryJobs(r) ==
    LET specs     == SpecsOf(r) + IF parsed = None THEN 0 ELSE parsed.specs
        channels  == IF r.channels # {} THEN r.channels
                     ELSE IF parsed # None /\ parsed.channels # {} THEN parsed.channels
                     ELSE Defaults
        asked     == IF Given(r.platforms) THEN r.platforms ELSE <<>>
        platforms == IF r.operation = "sbom" THEN Distinct(asked)
                     ELSE IF asked = <<>> THEN <<Native>>
                     ELSE asked
    IN IF \/ EnvironmentsOf(r) # None
          \/ r.operation = "sbom" /\ r.file = "ordinary-lock"
          \/ specs = 0
          \/ ~r.cli /\ ~WithinCaps(specs, channels, asked)
       THEN Rejected
       ELSE [i \in 1..Len(platforms) |-> Job(specs, channels, platforms[i], None)]

\* ResolveRequest.inputs, and cmd_solve.
Jobs(r) ==
    CASE r.file = "lock"     -> Rejected
      [] r.file = "manifest" -> WorkspaceJobs(r)
      [] OTHER               -> OrdinaryJobs(r)

\* The platforms asked for that an ordinary lockfile does not have.
Missing(r) ==
    (IF Given(r.platforms) THEN ToSet(r.platforms) ELSE {Native}) \ Available

\* transcode_envs: a lockfile that the command line converts without a solve.
Transcodes(r) ==
    /\ r.cli /\ r.operation = "resolve" /\ r.file = "ordinary-lock"
    /\ SpecsOf(r) = 0 /\ r.channels = {}
    /\ r.format \in Lockfiles
    /\ Missing(r) = {}

\* Mutant: a format that an input does not have is no reason.
ReasonsOfRequest(r) ==
    {reason \in {"no file", "no output format", "specs", "channels"} :
        CASE reason = "no file"          -> r.file = "none"
          [] reason = "no output format" -> r.format = None
          [] reason = "specs"            -> SpecsOf(r) > 0
          [] reason = "channels"         -> r.channels # {}}

\* rejection(), for clients of the server.
Reasons(r) ==
    LET only == r.operation = "transcode"
        lock == r.file \in {"lock", "ordinary-lock"}
        pure == SpecsOf(r) = 0 /\ r.channels = {}
    IN { reason \in {"no file", "not a lockfile", "missing platforms",
                     "input format", "no output format", "output format",
                     "specs", "channels"} :
         CASE reason = "no file"          -> r.file = "none"
           [] reason = "not a lockfile"   -> r.file # "none" /\ only /\ ~lock
           [] reason = "missing platforms" -> r.file = "ordinary-lock" /\ Missing(r) # {}
           [] reason = "input format"     ->
                 /\ r.file # "none" /\ parsed.content = None /\ r.format # None
                 /\ IF lock THEN /\ r.file = "ordinary-lock" => Missing(r) = {}
                                 /\ pure /\ (only => r.format \in Lockfiles)
                    ELSE ~only
           [] reason = "no output format" -> r.format = None
           [] reason = "output format"    ->
                 r.format # None /\ only /\ r.format \notin Lockfiles
           [] reason = "specs"            -> SpecsOf(r) > 0
           [] reason = "channels"         -> r.channels # {} }

\* response() applies the limits also to what is not solved.
ExportWithinCaps(r) ==
    \/ r.cli \/ r.file \in {"none", "manifest", "lock"}
    \/ WithinCaps(parsed.specs, parsed.channels,
                  IF Given(r.platforms) THEN r.platforms ELSE <<Native>>)

\* parse() applies them to the selected targets of a manifest, or to the file.
ParseWithinCaps(r) ==
    IF r.file = "manifest"
    THEN \A i \in DOMAIN parsed.selected :
            LET job == WholeJob(r.doc, parsed.selected[i])
            IN WithinCaps(job.specs, job.channels, <<job.platform>>)
    ELSE r.file = "lock" \/ WithinCaps(parsed.specs, parsed.channels, <<>>)

-----------------------------------------------------------------------------
(* The steps of a request.                                                  *)

\* Mutant: what could not be checked exits like what was checked.
StatusOfFailure(r, outcome) == IF outcome = "ok" THEN 0 ELSE 1

\* Mutant: a deadline is answered as if the service were down.
StatusUnavailable(r, outcome) ==
    IF r.cli
    THEN CASE outcome = "ok" -> 0
           [] outcome = "refused" ->
                 IF r.operation \in {"validate", "update"} THEN 2 ELSE 1
           [] OTHER -> 1
    ELSE CASE outcome \in {"ok", "mismatch"} -> 200
           [] outcome = "refused"            -> 400
           [] outcome = "timeout"            -> 503
           [] OTHER                          -> 500

\* The status codes of the server and the exit status of the command line.
Status(r, outcome) ==
    IF r.cli
    THEN CASE outcome = "ok" -> 0
           [] outcome = "refused" ->
                 IF r.operation \in {"validate", "update"} THEN 2 ELSE 1
           [] OTHER -> 1
    ELSE CASE outcome \in {"ok", "mismatch"} -> 200
           [] outcome = "refused"            -> 400
           [] outcome = "timeout"            -> 504
           [] OTHER                          -> 500

Answer(outcome, body) ==
    /\ stage' = "answered"
    /\ answer' = [status |-> Status(request, outcome), body |-> body]

Receive ==
    /\ stage = "received"
    /\ IF ~Admits(request)
       THEN Answer("refused", None)
       ELSE /\ stage' = IF request.file = "none" THEN "parsed" ELSE "parsing"
            /\ answer' = answer
    /\ UNCHANGED <<request, parsed, pending, results>>

Parse ==
    /\ stage = "parsing"
    /\ IF FromPath(request) = Rejected
       THEN Answer("refused", None) /\ parsed' = parsed
       ELSE /\ stage' = "parsed"
            /\ parsed' = FromPath(request)
            /\ answer' = answer
    /\ UNCHANGED <<request, pending, results>>

\* A malformed file, a lockfile that cannot be converted without a loss, or a
\* late or broken parser; the command line takes all for invalid input.
ParseFails ==
    /\ stage = "parsing"
    /\ \E outcome \in {"refused", "timeout", "failed"} :
          Answer(IF request.cli THEN "refused" ELSE outcome, None)
    /\ UNCHANGED <<request, parsed, pending, results>>

AnswerExport ==
    /\ stage = "parsed" /\ request.operation \in {"export", "transcode"}
    /\ IF parsed # None /\ ~ExportWithinCaps(request) THEN Answer("refused", None)
       ELSE IF parsed # None /\ parsed.content # None THEN Answer("ok", parsed.content)
       ELSE Answer("refused", IF request.cli THEN {"no export"} ELSE Reasons(request))
    /\ UNCHANGED <<request, parsed, pending, results>>

\* Documents are rendered before the first of them is retained.
AnswerLockedSbom ==
    /\ stage = "parsed" /\ LockedSbom(request)
    /\ Answer("ok", parsed.content)
    /\ UNCHANGED <<request, parsed, pending, results>>

AnswerParse ==
    /\ stage = "parsed" /\ request.operation = "parse"
    /\ IF \/ /\ request.file \in {"environment", "ordinary-lock"}
             /\ PlatformsOf(request) # None
          \/ ~request.cli /\ ~ParseWithinCaps(request)
       THEN Answer("refused", None)
       ELSE Answer("ok", parsed.selected)
    /\ UNCHANGED <<request, parsed, pending, results>>

AnswerValidate ==
    /\ stage = "parsed" /\ request.operation = "validate"
    /\ Answer(IF parsed.mismatches = {} THEN "ok" ELSE "mismatch", parsed.mismatches)
    /\ UNCHANGED <<request, parsed, pending, results>>

Decide ==
    /\ stage = "parsed"
    /\ request.operation = "resolve" \/ (request.operation = "sbom" /\ ~LockedSbom(request))
    /\ IF parsed # None /\ Transcodes(request)
       THEN Answer("ok", request.platforms) /\ pending' = pending
       ELSE IF Jobs(request) = Rejected
            THEN Answer("refused", None) /\ pending' = pending
            ELSE /\ stage' = "solving"
                 /\ pending' = Jobs(request)
                 /\ answer' = answer
    /\ UNCHANGED <<request, parsed, results>>

DecideUpdate ==
    /\ stage = "parsed" /\ request.operation = "update"
    /\ LET job == TargetJob(request.companion, parsed.target, ToSet(request.packages))
       IN IF ~request.cli /\ ~WithinCaps(job.specs, job.channels, <<job.platform>>)
          THEN Answer("refused", None) /\ pending' = pending
          ELSE /\ stage' = "updating"
               /\ pending' = <<job>>
               /\ answer' = answer
    /\ UNCHANGED <<request, parsed, results>>

\* An output needs all its targets; JSON reports the errors of some.
Complete(r) == r.format # None \/ r.operation = "sbom"

\* Mutant: a target that cannot be solved is left out.
SolveSome ==
    /\ stage = "solving" /\ pending # <<>>
    /\ pending' = Tail(pending)
    /\ \E solved \in BOOLEAN :
          results' = IF solved \/ ~Complete(request)
                     THEN Append(results, [job |-> Head(pending), solved |-> solved])
                     ELSE results
    /\ UNCHANGED <<request, stage, parsed, answer>>

SolveNext ==
    /\ stage = "solving" /\ pending # <<>>
    /\ \E solved \in BOOLEAN :
          IF ~solved /\ Complete(request)
          THEN /\ Answer("failed", None)
               /\ UNCHANGED <<pending, results>>
          ELSE /\ pending' = Tail(pending)
               /\ results' = Append(results, [job |-> Head(pending), solved |-> solved])
               /\ UNCHANGED <<stage, answer>>
    /\ UNCHANGED <<request, parsed>>

AnswerSolve ==
    /\ stage = "solving" /\ pending = <<>>
    /\ Answer("ok", results)
    /\ UNCHANGED <<request, parsed, pending, results>>

\* WorkspaceLockUpdate.solve: the provider re-renders the lock; it is sent
\* only if it agrees with the manifest, for every target.
Update ==
    /\ stage = "updating"
    /\ \E stale \in SUBSET DOMAIN request.doc.records :
          LET updated == [request.doc EXCEPT !.records =
                             [p \in DOMAIN @ |-> IF p \in stale THEN "stale" ELSE @[p]]]
          IN IF CheckConsistency(updated, request.companion) = {}
             THEN Answer("ok", updated)
             ELSE Answer("failed", None)
    /\ UNCHANGED <<request, parsed, pending, results>>

\* The deadline of a solve, the failure of its process, and a worker that the
\* command line cannot stop.
SolveFails ==
    /\ stage \in {"solving", "updating"}
    /\ request.cli => stage = "updating"
    /\ \E outcome \in {"timeout", "failed"} : Answer(outcome, None)
    /\ UNCHANGED <<request, parsed, pending, results>>

Answered == stage = "answered" /\ UNCHANGED vars

Next ==
    \/ Receive \/ Parse \/ ParseFails
    \/ AnswerExport \/ AnswerLockedSbom \/ AnswerParse \/ AnswerValidate
    \/ Decide \/ DecideUpdate \/ SolveNext \/ AnswerSolve \/ Update \/ SolveFails
    \/ Answered

Spec == Init /\ [][Next]_vars

-----------------------------------------------------------------------------
(* Properties.                                                              *)

Documented == request.file \in {"manifest", "lock"}

AllJobs == [specs : Nat, channels : SUBSET Channels,
            platform : Targets \cup KnownSubdirs, pair : Pairs \cup {None}]

\* What a parser returns.
IsParsed(p) ==
    /\ DOMAIN p = DOMAIN ParsedFile
    /\ p.specs \in 0..1
    /\ p.channels \subseteq Channels
    /\ p.selected \in Seq(Pairs)
    /\ p.mismatches # None => p.mismatches \subseteq Pairs
    /\ p.target # None => p.target \in Pairs

\* Every variable has its type.
TypeOK ==
    /\ IsRequest(request)
    /\ stage \in {"received", "parsing", "parsed", "solving", "updating", "answered"}
    /\ parsed # None => IsParsed(parsed)
    /\ pending \in Seq(AllJobs)
    /\ results \in Seq([job : AllJobs, solved : BOOLEAN])
    /\ answer.status \in {None, 0, 1, 2, 200, 400, 500, 504}

\* The targets of an environment that a selector means, by definition.
Denotes(doc, name, asked, target) ==
    IF doc.targets[name] = <<>> THEN target = asked
    ELSE /\ target \in ToSet(doc.targets[name])
         /\ target = asked \/ (asked \notin ToSet(doc.targets[name])
                              /\ doc.subdir[target] = asked)

\* Whatever the order of the selectors, and however often one is repeated, the
\* parsed selection holds exactly the targets they mean, once each and in
\* bounds; and each selector means one target of every environment.
SelectionIsExact ==
    parsed # None /\ Documented /\ PlatformsOf(request) # None =>
        LET doc   == request.doc
            names == IF EnvironmentsOf(request) = None THEN ToSet(doc.names)
                     ELSE ToSet(request.environments)
            asked == ToSet(request.platforms)
            means(n, a) == {t \in DOMAIN doc.subdir : Denotes(doc, n, a, t)}
        IN /\ ToSet(parsed.selected) =
                 UNION {{<<n, t>> : t \in UNION {means(n, a) : a \in asked}} : n \in names}
           /\ Cardinality(ToSet(parsed.selected)) = Len(parsed.selected)
           /\ Len(parsed.selected) <= MaxTargets
           /\ \A n \in names, a \in asked : Cardinality(means(n, a)) = 1

\* A manifest and the lock saved from it answer the same selectors alike: the
\* loops of workspace.py and workspace_lock.py select the same pairs in the
\* same order, and the lock refuses nothing that the manifest declares, unless
\* it is saved with too many channels.
LockSelectsLikeManifest ==
    request.file = "manifest" =>
        LET doc      == request.doc
            declared == Select(doc, EnvironmentsOf(request), PlatformsOf(request))
            saved    == LockSelection(doc, EnvironmentsOf(request),
                                      PlatformsOf(request), TRUE, FALSE)
        IN /\ declared # Rejected /\ ~TooManyChannels(doc, ToSet(declared))
           /\ \A n \in ToSet(doc.names) : doc.targets[n] # <<>>
           => saved = declared

\* A document of one environment that names each subdir at most once.
Faithful(subdirs, pairs, format) ==
    format = "workspace-lock" \/
    /\ \A i, j \in DOMAIN pairs : pairs[i][1] = pairs[j][1]
    /\ \A i, j \in DOMAIN pairs : i # j => subdirs[i] # subdirs[j]
    /\ format \in Multiplatform \/ Len(pairs) = 1

\* No accepted output loses a target: an export of a manifest or a lock and the
\* solve of a manifest, which check it in three places, never merge targets
\* that share a subdir, or environments, nor join documents of one platform.
OutputsLoseNothing ==
    /\ parsed # None /\ Documented /\ parsed.content # None /\ ~LockedSbom(request) =>
          LET lock == Resolved(request.doc, request.companion)
          IN Faithful([i \in DOMAIN parsed.content |-> lock.subdir[parsed.content[i][2]]],
                      parsed.content, request.format)
    /\ stage = "solving" /\ request.file = "manifest" /\ request.format # None =>
          LET jobs == [i \in DOMAIN results |-> results[i].job] \o pending
          IN Faithful([i \in DOMAIN jobs |-> jobs[i].platform],
                      [i \in DOMAIN jobs |-> jobs[i].pair], request.format)

\* A target, and those of its dependencies, name channels that are allowed.
NamesAllowed(doc, pair, packages) ==
    /\ ToSet(doc.channels[pair]) \subseteq Allowed
    /\ \A p \in packages : doc.roots[pair[1]][p] \subseteq Allowed

\* Nothing reaches a solver on behalf of a client unless the requirements and
\* channels of request and file together are within the limits of the server,
\* in number, and the channels allowed: with those that all dependencies of a
\* solved target name, but of an update only those that the selected update
\* roots name.  Saved records are solved again only by an update.
SolvesAreWithinLimits ==
    LET jobs   == ToSet(pending) \cup {results[i].job : i \in DOMAIN results}
        update == request.operation = "update"
    IN \A job \in jobs :
          /\ request.file = "lock" => update
          /\ ~request.cli =>
                /\ job.specs <= MaxSpecs
                /\ Cardinality(job.channels) <= MaxChannels
                /\ job.channels \subseteq Allowed
                /\ job.platform \in KnownSubdirs
                /\ job.pair # None =>
                      IF update
                      THEN NamesAllowed(request.companion, job.pair, ToSet(request.packages))
                      ELSE NamesAllowed(request.doc, job.pair,
                                        Dependencies(request.doc, job.pair))

\* A solve is answered with all that was asked for, in order: with an output
\* format, or as SBOMs, all of it was solved, else nothing is sent.
AnswersAreComplete ==
    /\ answer.status \in {0, 200}
    /\ request.operation = "resolve" \/ (request.operation = "sbom" /\ ~LockedSbom(request))
    /\ ~Transcodes(request)
    => /\ [i \in DOMAIN results |-> results[i].job] = Jobs(request)
       /\ Complete(request) => \A i \in DOMAIN results : results[i].solved

\* docs/reference/http-api.md:146: what the server refuses to convert, once it
\* was parsed, exceeds a limit or is refused with its reasons: no file that the
\* parser left without content falls between them.
RefusalsAreExplained ==
    /\ request.operation \in {"export", "transcode"} /\ Admits(request)
    /\ answer.status = 400 /\ (parsed # None \/ request.file = "none")
    => \/ parsed # None /\ ~ExportWithinCaps(request)
       \/ answer.body = Reasons(request) /\ answer.body # {}

\* An updated lock is sent only for an exact declared target of a lock that
\* agreed with its manifest for every target, and agrees with it again.
UpdatesAreConsistent ==
    request.operation = "update" /\ answer.status \in {0, 200} =>
        /\ parsed.target = Pair(request)
        /\ CheckConsistency(request.doc, request.companion) = {}
        /\ CheckConsistency(answer.body, request.companion) = {}

\* docs/reference/cli.md:274: --validate exits with 0 exactly if every target is
\* consistent, with 1 for mismatches, and with 2 for what it could not check; a
\* command that fails sends no lock to stdout.
ExitStatusTells ==
    request.cli /\ stage = "answered" =>
        /\ request.operation = "validate" =>
              answer.status = (CASE answer.body = None -> 2
                                 [] answer.body = {}   -> 0
                                 [] OTHER              -> 1)
        /\ request.operation = "update" /\ answer.status # 0 =>
              /\ answer.body = None
              /\ answer.status = 1 <=> parsed # None

\* docs/reference/http-api.md:125: "The selected environment and target, concrete
\* platform, ordered channels and direct requirements must agree with the saved
\* records": what is exported with a companion manifest was compared with the
\* declarations of the same target.
CompanionIsTheTarget ==
    parsed # None /\ request.companion # None /\ parsed.content # None =>
        \A pair \in ToSet(parsed.content) : Companion(request.companion, pair) = pair
=============================================================================
