-------------------------- MODULE WorkspaceTargets --------------------------
(***************************************************************************)
(* Environments and logical targets of a workspace: how the selectors of a *)
(* request are matched against a manifest (WorkspaceInput, workspace.py)   *)
(* or a saved lock (WorkspaceLockInput, workspace_lock.py), and which      *)
(* selections an output format can represent.  A logical target has a name *)
(* and a concrete conda subdir; several targets may share a subdir, and a  *)
(* target may have the name of a subdir, its own or not.                   *)
(*                                                                         *)
(* A document is a record                                                  *)
(*   names     the environments, in order                                  *)
(*   targets   the targets of each environment, in order, none of them     *)
(*             twice: dict.fromkeys of those of a manifest, the keys of a  *)
(*             lock                                                        *)
(*   subdir    the subdir of every name a target may have                  *)
(*   channels  the channels of a target, in order                          *)
(*   roots     the direct dependencies of each environment, and the        *)
(*             channels that each of them names                            *)
(*   bad       environments whose requirements cannot be composed          *)
(*   pypi      environments with PyPI requirements                         *)
(*   archspec  environments that require an archspec of their system       *)
(* and a lock also has                                                     *)
(*   records   whether the records of a saved target satisfy the manifest: *)
(*             "good" or "stale"                                           *)
(*   malformed whether the requirements of some record are malformed       *)
(***************************************************************************)
EXTENDS Naturals, Sequences, FiniteSets, SequencesExt

CONSTANTS
    Environments,  \* names of environments
    Targets,       \* names of targets
    Channels,      \* the channels that may be named
    Packages,      \* the packages that may be direct dependencies
    KnownSubdirs,
    MaxTargets,    \* CONDA_PRESTO_MAX_PLATFORMS
    MaxSpecs,      \* CONDA_PRESTO_MAX_SPECS
    MaxChannels,   \* CONDA_PRESTO_MAX_CHANNELS
    None,          \* a selector that is not given; a subdir that is not known
    Rejected       \* the ValueError of a selection that is refused

Pairs == Environments \X Targets

\* What the parsers of manifests and locks make of a file.
IsDocument(doc) ==
    /\ doc.names \in Seq(Environments)
    /\ doc.targets \in [ToSet(doc.names) -> Seq(Targets)]
    /\ "subdir" \in DOMAIN doc /\ DOMAIN doc.subdir = Targets
    /\ doc.channels \in [ToSet(doc.names) \X Targets -> Seq(Channels)]
    /\ \A n \in ToSet(doc.names) :
          /\ DOMAIN doc.roots[n] \subseteq Packages /\ IsFiniteSet(DOMAIN doc.roots[n])
          /\ \A p \in DOMAIN doc.roots[n] : doc.roots[n][p] \subseteq Channels

\* The output formats that the code tells apart.
Lockfiles == {"workspace-lock", "ordinary-lock"}
Multiplatform == {"workspace-lock", "ordinary-lock", "toml"}
Formats == Lockfiles \cup Multiplatform \cup {"yaml", "cyclonedx"}

-----------------------------------------------------------------------------
(* Selection.                                                               *)

Added(seen, x) == IF x \in ToSet(seen) THEN seen ELSE Append(seen, x)

\* dict.fromkeys
Distinct(s) ==
    LET seen[n \in 0..Len(s)] == IF n = 0 THEN <<>> ELSE Added(seen[n - 1], s[n])
    IN seen[Len(s)]

\* Mutant: one of several targets with the subdir is taken.
NamedFirst(doc, name, requested) ==
    LET declared == ToSet(doc.targets[name])
        sharing  == {t \in declared : doc.subdir[t] = requested}
    IN IF requested \in declared THEN {requested}
       ELSE {t \in sharing : t = CHOOSE u \in sharing : TRUE}

\* The targets of an environment that a requested platform names: the one with
\* that name, else those with that subdir.
Named(doc, name, requested) ==
    LET declared == ToSet(doc.targets[name])
    IN IF requested \in declared THEN {requested}
       ELSE {t \in declared : doc.subdir[t] = requested}

\* One round of the inner loop of from_config: an environment and a platform
\* requested for it.  One that declares no platforms takes a conda subdir.
ManifestPlanned(doc, plans, pair) ==
    LET matches == IF doc.targets[pair[1]] = <<>> THEN {pair[2]}
                   ELSE Named(doc, pair[1], pair[2])
        target  == CHOOSE t \in matches : TRUE
        more    == Added(plans, <<pair[1], target>>)
    IN IF \/ plans = Rejected
          \/ Cardinality(matches) # 1
          \/ doc.subdir[target] \notin KnownSubdirs
          \/ Len(more) > MaxTargets
       THEN Rejected
       ELSE more

\* The loop.
ManifestPlans(doc, requested) ==
    LET plans[n \in 0..Len(requested)] ==
            IF n = 0 THEN <<>> ELSE ManifestPlanned(doc, plans[n - 1], requested[n])
    IN plans[Len(requested)]

\* The rounds for one environment, by default for each of its targets.
Asked(doc, name, platforms) ==
    LET asked == IF platforms = None THEN doc.targets[name] ELSE platforms
    IN [j \in 1..Len(asked) |-> <<name, asked[j]>>]

\* The pairs that the nested loops of the selections go through.
Requested(doc, names, platforms) ==
    FlattenSeq([i \in 1..Len(names) |-> Asked(doc, names[i], platforms)])

\* The direct conda dependencies of a target.
Dependencies(doc, pair) == DOMAIN doc.roots[pair[1]]

\* target(): its requirements can be composed, and are not too many.
Composes(doc, pair) ==
    /\ pair[1] \notin doc.bad
    /\ Cardinality(Dependencies(doc, pair)) <= MaxSpecs
    /\ Len(doc.channels[pair]) <= MaxChannels

\* Mutant: only those of the target.
SolveChannelsDeclared(doc, pair, packages) == ToSet(doc.channels[pair])

\* solve_channels: those of the target, and those that all its dependencies
\* name, or only the packages that are updated.
SolveChannels(doc, pair, packages) ==
    ToSet(doc.channels[pair]) \cup UNION {doc.roots[pair[1]][p] : p \in packages}

\* from_config, and target() for each pair it selects.
ManifestSelection(doc, environments, platforms) ==
    LET names == Distinct(IF environments = None THEN doc.names ELSE environments)
        plans == ManifestPlans(doc, Requested(doc, names, platforms))
    IN IF environments = None /\ platforms = None THEN <<>>
       ELSE IF \/ environments = <<>> \/ platforms = <<>>
               \/ ~(ToSet(names) \subseteq ToSet(doc.names))
               \/ platforms = None /\ \E n \in ToSet(names) : doc.targets[n] = <<>>
               \/ plans = Rejected
               \/ \E pair \in ToSet(plans) : ~Composes(doc, pair)
            THEN Rejected
            ELSE plans

\* select(): all environments, and all their targets, unless told otherwise.
Select(doc, environments, platforms) ==
    ManifestSelection(doc, IF environments = None THEN doc.names ELSE environments,
                      platforms)

\* Mutant: a target that is selected twice is planned twice.
LockPlannedAgain(doc, plans, pair) ==
    LET matches == Named(doc, pair[1], pair[2])
    IN IF plans = Rejected \/ Cardinality(matches) # 1 THEN Rejected
       ELSE Append(plans, <<pair[1], CHOOSE t \in matches : TRUE>>)

\* One round of the loops of from_path.
LockPlanned(doc, plans, pair) ==
    LET matches == Named(doc, pair[1], pair[2])
    IN IF plans = Rejected \/ Cardinality(matches) # 1 THEN Rejected
       ELSE Added(plans, <<pair[1], CHOOSE t \in matches : TRUE>>)

LockPlans(doc, requested) ==
    LET plans[n \in 0..Len(requested)] ==
            IF n = 0 THEN <<>> ELSE LockPlanned(doc, plans[n - 1], requested[n])
    IN plans[Len(requested)]

\* The saved targets have more channels than a lock may have.
TooManyChannels(doc, pairs) ==
    Cardinality(UNION {ToSet(doc.channels[p]) : p \in pairs}) > MaxChannels

\* from_path of a lock.  `all` is select_all: export and update use what is
\* selected by default, discovery does not; `empty` is allow_empty, with which
\* the channels of all that is saved count.
LockSelection(doc, environments, platforms, all, empty) ==
    LET names == Distinct(IF environments = None THEN doc.names ELSE environments)
        plans == LockPlans(doc, Requested(doc, names, platforms))
    IN IF \/ (names = <<>> /\ ~empty) \/ platforms = <<>>
          \/ ~(ToSet(names) \subseteq ToSet(doc.names))
          \/ plans = Rejected
          \/ Len(plans) > MaxTargets
          \/ TooManyChannels(doc, IF empty THEN DOMAIN doc.records ELSE ToSet(plans))
       THEN Rejected
       ELSE IF all \/ environments # None \/ platforms # None THEN plans ELSE <<>>

-----------------------------------------------------------------------------
(* Outputs.                                                                 *)

SubdirsOf(doc, selected) == {doc.subdir[p[2]] : p \in ToSet(selected)}

\* Mutant: targets that share a subdir are combined.
RepresentsLoosely(doc, selected, format) ==
    /\ Cardinality({p[1] : p \in ToSet(selected)}) = 1
    /\ format \in Multiplatform \/ Len(selected) = 1

\* One document holds one environment, and a subdir at most once.
Represents(doc, selected, format) ==
    /\ Cardinality({p[1] : p \in ToSet(selected)}) = 1
    /\ Cardinality(SubdirsOf(doc, selected)) = Len(selected)
    /\ format \in Multiplatform \/ Len(selected) = 1

\* validate_output
ValidOutput(doc, selected, format) ==
    format = None \/
    /\ format = "workspace-lock" \/ Represents(doc, selected, format)
    /\ \A p, q \in ToSet(selected) : p[1] = q[1] => doc.channels[p] = doc.channels[q]

\* export(): declarations are rendered without a solve.
ExportsManifest(doc, selected, format) ==
    /\ format \notin Lockfiles
    /\ format \in Multiplatform \/ Len(selected) = 1
    /\ ValidOutput(doc, selected, format)

\* environment(): the declared target whose requirements and channels are
\* compared with the records of a saved target, if any is.
Companion(manifest, pair) ==
    IF manifest = None THEN None
    ELSE LET found == Select(manifest, <<pair[1]>>, <<pair[2]>>)
         IN IF found = Rejected THEN Rejected ELSE found[1]

\* Whether environment() accepts a saved target.
Loads(lock, manifest, pair) ==
    LET declared == Companion(manifest, pair)
    IN IF manifest = None THEN lock.subdir[pair[2]] # None
       ELSE /\ declared # Rejected
            /\ lock.subdir[pair[2]] \in {None, manifest.subdir[declared[2]]}
            /\ pair[1] \notin manifest.pypi
            /\ manifest.channels[declared] = lock.channels[pair]
            /\ lock.records[pair] = "good"

\* The lock with the subdirs that its companion supplies.
Resolved(lock, manifest) ==
    [lock EXCEPT !.subdir = [t \in DOMAIN lock.subdir |->
        IF lock.subdir[t] # None \/ manifest = None THEN lock.subdir[t]
        ELSE manifest.subdir[t]]]

\* render(): saved entries are extracted, or exported as environments.
RendersLock(lock, manifest, selected, format) ==
    /\ selected # <<>>
    /\ IF format = "workspace-lock" THEN manifest = None
       ELSE /\ format # "ordinary-lock"
            /\ \A p \in ToSet(selected) : Loads(lock, manifest, p)
            /\ Represents(Resolved(lock, manifest), selected, format)

\* render_each(): a document of its own for every selected target.
RendersEach(lock, manifest, selected, format) ==
    /\ format \notin Lockfiles
    /\ selected # <<>>
    /\ \A p \in ToSet(selected) : Loads(lock, manifest, p)

-----------------------------------------------------------------------------
(* Consistency and updates.                                                 *)

\* check_consistency() refuses what it cannot check, and reports the rest.
CheckConsistency(lock, manifest) ==
    LET declared == Select(manifest, None, None)
    IN IF \/ declared \in {Rejected, <<>>}
          \/ \E p \in ToSet(declared) : p[1] \in manifest.pypi \cup manifest.archspec
          \/ lock.malformed
       THEN Rejected
       ELSE {p \in ToSet(declared) :
                p \notin DOMAIN lock.records \/ lock.records[p] # "good"}

\* prepare_update(): the target to update, from a baseline that is consistent,
\* which has records of all its direct dependencies.
PrepareUpdate(lock, manifest, pair, packages) ==
    LET target == Companion(manifest, pair)
    IN IF \/ CheckConsistency(lock, manifest) # {}
          \/ Len(packages) > MaxSpecs
          \/ target = Rejected
          \/ target # pair
          \/ ~(ToSet(packages) \subseteq Dependencies(manifest, target))
       THEN Rejected
       ELSE target
=============================================================================
