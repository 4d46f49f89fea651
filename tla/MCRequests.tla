----------------------------- MODULE MCRequests -----------------------------
(* Small instances of Requests for TLC.  The targets of the documents have   *)
(* names of their own, the name of their subdir, or the name of another one; *)
(* two of them share a subdir.  A document has two environments, whose       *)
(* targets have the same channels unless it says otherwise.                  *)
EXTENDS Requests

MCEnvironmentNames == {"test", "docs", "other"}

MCTargets == {"linux-64", "gpu", "cuda", "osx-64", "win-64", "odd"}

MCSubdir == [t \in MCTargets |-> CASE t \in {"gpu", "cuda"} -> "linux-64"
                                   [] OTHER              -> t]

Doc(test, docs) ==
    LET targets == [n \in {"test", "docs"} |-> IF n = "test" THEN test ELSE docs]
        pairs   == {"test", "docs"} \X MCTargets
    IN [names    |-> <<"test", "docs">>, targets |-> targets, subdir |-> MCSubdir,
        channels |-> [p \in pairs |-> <<"allowed">>],
        roots    |-> [n \in {"test", "docs"} |-> [p \in {"numpy"} |-> {}]],
        bad      |-> {}, pypi |-> {}, archspec |-> {}, malformed |-> FALSE,
        records  |-> [p \in {q \in pairs : q[2] \in ToSet(targets[q[1]])} |-> "good"]]

Channeled(doc, name, channels) ==
    [doc EXCEPT !.channels = [p \in DOMAIN @ |-> IF p[1] = name THEN channels ELSE @[p]]]

\* The dependencies of one environment name channels of their own.
Rooted(doc, name, roots) == [doc EXCEPT !.roots[name] = roots]

Plain   == Doc(<<"linux-64", "osx-64">>, <<"osx-64", "linux-64">>)
Variant == Doc(<<"gpu">>, <<"gpu", "osx-64">>)
Shared  == Doc(<<"gpu", "linux-64">>, <<"gpu", "cuda">>)

ForeignScipy ==
    [p \in {"numpy", "scipy"} |-> IF p = "scipy" THEN {"foreign"} ELSE {"allowed"}]

Manifests ==
    {Plain, [Variant EXCEPT !.bad = {"docs"}], Shared, Doc(<<"odd", "osx-64">>, <<>>),
     [Variant EXCEPT !.channels[<<"docs", "osx-64">>] = <<"more", "allowed">>]}

\* Too many channels for a lock, though not for one target.
Colorful == Channeled(Channeled(Variant, "test", <<"allowed", "more">>), "docs", <<"most">>)

\* One of the dependencies names a channel that is not allowed; a target has too
\* many channels, or its dependencies name too many, or there are too many.
Limited ==
    {Rooted(Variant, "test", ForeignScipy), Colorful,
     Rooted(Channeled(Variant, "docs", <<"allowed", "more", "most">>), "test",
            [p \in {"numpy", "scipy"} |-> IF p = "scipy" THEN {"more", "most"} ELSE {}]),
     Rooted(Variant, "docs", [p \in {"numpy", "scipy", "absent"} |-> {}])}

Companions == {Plain, Variant, [Variant EXCEPT !.pypi = {"docs"}]}

Locks ==
    {Plain, Shared, [Plain EXCEPT !.records[<<"docs", "linux-64">>] = "stale"],
     [Variant EXCEPT !.subdir["gpu"] = None]}

LimitedLocks == {Colorful, [Variant EXCEPT !.malformed = TRUE]}

Base == [cli |-> FALSE, operation |-> "resolve", file |-> "none", doc |-> None,
         companion |-> None, format |-> None, specs |-> None, querySpecs |-> 0,
         channels |-> {}, fileChannels |-> {}, platforms |-> None,
         environments |-> None, packages |-> <<>>]

Undocumented == {[Base EXCEPT !.file = f] : f \in {"none", "environment", "ordinary-lock"}}

Files(kind, docs) == {[Base EXCEPT !.file = kind, !.doc = d] : d \in docs}

Locked == Files("lock", Locks)

Documents == Locked \cup Files("manifest", Manifests)

\* The files again, from a client of the server and from the command line, which
\* does not transcode, or answer with SBOMs.
FromClients(files, operations) ==
    {[f EXCEPT !.cli = FALSE, !.operation = o] : f \in files, o \in operations}
    \cup {[f EXCEPT !.cli = TRUE, !.operation = o] :
             f \in files, o \in operations \ {"transcode", "sbom"}}

\* Selectors that repeat, reorder, alias or miss targets and environments.  An
\* unknown environment, or an empty list, does not need every other selector.
MCSelectors ==
    [platforms : {None, <<>>, <<"linux-64">>, <<"gpu", "linux-64">>,
                  <<"osx-64", "linux-64", "osx-64">>,
                  <<"osx-64", "linux-64", "win-64">>, <<"odd">>},
     environments : {None, <<"test">>, <<"docs", "test", "docs">>}]
    \cup [platforms : {None, <<"linux-64">>}, environments : {<<>>, <<"other">>}]

\* Every document with every selector; "yaml" stands for "cyclonedx" too.
Selecting ==
    {[r EXCEPT !.platforms = s.platforms, !.environments = s.environments, !.format = t] :
        r \in FromClients(Documents, {"resolve", "export"}), s \in MCSelectors,
        t \in {None} \cup (Formats \ {"cyclonedx"})}
    \cup {[r EXCEPT !.platforms = s.platforms, !.environments = s.environments] :
             r \in FromClients(Documents, {"parse", "sbom"}), s \in MCSelectors}

\* Documents at the limits of channels and dependencies.
Limiting ==
    {[r EXCEPT !.platforms = p, !.environments = e] :
        r \in FromClients(Files("manifest", Limited) \cup Files("lock", LimitedLocks),
                          {"resolve", "parse"}),
        p \in {None, <<"gpu">>}, e \in {None, <<"test">>, <<"docs">>}}

\* Files without environments or targets of their own.
Platforming ==
    {[r EXCEPT !.platforms = p, !.environments = e, !.format = t] :
        r \in FromClients(Undocumented, {"resolve", "export", "parse", "sbom"}),
        p \in {None, <<>>, <<"linux-64">>, <<"osx-64", "linux-64", "osx-64">>,
               <<"osx-64", "linux-64", "win-64">>, <<"odd">>},
        e \in {None, <<>>, <<"test">>},
        t \in {None, "ordinary-lock", "yaml"}}

\* Requirements and channels of the body, the query and the file.
Requiring ==
    {[r EXCEPT !.specs = n[1], !.querySpecs = n[2], !.channels = c, !.platforms = p,
               !.fileChannels = {"foreign"}, !.format = t] :
        r \in FromClients(Undocumented \cup {f \in Documents : f.doc = Plain},
                          {"resolve", "export", "transcode", "sbom"}),
        n \in {<<None, 0>>, <<None, 1>>, <<0, 1>>, <<1, 0>>, <<2, 1>>},
        c \in {{}, {"allowed"}, {"foreign"}, {"allowed", "more", "most"}},
        p \in {None, <<"linux-64", "linux-64">>}, t \in {None, "ordinary-lock"}}

\* A lock with the manifest that it belongs to, or another one.
Accompanied ==
    {[r EXCEPT !.companion = m, !.format = t, !.environments = e, !.platforms = p] :
        r \in FromClients(Locked, {"export", "transcode"}), m \in {None} \cup Companions,
        t \in {"cyclonedx", "workspace-lock"},
        e \in {None, <<"test">>, <<"docs">>}, p \in {None, <<"linux-64">>, <<"gpu">>}}
    \cup {[r EXCEPT !.companion = m, !.environments = e, !.platforms = p] :
        r \in FromClients(Locked, {"sbom"}), m \in {None} \cup Companions,
        e \in {None, <<"test">>, <<"docs">>}, p \in {None, <<"linux-64">>, <<"gpu">>}}
    \cup {[r EXCEPT !.companion = m, !.environments = e, !.format = t] :
        r \in FromClients(Locked \cup Undocumented, {"export", "validate"}),
        m \in {None} \cup Companions,
        e \in {None, <<"test">>}, t \in {None, "workspace-lock"}}

\* Updates of each target.
Updating ==
    {[r EXCEPT !.companion = m, !.packages = <<"numpy">>,
               !.environments = <<e>>, !.platforms = <<p>>] :
        r \in FromClients(Locked \cup {[Base EXCEPT !.file = "ordinary-lock"]}, {"update"}),
        m \in {None} \cup Companions,
        e \in {"test", "docs"}, p \in {"linux-64", "gpu", "osx-64"}}

\* Updates of a dependency that names no channel, while another one names a
\* channel that is not allowed, of the other one, of too many, of one that is
\* not declared, and of none.
Rooting ==
    {[r EXCEPT !.companion = m, !.packages = n,
               !.environments = <<"test">>, !.platforms = <<"gpu">>] :
        r \in FromClients(Files("lock", {Variant} \cup LimitedLocks), {"update"}),
        m \in {Rooted(Variant, "test", ForeignScipy),
               [Variant EXCEPT !.archspec = {"docs"}]},
        n \in {<<>>, <<"numpy">>, <<"scipy">>, <<"numpy", "scipy", "numpy">>,
               <<"absent">>}}

MCRequests ==
    Selecting \cup Limiting \cup Platforming \cup Requiring \cup Accompanied
    \cup Updating \cup Rooting
=============================================================================
