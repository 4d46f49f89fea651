CONSTANTS
    None = None
    Rejected = Rejected
    KnownSubdirs = {"linux-64", "osx-64", "win-64"}
    MaxTargets = 3
    MaxSpecs = 2
    MaxChannels = 2
    Allowed = {"allowed", "more", "most"}
    Defaults = {"allowed"}
    Native = "linux-64"
    Available = {"linux-64", "osx-64"}
    Environments <- MCEnvironmentNames
    Targets <- MCTargets
    Channels = {"allowed", "more", "most", "foreign"}
    Packages = {"numpy", "scipy", "absent"}
    Requests <- MCRequests
SPECIFICATION Spec
INVARIANTS
    CompanionIsTheTarget
