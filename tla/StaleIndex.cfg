CONSTANTS
    Handlers = {h1, h2}
    linux = linux
    osx = osx
    Keys = {linux, osx}
    Requests <- MCPoolRequests
    Main = main
    Pool = {p1, p2}
    MaxIndexes = 1
    MaxResults = 1
    MaxContent = 2
    NoProcess = NoProcess
SPECIFICATION Spec
SYMMETRY HandlerSymmetry
INVARIANTS
    RetainedIsExact
