CONSTANTS
    Clients = {c1, c2}
    Pollers = {p1}
    Starter = starter
    Stopper = stopper
    Restarter = restarter
    None = None
    Statuses = {"ok", "error"}
    MaxGen = 4
    MaxFaults = 1
SPECIFICATION Spec
SYMMETRY ClientSymmetry
INVARIANTS
    TypeOK
    OwnReply
    OneExchange
    OneProcess
    ShutdownIsFinal
PROPERTIES
    NoSpawnAfterShutdown
