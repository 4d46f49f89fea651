CONSTANTS
    Clients = {c1}
    Pollers = {p1}
    Starter = starter
    Stopper = stopper
    Restarter = restarter
    None = None
    Statuses = {"ok"}
    MaxGen = 4
    MaxFaults = 2
SPECIFICATION ThreadsSpec
PROPERTIES
    ShutdownFinishes
    RequestsFinish
    EventuallyReady
