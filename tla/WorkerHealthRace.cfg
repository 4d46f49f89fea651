CONSTANTS
    Clients = {c1}
    Pollers = {p1}
    Starter = starter
    Stopper = stopper
    Restarter = restarter
    None = None
    Statuses = {"ok"}
    MaxGen = 3
    MaxFaults = 2
SPECIFICATION Spec
INVARIANTS
    HealthAnswers
