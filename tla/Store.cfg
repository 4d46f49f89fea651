CONSTANTS
    Callers = {a, b}
    Cleaner = cleaner
    Keys = {k}
    Values = {v, w}
    Absent = Absent
    NoCaller = NoCaller
SPECIFICATION FairSpec
INVARIANTS
    TypeOK
    DrainedOnExit
PROPERTIES
    ServesInOrder
    BufferedIsApplied
    CallersReturn
