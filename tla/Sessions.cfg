SPECIFICATION Spec
CONSTANTS
    t1 = t1
    t2 = t2
    Users = {"u"}
    Tabs = {t1, t2}
    Jars = {"j"}
    MaxRequests = 3
    MaxSweeps = 2
    MaxFaults = 1
    NoOne = "no one"
SYMMETRY Symmetric
INVARIANTS
    OneSessionPerSignIn
    SweepEndsSessions
PROPERTY
    AlarmHasCause
CHECK_DEADLOCK FALSE
