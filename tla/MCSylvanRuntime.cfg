CONSTANTS
    Thread = {t1, t2, t3}
    NoThread = none
    MaxJobs = 2
    MaxLocals = 2
    Fields = 2
SPECIFICATION RuntimeSpec
INVARIANTS
    RuntimeTypeOK
    Serialized
    StartedOnce
    RootsReturned
PROPERTIES
    Served
CHECK_DEADLOCK FALSE
