CONSTANTS
    State = {s1, s2, s3}
    One = 3
    Eps = 1
SPECIFICATION Spec
INVARIANTS
    TypeOK
    ReachableExact
    SupportAgrees
    RowsStochastic
    IterationBound
PROPERTIES
    DistributionKept
    Terminates
CHECK_DEADLOCK FALSE
