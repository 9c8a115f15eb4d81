CONSTANTS
    s1 = s1
    s2 = s2
    goal = goal
    sink = sink
    extra = extra
    State <- MCState
    One = 3
    Eps = 0
    Lcm = 6
    Tol = 20
    MaxDen = 9
SPECIFICATION MCSpec
INVARIANTS
    TypeOK
    OneSided
    ResidualSmall
PROPERTIES
    Terminates
CHECK_DEADLOCK FALSE
