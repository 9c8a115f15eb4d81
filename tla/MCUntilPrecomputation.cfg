CONSTANTS
    s1 = s1
    s2 = s2
    s3 = s3
    s4 = s4
    State <- MCState
SPECIFICATION MCSpec
INVARIANTS
    TypeOK
    NoTrap
PROPERTIES
    Terminates
    ImplementsQualitativeUntil
CHECK_DEADLOCK FALSE
