CONSTANTS
    s1 = s1
    s2 = s2
    s3 = s3
    State <- MCState
    One = 3
    Eps = 1
    MaxK = 3
SPECIFICATION MCSpec
INVARIANTS
    TypeOK
    ZeroOutside
    AnswerIsPathProbability
PROPERTIES
    Monotone
    ImplementsRecurrence
CHECK_DEADLOCK FALSE
