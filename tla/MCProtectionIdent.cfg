CONSTANTS
    Fn <- MCFnLosing
    Name <- MCNameLosing
    Body <- LosingBodies
    Fresh <- MCFreshLosing
SPECIFICATION Spec
INVARIANTS
    RootsIntact
CHECK_DEADLOCK FALSE
