CONSTANTS
    Fn <- MCFn
    Name <- MCName
    Body <- Bodies
    Fresh <- MCFresh
SPECIFICATION Spec
INVARIANTS
    TypeOK
    ArgumentsIntact
    RootsIntact
    Convention
CHECK_DEADLOCK FALSE
