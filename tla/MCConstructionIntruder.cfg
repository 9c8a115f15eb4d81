CONSTANTS
    Module <- MCModule
    Var <- MCVar
    Owner <- MCOwner
    Lo <- MCLo
    Hi <- MCHi
    Default <- MCDefault
    NoLabel = "none"
    One = 2
    Eps = 0
    Model <- MCModelIntruder
SPECIFICATION Spec
INVARIANTS
    ImplicitLabelUnique
CHECK_DEADLOCK FALSE
