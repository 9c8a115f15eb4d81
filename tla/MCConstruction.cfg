CONSTANTS
    Module <- MCModule
    Var <- MCVar
    Owner <- MCOwner
    Lo <- MCLo
    Hi <- MCHi
    Default <- MCDefault
    NoLabel = "none"
    One = 2
    Eps = 0
    Model <- MCModel
SPECIFICATION Spec
INVARIANTS
    TypeOK
    UniformChoice
    SupportExact
CHECK_DEADLOCK FALSE
