CONSTANTS
    None = None
    Text <- MCText
    ModuleName <- MCModuleName
    Ident <- MCIdent
    Label <- MCLabel
    Shape <- MCShape
    Value <- MCValue
    Models <- MCModels
    Arguments <- MCArguments
SPECIFICATION MainSpec
INVARIANTS
    ExpansionSound
    AnsweredAsAsked
\* The program ends.
CHECK_DEADLOCK FALSE
