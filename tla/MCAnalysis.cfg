\* The analysis returns, with a result or an error.
CHECK_DEADLOCK FALSE
CONSTANT Inputs <- AllInputs
CONSTANTS Name <- AllNames Height = 12 Levels = 3
SPECIFICATION AnalysisSpec
INVARIANTS TypeOK ResolvedByMeaning OnlyVariablesLeft MeaningKept RejectedIsIllFormed
PROPERTY Terminates
