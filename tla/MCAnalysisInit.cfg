CHECK_DEADLOCK FALSE
CONSTANT Inputs <- InitInputs
CONSTANTS Name <- AllNames Height = 12 Levels = 3
SPECIFICATION AnalysisSpec
INVARIANT InitIsLiteral
