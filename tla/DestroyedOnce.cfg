SPECIFICATION CompilerSpec
CONSTANTS
    Scenarios = {"function"}
    Family = {"fallible_arguments"}
INVARIANT ValuesDestroyedOnce
CHECK_DEADLOCK FALSE
