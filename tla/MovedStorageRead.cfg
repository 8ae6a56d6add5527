SPECIFICATION CompilerSpec
CONSTANTS
    Scenarios = {"function"}
    Family = {"jumps_after_moves"}
INVARIANT NoMovedRead
CHECK_DEADLOCK FALSE
