SPECIFICATION CompilerSpec
CONSTANTS
    Scenarios = {"function"}
    Family = {"copied_references"}
INVARIANT ReferencesHold
CHECK_DEADLOCK FALSE
