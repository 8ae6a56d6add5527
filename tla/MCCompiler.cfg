SPECIFICATION CompilerSpec
CONSTANTS
    Scenarios = {"builtin", "function", "image", "match", "packages", "modules"}
    Family = {"lines", "branches", "loops", "jumps", "references", "collections", "options", "fallible"}
INVARIANTS
    TypesOK
    CallsAgree 
    NoMovedRead ReferencesHold  BackendsAgree
    ImagesAgree MatchesAgree
    PackagesExact ModulesExact
CHECK_DEADLOCK FALSE
