SPECIFICATION ServicesSpec
CONSTANTS
    Scenarios = {"child"}
    Modes = {"output"}
    Limit = 1 PipeSize = 1 InputSize = 1 MaxOutput = 2 MaxInput = 2 MaxWrites = 1 MaxFaults = 1
    Writer = {"w1", "w2"} Kinds = {"runtime", "lockfile", "image"} SizeLimit = 3 MaxOps = 3 MaxFileFaults = 2
    Secure = {"s"} Plain = {"p"} BodyLimit = 1 MaxPerOrigin = 2 MaxOrigins = 1 RedirectLimit = 2 MaxRequests = 2
    Keys = {"k1", "k2"} Handles = {1, 2, 3} Slot = 2 MessageSizes = {0, 80, 81}
    HEADER_BYTES = 16 MAX_HANDLE_BYTES = 2 COMPONENT_MESSAGE_BYTES = 100 MaxCalls = 2 MaxChanges = 2
INVARIANT OutputComplete
CHECK_DEADLOCK FALSE
