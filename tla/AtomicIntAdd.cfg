SPECIFICATION RuntimeSpec
CONSTANTS
    Thread = {t1, t2, t3}
    Value = {a, b}
    MaxCapacity = 2
    MaxSends = 3
    MutexThread = {"t1", "t2", "t3", "t4"}
    NoThread = "nobody"
    MaxLockDepth = 2
    MaxCalls = 6
    AtomicThread = {"t1", "t2"}
    Low <- Least
    High = 1
    Delta <- Steps
    MaxWrites = 3
    Worker = {"root", "t1", "t2"}
    Root = "root"
    NoWorker = "nobody"
    MaxThreads = 2
    MaxHandles = 2
    MaxMemory = 2
    ObjectSize = {1}
    MaxSpawns = 4
    MaxTasks = 3
    MaxDepth = 3
    MaxYields = 3
    HostThread = {1, 2}
    Exporter = {1}
    Block = {1, 2, 3}
    Size = {1, 2}
    CallbackSize = 1
    MemoryLimit = 3
    DepthLimit = 2
    Registration = {1, 2}
    MaxFailures = 1
INVARIANT AddReturnsNew
CHECK_DEADLOCK FALSE
