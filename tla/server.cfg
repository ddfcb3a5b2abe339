SPECIFICATION ServerSpec
CONSTANTS
    p1 = p1
    p2 = p2
    Proc = {p1, p2}
    Master = Master
    Free = Free
    MaxCrashes = 1
    NoPid = NoPid
    InvalidPid = InvalidPid
    L = L
    c1 = c1
    c2 = c2
    NoConn = NoConn
    h1 = h1
    h2 = h2
    task1 = task1
    task2 = task2
    task3 = task3
    ExitTask = ExitTask
INVARIANTS MutualExclusion NoLostWakeup WorkersAccounted
    ConnectionsAccounted EventsDelivered WaitsBounded TasksAccounted TimersKept MemoryAccounted
PROPERTIES ReloadKeeps
CHECK_DEADLOCK FALSE
