SPECIFICATION ProgressSpec
CONSTANTS
    peerA = peerA
    peerB = peerB
    peerC = peerC
    r1 = r1
    r2 = r2
    NoPeer = NoPeer
    Peer = {peerA, peerB}
    Weight <- Weights
    MaxFails <- OneFail
    MaxConns <- Conns
    Down = {}
    FailTimeout = 1
    Slots = {r1}
    Blocks <- OtherBlocks
    NextUpstream = {"error", "timeout"}
    Statuses = {"ok"}
    Address <- Localhost
    NoPid = NoPid
    InvalidPid = InvalidPid
    L = L
    c1 = c1
    c2 = c2
    NoConn = NoConn
    h1 = h1
    h2 = h2
    task1 = task1
    task2 = task2
    ExitTask = ExitTask
PROPERTIES RequestsEnd ProcessesSettle WorkerFinishes
CHECK_DEADLOCK FALSE
