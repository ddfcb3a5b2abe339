SPECIFICATION ProxySpec
CONSTANTS
    peerA = peerA
    peerB = peerB
    peerC = peerC
    r1 = r1
    r2 = r2
    NoPeer = NoPeer
    Peer = {peerA, peerB, peerC}
    Weight <- Weights
    MaxFails <- OneFail
    MaxConns <- Conns
    Down = {}
    FailTimeout = 0
    Slots = {r1, r2}
    Blocks <- BusyBlocks
    NextUpstream = {"error", "timeout", "http_404"}
    Statuses = {"ok", "http_404"}
    Address <- Localhost
SYMMETRY SlotSymmetry
INVARIANTS PeersAccounted ConnsCounted ReachOnce BodyIntact NeverStuck
    SpliceIsFilter   DatesAgree 
PROPERTIES NeverTwice LeftAlone
CHECK_DEADLOCK FALSE
