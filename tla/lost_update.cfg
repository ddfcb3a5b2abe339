SPECIFICATION Spec
CONSTANTS
    a1 = a1
    c1 = c1
    c2 = c2
    Undefined = Undefined
    Apps <- OneApp
    Ports <- MCPorts
    Clients <- TwoClients
    AddCalls <- BusAdds
    DeleteCalls <- OneDelete
    UpdateCalls <- NoCalls
    InitialConf <- LeftOver
    Faults <- NoFaults
    MaxVersions = 2
    MaxStarts = 1
INVARIANT FileFollowsTable
