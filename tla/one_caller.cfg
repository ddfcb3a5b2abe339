SPECIFICATION Spec
CONSTANTS
    a1 = a1
    c1 = c1
    c2 = c2
    Undefined = Undefined
    Apps <- OneApp
    Ports <- MCPorts
    Clients <- OneClient
    AddCalls <- BusAdds
    DeleteCalls <- OneDelete
    UpdateCalls <- ClassUpdates
    InitialConf <- LeftOver
    Faults <- AllFaults
    MaxVersions = 3
    MaxStarts = 2
INVARIANTS Restartable
PROPERTIES ServedForward ImplementsService
