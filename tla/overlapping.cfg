SPECIFICATION FairSpec
CONSTANTS
    a1 = a1
    c1 = c1
    c2 = c2
    Undefined = Undefined
    Apps <- OneApp
    Ports <- MCPorts
    Clients <- TwoClients
    AddCalls <- BusAdds
    DeleteCalls <- OneDelete
    UpdateCalls <- NoCalls
    InitialConf <- LeftOver
    Faults <- AllFaults
    MaxVersions = 3
    MaxStarts = 2
INVARIANTS TypeOK NoMissedReload SettledFile
PROPERTIES EveryCallAnswered Converges
