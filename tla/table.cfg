SPECIFICATION Spec
CONSTANTS
    a1 = a1
    a2 = a2
    Undefined = Undefined
    Apps <- MCApps
    Ports <- MCPorts
    AddCalls <- GoodAdds
    DeleteCalls <- GoodDeletes
    UpdateCalls <- GoodUpdates
INVARIANTS NoBackendTwice AcceptedByNginx
PROPERTIES HandoverKeepsOneGeneration
