SPECIFICATION FairSpec
CONSTANTS
    p1 = p1
    p2 = p2
    p3 = p3
    Probes <- ThreeProbes
    Paths = 3
    Presents <- SomeOrNoFile
    MaxStarts = 2
INVARIANTS ExposedIsUsable
PROPERTIES PidSettles GetsExposed TroubleReported
