SPECIFICATION FairSpec
CONSTANTS
    p1 = p1
    p2 = p2
    p3 = p3
    Probes <- TwoProbes
    Paths = 3
    Presents <- SomeFile
    MaxStarts = 2
PROPERTY OutageForgotten
