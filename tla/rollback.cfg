SPECIFICATION Spec
CONSTANTS
    Pids = {1, 2, 3}
    NWorkers = 1
    Signals = {"HUP", "QUIT", "WINCH", "USR2"}
    MaxSignals = 4
    MaxFaults = 0
    NoPid = NoPid
    InvalidPid = InvalidPid
INVARIANT ExitsLastAlways
CHECK_DEADLOCK FALSE
