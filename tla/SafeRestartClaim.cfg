SPECIFICATION WarmSpec
CONSTANTS
    Send = {1}
    MaxEpoch = 1
    Proc = {p1}
    NoProc = NoProc
    Leader = p1
    Commands = {"stop"}
    Faults = {}
INVARIANT SafeMeansQuiet
