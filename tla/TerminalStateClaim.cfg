SPECIFICATION WarmSpec
CONSTANTS
    Send = {1}
    MaxEpoch = 1
    Proc = {p1, p2}
    NoProc = NoProc
    Leader = p1
    Commands = {"reconcile"}
    Faults = {"crash"}
PROPERTY ClosedStaysClosed
