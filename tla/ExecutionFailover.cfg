SPECIFICATION WarmSpec
CONSTANTS
    Send = {1}
    MaxEpoch = 2
    Proc = {p1, p2}
    NoProc = NoProc
    Leader = p1
    Commands = {"resume"}
    Faults = {"lease", "crash", "storage", "gateway"}
INVARIANTS DurableOutcome AtMostOneOrder
