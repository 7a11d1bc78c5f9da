SPECIFICATION WarmSpec
CONSTANTS
    Send = {1, 2}
    MaxEpoch = 1
    Proc = {p1}
    NoProc = NoProc
    Leader = p1
    Commands = {"stop", "drain"}
    Faults = {"timeout", "renew", "conflict", "expiry"}
INVARIANTS TypeOK TerminalMeansGone AtMostOneOrder

