SPECIFICATION WarmSpec
CONSTANTS
    Send = {1}
    MaxEpoch = 2
    Proc = {p1}
    NoProc = NoProc
    Leader = p1
    Commands = {"revoke", "reconcile"}
    Faults = {"storage", "gateway", "lease", "crash"}
INVARIANTS DurableOutcome TerminalMeansGone UnknownAccounted
PROPERTY NoOrderAfterClose
