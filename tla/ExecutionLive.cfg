SPECIFICATION LiveSpec
CONSTANTS
    Send = {1}
    MaxEpoch = 1
    Proc = {p1}
    NoProc = NoProc
    Leader = p1
    Commands = {"revoke", "reconcile"}
    Faults = {"timeout"}
PROPERTIES OperationsEnd RevokeDisarms
