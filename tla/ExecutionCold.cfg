SPECIFICATION Spec
CONSTANTS
    Send = {1}
    MaxEpoch = 1
    Proc = {p1}
    NoProc = NoProc
    Leader = p1
    Commands = {"preview", "enable", "reconcile", "retry"}
    Faults = {"timeout", "storage"}
PROPERTIES NoOrderAfterClose DocumentSpec
