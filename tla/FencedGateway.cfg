SPECIFICATION GatewaySpec
CONSTANTS
    Send = {s1}
    MaxEpoch = 2
    Proc = {gw, peer}
    GatewayProc = gw
    None = None
    MaxWrites = 3
INVARIANTS GenerationsUnique AckedUnlessRolledBack
PROPERTIES ImplementsFence
CHECK_DEADLOCK FALSE
