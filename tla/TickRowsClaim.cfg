SPECIFICATION Spec
CONSTANTS
    Content = {c1, c2}
    BatchMax = 2
    Reservation = 2
    MaxSeq = 3
    MaxFaults = 1
    NoEvent = NoEvent
INVARIANT RowsJournaled
CHECK_DEADLOCK FALSE
