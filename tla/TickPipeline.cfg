SPECIFICATION Spec
CONSTANTS
    Content = {c1, c2}
    BatchMax = 2
    Reservation = 2
    MaxSeq = 3
    MaxFaults = 3
    NoEvent = NoEvent
INVARIANTS TypeOK TicksUnique WatermarkBacked AckedStored FenceBacked Tracked BatchFits EvidenceAnchored
PROPERTIES NothingLost AckedAgain MeasuredAgain
CHECK_DEADLOCK FALSE
