SPECIFICATION Spec
CONSTANTS
    Proc = {p1, p2}
    Thread = {t1}
    Owner = {o1}
    NoOwner = NoOwner
    LeaseSeconds = 2
    MaxTime = 3
    MaxSteps = 1
    MaxEpoch = 2
SYMMETRY Symm
INVARIANTS TypeOK TokensOrdered OneInstancePerEpoch OnlyNewestHonoured PlannedSurvivesRenew
PROPERTIES NoEarlyTakeover ExpiryNeverShortened
