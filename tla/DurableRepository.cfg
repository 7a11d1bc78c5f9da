SPECIFICATION Spec
CONSTANTS
    Proc = {p1, p2}
    MaxWrites = 4
INVARIANTS MemoryIsPrefix AckedSurvives CasUnchanged
