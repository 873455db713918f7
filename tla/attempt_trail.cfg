CONSTANTS
    Process = {p1, p2}
    Attempt = {a1, a2}
    Key = {k1, k2}
    NoAttempt = NoAttempt
    NoKey = NoKey
    NoName = NoName
    Absent = Absent
    Name <- TrailNames
    Body <- TrailBodies
    MaxCrashes = 1
SYMMETRY MCSymmetry
SPECIFICATION Spec
INVARIANTS
    Witnessed
    OneKey
    ResolvedOnce
PROPERTY KeepsRecord
