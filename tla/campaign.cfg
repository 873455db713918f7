SPECIFICATION ReportSpec
CONSTANTS
    epl = epl
    e1 = e1
    e2 = e2
    Soccer = {epl}
    Tennis = {}
    Event = {e1, e2}
    AdditionalMarkets = {"btts", "totals"}
    CorePerFamily = 2
    MinCore <- MCOneCore
    MinAdditional <- MCNoAdditional
    MinConforming = 1
    MaxAge = 1
    DayLength = 1
    Operator = {o1, o2}
    Listing <- MCListing
    History <- MCHistory
    TTL = 1
    Age <- MCAge
    MaxTime = 1
    MaxAttempts = 3
SYMMETRY MCSymmetry
CONSTRAINT MCReports
INVARIANTS
    GateIsHonest
    StatusIsHonest
    ChainHolds
    OneByOneNeverConflicts
    SpendIsBounded
CHECK_DEADLOCK FALSE
