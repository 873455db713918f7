SPECIFICATION Spec
CONSTANTS
    SportKeys = {"nba", "epl", "atp"}
    SportOf <- MCSportOf
    Allowlist <- MCAllowlist
    Bookmakers = {"win"}
    Catalogues <- MCCatalogues
    Answers <- MCAnswers
    ExtraAnswers <- MCExtraAnswers
    DayBudget = 9
    ScanBudget = 7
    WindowHours = 10
    Charges = {3, 8}
    MaxOthers = 1
    Settings <- MCSettings
    Predictions <- MCPredictions
    Deployments <- MCDeployments
    InternalId <- MCInternalId
    ManualFiles <- MCFiles
    DemoWorld <- MCDemoWorld
    ModelStatus <- MCModelStatus
    FirstInstant = 10
    LastInstant = 11
    MaxRuns = 2
INVARIANTS
    CoverageIsHonest
    StoreIsAttributed
    NothingDropped
    PublishedIsSafe
    MilestoneFindsItsEvent
CHECK_DEADLOCK FALSE
