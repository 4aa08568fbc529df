SPECIFICATION StudySpec
CONSTANTS
    Histories <- MCHistories
    Grids <- MCGrids
    Settings <- MCSettings
    Variants <- MCVariants
    VolMin = 1
    DaySecs = 3
    Fee = 1
INVARIANTS
    SelectionSeesTrainOnly
    ReportedIsSelected
    OneAccount
    MetricsAgree
    StudyRepeatsOptimizer
CHECK_DEADLOCK FALSE
