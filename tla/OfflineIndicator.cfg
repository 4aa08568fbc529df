SPECIFICATION Spec
CONSTANTS
    Prices = {1, 3}
    MaxVolume = 1
    MaxIntervals = 6
    WindowSize = 2
    Sigma = 2
    ConfirmIntervals = 1
    VolWindowSize = 2
    VolRatioMin = 80
    VolRatioMax = 120
    MaxRecorded = 5
    Filters <- MCFilters
INVARIANTS
    SignalOfHistory
    NothingFromNaN
PROPERTIES
    NoWhipsaw
    NoRepaint
