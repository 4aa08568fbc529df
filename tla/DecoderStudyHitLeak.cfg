SPECIFICATION Spec
CONSTANTS
    Programs = {"PFD", "LTFI", "OBI"}
    Prices = {1, 3}
    Scores <- MCScores
    Bars = 5
    TrainBars = 4
    DayBars = 2
    Horizon = 1
    Target = 2
    Stop = 1
    Fees = 0
    Sigma = 2
    MinRows = 1
INVARIANT
    ChosenOnTrain
CHECK_DEADLOCK FALSE
