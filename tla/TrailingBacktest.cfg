SPECIFICATION Spec
CONSTANTS
    BarKinds <- MCBarKinds
    ExitRules <- MCExitRules
    LastSec = 3
    MaxSignals = 2
    Fee = 1
INVARIANTS
    OnePosition
    StopOfHistory
    LooseTrailIsBaseline
    NoLookAhead
    ConservativeIsWorse
    HitIsProfit
CHECK_DEADLOCK FALSE
