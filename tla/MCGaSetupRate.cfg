SPECIFICATION MCSpec
CONSTANTS
    Parts = {"setup"}
    Chroms = {"a", "b", "c", "d"}
    Functions = {"f1", "f2", "fd"}
    Dynamic = {"fd"}
    Fit <- MCFit
    Violation <- MCViolation
    RepairOf <- MCRepairOf
    Settings <- MCSettings
    MaxGens = {4}
    Unset = Unset
    SuLengths = {1, 2}
    SuDefaultRate <- MCDefaultRate
    SuRates = {7}
    SuPopSizes = {1, 2}
    SuMaxCalls = 3
INVARIANT
    RateIsDeduced
CHECK_DEADLOCK FALSE
