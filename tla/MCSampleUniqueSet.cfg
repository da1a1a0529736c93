SPECIFICATION MCSpec
CONSTANTS
    Parts = {"sampling"}
    k1 = k1
    k2 = k2
    k3 = k3
    k4 = k4
    Keys = {k1, k2, k3, k4}
    Values = {1, 2}
    Capacities = {0, 1, 2, 3}
    MaxRange = 2
    Vacant = Vacant
    Vector = {1, 2}
    InlineSize = 2
    NumValues = 2
    MaxSize = 4
    MaxSource = 2
    MaxFailure = 6
    MaxCalls = 4
    BlockSize = 3
    MaxBits = 7
    MxValues = {0, 1}
    MxDefault = 0
    MxMaxRows = 3
    MxMaxCols = 2
    HugeRange = 4
    SampleRange = 5
    MaxNumber = 3
    MaxLength = 4
    NumGenes <- MCNumGenes
    MaxGene = 2
    RangeMax = {0, 75}
    MutationRates = {0, 50}
    MaxPoints = 3
INVARIANT
    SampleIsUnique
CHECK_DEADLOCK FALSE
