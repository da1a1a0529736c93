SPECIFICATION MCSpec
CONSTANTS
    Parts = {"fronts", "stop", "metrics"}
    NumObjectives = 2
    Fitness <- MCFitness
    Tolerance = 0
    MaxLen = 5
    Trees <- MCTrees
    Matrices <- MCMatrices
    NewEvals = {0, 1}
    NumObj = 2
    MaxGen = 5
    Delta = 1
    Lowest <- MCLowest
    MtMatrices <- MCPopulations
    MtRefPoint <- MCRefPoint
    MtInfinity = 3
    MtMaxGen = 2
INVARIANTS
    RanksAreExact
    FrontIsExact
    StopsWhenItShould
    MetricsAreExact
PROPERTY
    SearchEnds
CHECK_DEADLOCK FALSE
