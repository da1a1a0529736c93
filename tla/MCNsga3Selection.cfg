SPECIFICATION MCSpec
CONSTANTS
    Parts = {"nsga3"}
    NumObjectives = 2
    Fitness <- MCFitness
    Tolerance = 0
    PopulationSize = 3
    Offspring <- MCOffspring
    Unit = 6
    Infinity = 13
    MaxGenerations = 1
    Cutoff = 2
    N3Lines <- MCLines
    N3Scale = 10
    N3Weight = 1000
    N3Offspring <- MCOffspring
    N3MaxGen = 1
    SgSize = 3
    SgValues <- MCValues
    SgTourneySize = 2
    SgElites = {0, 1}
    SgWeights <- MCWeights
    SgOffspring <- MCSogaOffspring
    SgMaxGen = 1
    CtDim = 2
    CtInputs <- MCInputs
    CtQueries <- MCQueries
    CtMaxLeaf = 1
    RlUnit = 4
    RlMappings = {"sort", "mirror", "root"}
    RlDims = {1, 2, 3, 4}
    RlNumPoints = {0, 1, 3}
    RlMultiples = {1, 2}
INVARIANT
    SelectedOnce
CHECK_DEADLOCK FALSE
