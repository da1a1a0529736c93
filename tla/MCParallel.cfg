SPECIFICATION MCSpec
CONSTANTS
    c1 = c1
    c2 = c2
    leaf = leaf
    MaxWorkers = 2
    Clients <- MCClients
    Loops <- MCLoops
    Leaf = leaf
    Body <- MCBody
    BlockSize <- MCBlockSize
    Program <- MCProgram
    Throwing <- MCThrowing
    MaxResizes = 1
    Objectives <- MCObjectives
    Fitness <- MCFitness
    MaxLen <- MCMaxLen
INVARIANTS
    FrameOutlivesTasks
    LoopIsComplete
    ResultIsParetoFront
PROPERTIES
    ClientsFinish
    WorkersExit
    VerdictsAreFinal
    MergeCompletes
CHECK_DEADLOCK FALSE
