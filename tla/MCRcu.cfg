SPECIFICATION MCSpec
CONSTANTS
    Parts = {"rcu", "generators"}
    t1 = t1
    t2 = t2
    t3 = t3
    Threads = {t1, t2, t3}
    WRITER = 8
    MaxUpdates = 2
    StoresAreDelayed = FALSE
    GnThreads = {1, 2, 3}
    GnSeeds = {0, 1}
    GnPoolBits = 2
    GnMaxDraws = 1
    GnMaxSeedings = 1
INVARIANTS
    MutualExclusion
    ReadersSeeLiveData
    ScansSeeLiveReaders
    StreamsAreDistinct
    NumbersFollowSeed
PROPERTY
    SynchronizeEnds
