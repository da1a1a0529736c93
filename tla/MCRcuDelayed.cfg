SPECIFICATION MCSafetySpec
CONSTANTS
    Parts = {"rcu"}
    t1 = t1
    t2 = t2
    t3 = t3
    Threads = {t1, t2, t3}
    WRITER = 8
    MaxUpdates = 1
    StoresAreDelayed = TRUE
    GnThreads = {1, 2, 3}
    GnSeeds = {0, 1}
    GnPoolBits = 2
    GnMaxDraws = 1
    GnMaxSeedings = 1
SYMMETRY ThreadSymmetry
INVARIANTS
    ReadersSeeLiveData
