SPECIFICATION MCStorageSpec
CONSTANTS
    \* Replication
    Nodes = {n1, n2}  None = None  MaxFrames = 2  MaxTerm = 3  MaxStops = 2
    \* RetainedLog
    Standbys = {s1}  Archiver = {a}  Burns = 1  MaxRlFrames = 2  MaxLinks = 3
    \* Rejoin
    Serving = TRUE  MaxShips = 2  MaxRjCrashes = 3
    \* Archive
    MaxArcTerm = 2  MaxArcSeq = 3  MaxArcMs = 4  LogBatch = 2  Keep = 2  MaxArcFaults = 1
    \* Directories
    Objects = {o1, o2}  DirWriters = {w1}  MaxDirWrites = 2  MaxDirGen = 4  MaxDirCrashes = 1
    \* Snapshot
    Snapshotters = {t1}  MaxSnapRows = 2  MaxSnapGen = 3
    \* BlockCache
    Blocks = {b1, b2, b3}  Small = {b1, b2}  CacheCap = 3  CacheReaders = {r1, r2}  MaxClock = 7
    \* VectorIndex
    VecKoids = {va, vb}  Vecs = {u, w}  DimOf <- VecDims  MaxVecEvents = 3  MaxVecRestarts = 1  MaxVecCkpts = 1
SYMMETRY Symmetry
INVARIANTS LeaderNewest RejoinSafe SnapshotSafe VectorSafe
PROPERTIES RetainedLogPromise ArchivePromise DirectoriesPromise BlockCachePromise
CHECK_DEADLOCK FALSE
