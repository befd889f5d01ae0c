SPECIFICATION MCKernelSpec
CONSTANTS
    \* KernelCommit
    Koids = {k1, k2}  Clients = {c1}  IdemKeys = {i1}  TxnIds = {t1}  NoId = NoId
    MaxCommits = 3  MaxStaged = 2  MaxTs = 4  MaxKernelCrashes = 1
    \* KernelIndex
    Nodes = {n1, n2}  TypeNames = {ta}  Readers = {r}  MaxRefs = 2  MaxIndexWrites = 3
    \* Knowledge
    Kos = {a, b, c, d}  FirstKos = {a, b}  KnKeys = {i}  NoKo = NoKo
    MaxKnOps = 2  MaxKnFaults = 1
    \* KeyRing
    Tenants = {ua, ub}  FirstTenants = {ua}  ErrorSteps = {2, 3}
    MaxKeks = 3  MaxKeyFaults = 2
    \* Import
    Tables = {1, 2}  Rows = {1, 2}  TableOf <- RowTables  RowVals = {"u", "v"}
    Runners = {"postgres", "mongodb", "neo4j", "sqlite"}
    MaxImports = 2  MaxSrcChanges = 1  MaxImportFaults = 1
    \* IngestDir
    Docs = {d1, d2}  Names = {x}  Texts = {"u"}
    MaxRevs = 2  MaxRuns = 2  MaxIngestFaults = 1
    \* Schemas
    SchKos = {s1, s2}  SchFirst = {s1}  SchVals = {"u", "v"}  SchAdmins = {adm, bdm}
    SchTargets = {tg}  NoTarget = NoTarget  MaxSchema = 2
    MaxSchOps = 3  MaxSchFaults = 1
    \* Grants
    SignIns = {p}  GrThreads = {th1, th2}  Gated = TRUE
    CodeTtl = 1  AccessTtl = 1  RefreshTtl = 3  SweepEvery = 2
    MaxGrTime = 3  MaxTokens = 3  MaxGrFaults = 2
    \* Claims
    Tasks = {tk}  Agents = {ga, gb}  NoAgent = NoAgent  Leases = {1, 2}
    SignedMax = 7  UnsignedMax = 15  MaxClaimTime = 4  MaxClaimFaults = 1
    \* QueryStream
    QKoids = {1, 2, 3}  Seeded = {1, 2}  QBatch = 2  QLimit = 2  QOffset = 1
    QTailCap = 1  MaxQLog = 4
INVARIANTS CommitSafe KeysSafe ClientsSafe
PROPERTIES KernelIndexPromise KnowledgePromise ImportPromise IngestPromise 
           QueryPromise
CHECK_DEADLOCK FALSE
