SPECIFICATION MCBackgroundSpec
CONSTANTS
    \* CompactorSignal
    SigWriters = {"w1", "w2"}  L0Trigger = 2  HardBound = 1  MaxL0Writes = 4  MaxMergeErrors = 1
    \* Jobs
    Inputs = {h1, h2}  Submitters = {s1, s2}  MaxRunning = 1
    MaxJobs = 2  MaxJobFaults = 1  MaxRestarts = 1
    \* IndexMaintainer
    Objs = {a}  Vals = {u}  Nil = Nil  MaxEvents = 2  MaintainerBatch = 2
    IndexTailCap = 2  MaxUpsets = 1
    \* Subscriptions
    Results = {0, 1}  SubKinds = {"feed", "live"}  MaxEvs = 2  MaxDrops = 1  MaxUnsubs = 1
    \* EventStream
    MAX_QUEUED = 3  REPLAY = 2  MAX_STREAMS = 2  MaxFramesOut = 4  MaxGets = 3
    \* Consolidation
    Groups = {g1}  MaxMemories = 3  MaxTouches = 2
PROPERTIES SignalPromise JobsPromise SchedulerPromise SubscriptionPromise StreamPromise
CHECK_DEADLOCK FALSE
