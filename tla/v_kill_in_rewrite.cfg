SPECIFICATION Spec
CONSTANTS
    k1 = k1  k2 = k2
    Keys <- MCKeys
    Batches <- MCBatches
    Durability = "Sync"
    MaxGroup = 1
    Mergers = {}
    Faults = {"killInRewrite"}
    MaxWrites = 2
    MaxGen = 3
    MaxCrashes = 1
INVARIANT AckedDurable
CHECK_DEADLOCK FALSE
