SPECIFICATION Spec
CONSTANTS
    k1 = k1  k2 = k2
    Keys <- MCKeys
    Batches <- MCBatches
    Durability = "GroupCommit"
    MaxGroup = 2
    Mergers = {"m1", "m2"}
    Faults = {"powerLoss"}
    MaxWrites = 3
    MaxGen = 4
    MaxCrashes = 1
INVARIANTS AckedDurable LayersSound
PROPERTIES ImplementsKv
CHECK_DEADLOCK FALSE
