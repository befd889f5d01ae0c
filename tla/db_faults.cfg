SPECIFICATION Spec
CONSTANTS
    k1 = k1  k2 = k2
    Keys <- MCKeys
    Batches <- MCBatches
    Durability = "Sync"
    MaxGroup = 1
    Mergers = {"m1"}
    Faults = {"appendFail", "appendTorn", "syncFail", "buildFail", "publishFail", "rewriteFail", "mergeFail", "powerLoss", "killInRewrite"}
    MaxWrites = 2
    MaxGen = 4
    MaxCrashes = 2
INVARIANTS TypeOK FilesOwned
PROPERTIES GenerationAdvances
CHECK_DEADLOCK FALSE
