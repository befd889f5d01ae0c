SPECIFICATION JobsSpec
CONSTANTS
    Inputs = {h1, h2}  Submitters = {s1, s2}  MaxRunning = 1
    MaxJobs = 3  MaxJobFaults = 1  MaxRestarts = 1
PROPERTY NeverDropped
CHECK_DEADLOCK FALSE
