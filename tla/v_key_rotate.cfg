SPECIFICATION KeySpec
CONSTANTS
    Tenants = {ua, ub}  FirstTenants = {ua}  ErrorSteps = {5}
    MaxKeks = 3  MaxKeyFaults = 2
INVARIANT StoreKeyOpens
CHECK_DEADLOCK FALSE
