SPECIFICATION FairSpec
CONSTANTS
    Job = {1, 2}
    TenantOf <- KeptForAnother
    NoTenant = 0
    Slots = 2
    MaxRuns = 2
    MaxCalls = 1
    MaxFaults = 1
INVARIANTS PoolAccounting OneTenantPerProcess NobodyElseKills HonestWorkersAreTrusted
CHECK_DEADLOCK FALSE
PROPERTIES RunsReturn
