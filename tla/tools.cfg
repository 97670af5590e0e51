CONSTANTS
    c1 = c1
    c2 = c2
    Calls <- MCCalls
    Tenants <- MCTenants
    Config <- MCConfig
    NoFilter = NoFilter
    NumSinks = 3
    Owner <- MCOwner
    Global = "global"
    Requests <- MCRequests
    MaxSize = 100
    MaxLookback = 5
    MaxClauses = 20
    MaxIn = 100
    MinPrefix = 100
    TerminateAfter = 4
    Documents <- MCDocuments
    Searches <- MCSearches
    MaxNow = 4
SPECIFICATION CallOrSearch
INVARIANTS WritesAreMandated TrailTellsTheEnd SinksFollowServer NoAlertTwice ReturnedAsAsked MissedForAReason
CHECK_DEADLOCK FALSE
