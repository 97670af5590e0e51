CONSTANTS
    c1 = c1
    c2 = c2
    Calls <- MCCalls
    Tenants <- MCTenants
    Config <- MCConfig
    NoFilter = NoFilter
    NumSinks = 3
    Owner <- MCOwner
    Global = "global"
    Requests <- MCRequests
SPECIFICATION Spec
INVARIANT FourGates
CHECK_DEADLOCK FALSE
