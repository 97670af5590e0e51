CONSTANTS
    r1 = r1
    r2 = r2
    r3 = r3
    Requests <- MCRequests
    Tenants <- MCTenants
    ApiKeys <- MCApiKeys
    GlobalIssuer = "main"
    Algorithms <- MCAlgorithms
    Audience = "mcp"
    RbacClaims <- MCRbacClaims
    Credentials <- MCCredentials
    Issuer = "idp"
    Kids = {1, 2}
    TTL = 2
    MaxRotations = 1
    MaxOutages = 1
    Nobody = Nobody
SPECIFICATION Spec
SYMMETRY Symmetry
INVARIANTS RefusedForAReason RefreshBudget SessionOfIssuersTenant
CHECK_DEADLOCK FALSE
