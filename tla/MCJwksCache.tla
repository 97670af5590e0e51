----------------------------- MODULE MCJwksCache -----------------------------
(* Three requests at the issuer of the tenant acme; a second tenant that     *)
(* shares its issuer with a third one.                                       *)
EXTENDS JwksCache, TLC

CONSTANTS r1, r2, r3
MCRequests == {r1, r2, r3}
Symmetry == Permutations(MCRequests)

Tenant(issuer, role) ==
    [issuer |-> issuer, default_rbac_role |-> role, wazuh_user_claim |-> "wazuh_user"]
MCTenants == [acme |-> Tenant({"idp"}, "readonly"), beta |-> Tenant({"shared"}, "readonly"),
              gamma |-> Tenant({"shared"}, "analyst")]
MCApiKeys ==
    [good |-> [tenant |-> "beta", user |-> "bot", role |-> "admin",
               revoked |-> FALSE, expired |-> FALSE]]
MCRbacClaims == <<"role", "groups">>
MCAlgorithms == {"RS256"}

Jwt(kid, tenant, groups) ==
    [shape |-> "jwt",
     jwt |-> [kid |-> {kid}, alg |-> "RS256", iss |-> "idp", intact |-> TRUE,
              aud |-> {"mcp"}, time |-> "valid", sub |-> {"ann"}, tenant |-> tenant,
              rbac |-> [role |-> <<>>, groups |-> groups],
              users |-> [wazuh_user |-> {"ann"}]]]

MCCredentials ==
    {Jwt(1, {}, <<>>), Jwt(2, {"acme"}, <<"analyst">>), Jwt(2, {"beta"}, <<>>),
     Jwt(1, {"gone"}, <<"analyst">>),
     [shape |-> "api_key", key |-> [id |-> "good", matches |-> TRUE]]}
=============================================================================
