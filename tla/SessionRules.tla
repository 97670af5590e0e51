---------------------------- MODULE SessionRules ----------------------------
(***************************************************************************)
(* Who a request is: from its credential to a Session, or to the status it *)
(* is refused with (auth/chain_factory.py, auth/api_key.py, auth/oauth.py, *)
(* tenancy/issuer_index.py).  What needs the issuer's keys is in JwksCache. *)
(*                                                                         *)
(* A credential is what a client presents: an API key, a JWT its issuer    *)
(* made, or something else.  An optional claim is a set of at most one     *)
(* value; a claim that may be a list is a sequence.                        *)
(***************************************************************************)
EXTENDS Sequences, FiniteSets

CONSTANTS
    Tenants,        \* per tenant id: its issuer (a set), default_rbac_role and
                    \* wazuh_user_claim
    ApiKeys,        \* per key id: tenant, user, role, revoked, expired
    GlobalIssuer,   \* oauth.issuer of server.yaml
    Algorithms,     \* oauth.algorithms
    Audience,       \* oauth.audience
    RbacClaims      \* oauth.rbac_claims, in order of priority

ASSUME TenantsAssumption == IsFiniteSet(DOMAIN Tenants)

Refused(status) == [status |-> status]
Granted(user, tenant, role, method, wazuhUser) ==
    [status |-> 200, user |-> user, tenant |-> tenant, role |-> role,
     method |-> method, wazuhUser |-> wazuhUser]

-----------------------------------------------------------------------------
(* IssuerIndex.                                                             *)
OfIssuer(iss) == {t \in DOMAIN Tenants : iss \in Tenants[t].issuer}

\* get(): the tenant of an issuer, none when two of them share it.
TenantsOf(iss) == IF Cardinality(OfIssuer(iss)) = 1 THEN OfIssuer(iss) ELSE {}

Registered(t)  == t \in DOMAIN Tenants
KnownIssuers   == UNION {Tenants[t].issuer : t \in DOMAIN Tenants}
ValidIssuers   == {GlobalIssuer} \cup KnownIssuers

-----------------------------------------------------------------------------
(* ApiKeySessionFactory and YamlApiKeyStore.verify(): every failure is 401. *)
ApiKeySession(k) ==
    IF k.id \in DOMAIN ApiKeys /\ ~ApiKeys[k.id].revoked
          /\ ~ApiKeys[k.id].expired /\ k.matches
    THEN Granted(ApiKeys[k.id].user, ApiKeys[k.id].tenant, ApiKeys[k.id].role, "api_key", {})
    ELSE Refused(401)

-----------------------------------------------------------------------------
(* OAuthSessionFactory.                                                     *)

\* build(), up to the key: what the header and the unverified issuer must be.
Presentable(jwt) ==
    /\ jwt.kid # {}
    /\ jwt.alg \in Algorithms
    /\ jwt.iss \in ValidIssuers

\* _validate_claims(); the times are within clock_skew_seconds, or not.
ClaimsValid(jwt) ==
    /\ jwt.iss \in ValidIssuers
    /\ Audience \in jwt.aud
    /\ jwt.time = "valid"

\* _pick_rbac(): the first claim of the list that is there and not empty.
Offered(jwt) == SelectSeq(RbacClaims, LAMBDA k : jwt.rbac[k] # <<>>)
PickRbac(jwt) == IF Offered(jwt) = <<>> THEN {} ELSE {jwt.rbac[Head(Offered(jwt))][1]}

\* _pick_wazuh_user(): by the claim the tenant's configuration names.
PickWazuhUser(jwt, config) ==
    UNION {jwt.users[Tenants[t].wazuh_user_claim] : t \in config}

\* Mutant: whatever tenant the token claims.
ResolveByClaim(jwt) == IF jwt.tenant # {} THEN jwt.tenant ELSE TenantsOf(jwt.iss)

\* The tenant: the claim, unless the issuer belongs to another tenant and the
\* claimed one is registered; without a claim, the issuer's.
ResolveTenant(jwt) ==
    IF jwt.tenant = {} THEN TenantsOf(jwt.iss)
    ELSE IF \E t \in jwt.tenant, u \in TenantsOf(jwt.iss) : t # u /\ Registered(t)
         THEN {} ELSE jwt.tenant

\* _build_session().  The refusals are InvalidToken (401) and MissingClaim (403).
BuildSession(jwt) ==
    LET tenant == ResolveTenant(jwt)
        own    == {t \in tenant : Registered(t)}
        config == IF own # {} THEN own ELSE TenantsOf(jwt.iss)
        role   == IF PickRbac(jwt) # {} THEN PickRbac(jwt)
                  ELSE {Tenants[t].default_rbac_role : t \in config}
    IN  IF jwt.sub = {} THEN Refused(403)
        ELSE IF tenant = {} THEN Refused(IF jwt.tenant # {} THEN 401 ELSE 403)
        ELSE IF role = {} THEN Refused(403)
        ELSE Granted(CHOOSE s \in jwt.sub : TRUE, CHOOSE t \in tenant : TRUE,
                     CHOOSE r \in role : TRUE, "oauth", PickWazuhUser(jwt, config))

\* What build() makes of a JWT once it has the key of its kid.
OAuthSession(jwt) ==
    IF jwt.intact /\ ClaimsValid(jwt) THEN BuildSession(jwt) ELSE Refused(401)

-----------------------------------------------------------------------------
\* ChainSessionFactory: the shape of the bearer decides.  A JWT that needs no
\* key to be refused, and all that is not a JWT, is decided at once.
NeedsKey(cred) == cred.shape = "jwt" /\ Presentable(cred.jwt)

DecidedAtOnce(cred) ==
    IF cred.shape = "api_key" THEN ApiKeySession(cred.key) ELSE Refused(401)
=============================================================================
