------------------------------ MODULE JwksCache ------------------------------
(***************************************************************************)
(* Requests on their way through SessionMiddleware (transport/http.py),    *)
(* and the key cache of their issuer (auth/jwks_cache.py) they wait for.   *)
(* OAuthSessionFactory keeps one cache per issuer; the caches do not       *)
(* interact, so the cache is that of the issuer Issuer.                    *)
(*                                                                         *)
(* get_key() awaits the discovery document, the cache's lock, and the key  *)
(* set.  Between two awaits it runs on alone: the look-up and the opening  *)
(* of the refresh window are one step, and the lock is not held then.      *)
(* The client's timeouts are seconds and the window minutes: an exchange   *)
(* with the issuer spans one tick at most.                                 *)
(***************************************************************************)
EXTENDS SessionRules, Integers

CONSTANTS
    Requests,       \* concurrent requests
    Credentials,    \* what they may present
    Issuer,         \* the issuer whose cache it is
    Kids,           \* key ids the issuer may publish; it begins with 1
    TTL,            \* ttl_seconds, in ticks: more than an exchange takes
    MaxRotations,   \* bound: changes of the published keys
    MaxOutages,     \* bound: outages of the issuer
    Nobody

ASSUME JwksAssumption ==
    /\ TTL \in Nat \ {0, 1} /\ Nobody \notin Requests
    /\ MaxRotations \in Nat /\ MaxOutages \in Nat /\ 1 \in Kids
    /\ \A cred \in Credentials :
          /\ NeedsKey(cred) => cred.jwt.iss = Issuer
          /\ cred.shape = "jwt" => \A t, u \in cred.jwt.tenant : t = u

VARIABLES
    discovered, \* _jwks_uri is known
    keys,       \* the kids in _keys
    window,     \* time since _last_refresh_on_miss, saturated at TTL
    lock,       \* who holds _lock
    req,        \* per request: phase, credential, and what it is waiting for
    published,  \* external: the kids the issuer publishes
    idpUp,      \* external: does the issuer answer?
    budget,     \* external: rotations and outages left
    age,        \* history: how long each published kid has been so
    calm,       \* history: time since the latest outage
    opened,     \* history: time since the latest refresh on a miss
    storm       \* history: was one opened less than TTL after the one before?

cacheVars == <<discovered, keys, window, lock>>
idp       == <<published, idpUp, budget>>
history   == <<age, calm, opened, storm>>
vars      == <<cacheVars, req, idp, history>>

Waiting == {"ensure", "discovering", "refresh", "fetching"}

TypeOK ==
    /\ discovered \in BOOLEAN /\ keys \subseteq Kids /\ window \in 0..TTL
    /\ lock \in Requests \cup {Nobody}
    /\ \A r \in Requests : /\ req[r].phase \in Waiting \cup {"idle", "done", "failed", "unknown"}
                           /\ req[r].saw \subseteq Kids
    /\ published \subseteq Kids /\ calm \in 0..TTL

Blank == [phase |-> "idle", cred |-> {}, final |-> FALSE, saw |-> {}, late |-> FALSE,
          session |-> {}, excused |-> TRUE]

Init ==
    /\ discovered = FALSE /\ keys = {} /\ window = TTL /\ lock = Nobody
    /\ req = [r \in Requests |-> Blank]
    /\ published = {1} /\ idpUp = TRUE
    /\ budget = [rotations |-> MaxRotations, outages |-> MaxOutages]
    /\ age = [k \in Kids |-> 0]
    /\ calm = TTL /\ opened = TTL /\ storm = FALSE
-----------------------------------------------------------------------------
In(r, phase) == req[r].phase = phase
Exchanging(r) == req[r].phase \in {"discovering", "fetching"}
Kid(cred)    == CHOOSE k \in cred.jwt.kid : TRUE
CredOf(r)    == CHOOSE cred \in req[r].cred : TRUE
Put(r, changes) == req' = [req EXCEPT ![r] = changes]

Ends(r, cred, phase, session, excused) ==
    Put(r, [Blank EXCEPT !.phase = phase, !.cred = {cred}, !.session = session,
                         !.excused = excused])
Waits(r, cred, phase, final) ==
    Put(r, [Blank EXCEPT !.phase = phase, !.cred = {cred}, !.final = final])

Fetching == \E r \in Requests : In(r, "fetching") \/ In(r, "refresh")

\* A kid the issuer has long published is refused without a reason if nothing
\* went wrong for a whole window, and either the request has just fetched the
\* keys itself or nobody is fetching them.
Excuse(r, k) ==
    k \notin published \/ age[k] < TTL \/ calm < TTL \/ (Fetching /\ ~In(r, "fetching"))

Decide(r, cred) == Ends(r, cred, "done", {OAuthSession(cred.jwt)}, TRUE)
Unknown(r, cred) ==
    Ends(r, cred, "unknown", {Refused(401)}, Excuse(r, Kid(cred)))

\* Mutant: a miss moves the window, whether or not it opens it.
LookUpSliding(r, cred, ks) ==
    IF Kid(cred) \in ks
    THEN Decide(r, cred) /\ UNCHANGED <<window, opened, storm>>
    ELSE /\ window' = 0
         /\ IF window >= TTL
            THEN /\ opened' = 0 /\ storm' = (storm \/ opened < TTL)
                 /\ Waits(r, cred, "refresh", TRUE)
            ELSE Unknown(r, cred) /\ UNCHANGED <<opened, storm>>

\* Mutant: the window is not marked as used before the refresh.
LookUpUnmarked(r, cred, ks) ==
    /\ IF Kid(cred) \in ks
       THEN Decide(r, cred) /\ UNCHANGED <<opened, storm>>
       ELSE IF window >= TTL
       THEN /\ opened' = 0 /\ storm' = (storm \/ opened < TTL)
            /\ Waits(r, cred, "refresh", TRUE)
       ELSE Unknown(r, cred) /\ UNCHANGED <<opened, storm>>
    /\ UNCHANGED window

\* get_key() once the issuer is discovered: look up, and refresh on a miss if
\* the window allows.  build() goes on with the key it returns, or refuses.
LookUp(r, cred, ks) ==
    IF Kid(cred) \in ks
    THEN Decide(r, cred) /\ UNCHANGED <<window, opened, storm>>
    ELSE IF window >= TTL
    THEN /\ window' = 0
         /\ opened' = 0 /\ storm' = (storm \/ opened < TTL)
         /\ Waits(r, cred, "refresh", TRUE)
    ELSE Unknown(r, cred) /\ UNCHANGED <<window, opened, storm>>

\* SessionMiddleware.dispatch(): a request to a protected path.
Arrive(r, cred) ==
    /\ req[r].phase \notin Waiting
    /\ IF ~NeedsKey(cred)
       THEN /\ Ends(r, cred, "done", {DecidedAtOnce(cred)}, TRUE)
            /\ UNCHANGED <<window, opened, storm>>
       ELSE IF discovered THEN LookUp(r, cred, keys)
       ELSE Waits(r, cred, "ensure", FALSE) /\ UNCHANGED <<window, opened, storm>>
    /\ UNCHANGED <<discovered, keys, lock, idp, age, calm>>

\* _ensure_discovered(), at the lock: another request may have done it.
Discover(r) ==
    /\ In(r, "ensure") /\ lock = Nobody /\ ~discovered
    /\ lock' = r
    /\ Waits(r, CredOf(r), "discovering", FALSE)
    /\ UNCHANGED <<discovered, keys, window, idp, history>>

DiscoveredMeanwhile(r) ==
    /\ In(r, "ensure") /\ lock = Nobody /\ discovered
    /\ LookUp(r, CredOf(r), keys)
    /\ UNCHANGED <<discovered, keys, lock, idp, age, calm>>

\* The lock is given back between the discovery and the refresh that follows.
Discovered(r) ==
    /\ In(r, "discovering") /\ idpUp
    /\ discovered' = TRUE /\ lock' = Nobody
    /\ Waits(r, CredOf(r), "refresh", FALSE)
    /\ UNCHANGED <<keys, window, idp, history>>

\* _refresh(), at the lock.
StartFetch(r) ==
    /\ In(r, "refresh") /\ lock = Nobody
    /\ lock' = r
    /\ req' = [req EXCEPT ![r].phase = "fetching", ![r].saw = published]
    /\ UNCHANGED <<discovered, keys, window, idp, history>>

\* With the key set as it now is, the call goes on where it refreshed.
Continue(r, ks) ==
    IF ~req[r].final THEN LookUp(r, CredOf(r), ks)
    ELSE /\ IF Kid(CredOf(r)) \in ks THEN Decide(r, CredOf(r)) ELSE Unknown(r, CredOf(r))
         /\ UNCHANGED <<window, opened, storm>>

\* The answer shows the keys of some moment of the fetch.
Fetched(r) ==
    /\ In(r, "fetching") /\ idpUp
    /\ keys' \in {req[r].saw, published}
    /\ lock' = Nobody
    /\ Continue(r, keys')
    /\ UNCHANGED <<discovered, idp, age, calm>>

\* Not a 200: the stale keys are kept and the call goes on with them.
FetchedNothing(r) ==
    /\ In(r, "fetching") /\ ~idpUp
    /\ lock' = Nobody
    /\ Continue(r, keys)
    /\ UNCHANGED <<discovered, keys, idp, age, calm>>

\* An exception ends the request with a 500; so does a failed discovery.
FetchFails(r) ==
    /\ Exchanging(r) /\ ~idpUp
    /\ lock' = Nobody
    /\ Ends(r, CredOf(r), "failed", {}, TRUE)
    /\ UNCHANGED <<discovered, keys, window, idp, history>>

\* External: the issuer publishes its next key, or withdraws its oldest.
Rotate(ks) ==
    /\ budget.rotations > 0 /\ ks # published /\ ks # {}
    /\ Cardinality((ks \ published) \cup (published \ ks)) = 1
    /\ published' = ks
    /\ budget' = [budget EXCEPT !.rotations = @ - 1]
    /\ age' = [k \in Kids |-> IF k \in published \cap ks THEN age[k] ELSE 0]
    /\ UNCHANGED <<cacheVars, req, idpUp, calm, opened, storm>>

GoDown ==
    /\ idpUp /\ budget.outages > 0
    /\ idpUp' = FALSE
    /\ budget' = [budget EXCEPT !.outages = @ - 1]
    /\ calm' = 0
    /\ UNCHANGED <<cacheVars, req, published, age, opened, storm>>

ComeBack ==
    /\ ~idpUp
    /\ idpUp' = TRUE
    /\ UNCHANGED <<cacheVars, req, published, budget, history>>

Older(n) == IF n < TTL THEN n + 1 ELSE n

Tick ==
    /\ \A r \in Requests : ~req[r].late
    /\ req' = [r \in Requests |-> [req[r] EXCEPT !.late = Exchanging(r)]]
    /\ window' = Older(window)
    /\ opened' = Older(opened)
    /\ calm' = IF idpUp THEN Older(calm) ELSE 0
    /\ age' = [k \in Kids |-> IF k \in published THEN Older(age[k]) ELSE 0]
    /\ UNCHANGED <<discovered, keys, lock, idp, storm>>

Next ==
    \/ \E r \in Requests :
          \/ \E cred \in Credentials : Arrive(r, cred)
          \/ Discover(r) \/ DiscoveredMeanwhile(r) \/ Discovered(r)
          \/ StartFetch(r) \/ Fetched(r) \/ FetchedNothing(r) \/ FetchFails(r)
    \/ \E ks \in SUBSET Kids : Rotate(ks)
    \/ GoDown \/ ComeBack \/ Tick

Spec == Init /\ [][Next]_vars
-----------------------------------------------------------------------------
\* A key the issuer has published for a whole window is refused as unknown
\* only while another request is fetching the keys, or if the issuer was down
\* within that window: the one refresh a window allows is not wasted
\* otherwise, however many requests race for it, and a request that has just
\* fetched the keys never misses one.
RefusedForAReason == \A r \in Requests : req[r].excused

\* However many requests miss, and whatever fails, the refreshes on a miss
\* are TTL apart.
RefreshBudget == ~storm

\* A token of an issuer that belongs to one tenant opens a session of that
\* tenant, or of a tenant nobody has registered (whom no policy admits):
\* whatever it claims, however its keys were found.
SessionOfIssuersTenant ==
    \A r \in Requests : \A s \in req[r].session :
        s.status = 200 =>
            \A cred \in req[r].cred :
                cred.shape = "jwt" /\ TenantsOf(cred.jwt.iss) # {} =>
                    {s.tenant} = TenantsOf(cred.jwt.iss) \/ ~Registered(s.tenant)
=============================================================================
