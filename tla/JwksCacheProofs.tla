--------------------------- MODULE JwksCacheProofs ---------------------------
(***************************************************************************)
(* What holds of the key cache and of the sessions it admits for any       *)
(* tenants, credentials, keys, number of requests and length of window.    *)
(***************************************************************************)
EXTENDS JwksCache, FiniteSetTheorems, TLAPS

USE JwksAssumption

Handlers(r) ==
    \/ Discover(r) \/ DiscoveredMeanwhile(r) \/ Discovered(r)
    \/ StartFetch(r) \/ Fetched(r) \/ FetchedNothing(r) \/ FetchFails(r)

-----------------------------------------------------------------------------
(* The refresh window.                                                      *)

\* The window the code keeps is the time since the latest refresh on a miss.
WindowInv ==
    /\ window \in 0..TTL
    /\ opened = window
    /\ storm = FALSE

\* Looking a key up opens the window only when it has passed.
LEMMA LookUpWindow ==
    ASSUME WindowInv, NEW r \in Requests, NEW cred, NEW ks, LookUp(r, cred, ks)
    PROVE  WindowInv'
<1>1. CASE UNCHANGED <<window, opened, storm>>
  BY <1>1 DEF WindowInv
<1>2. CASE /\ window >= TTL /\ window' = 0 /\ opened' = 0
           /\ storm' = (storm \/ opened < TTL)
  <2>1. ~(opened < TTL)
    BY <1>2 DEF WindowInv
  <2>2. storm' = FALSE
    <3>1. storm = FALSE
      BY DEF WindowInv
    <3> QED BY <1>2, <2>1, <3>1, Zenon
  <2> QED BY <1>2, <2>2 DEF WindowInv
<1> QED BY <1>1, <1>2 DEF LookUp

\* However many requests miss, join, fail or are refused, refreshes on a miss
\* are a window apart: the promise of get_key().
THEOREM RefreshesApart == Spec => []RefreshBudget
<1>1. Init => WindowInv
  BY DEF Init, WindowInv
<1>2. WindowInv /\ [Next]_vars => WindowInv'
  <2> SUFFICES ASSUME WindowInv, [Next]_vars PROVE WindowInv'
    OBVIOUS
  <2>1. ASSUME NEW r \in Requests, NEW cred \in Credentials, Arrive(r, cred)
        PROVE  WindowInv'
    <3>1. CASE UNCHANGED <<window, opened, storm>>
      BY <3>1 DEF WindowInv
    <3>2. CASE LookUp(r, cred, keys)
      BY <3>2, LookUpWindow
    <3> QED BY <2>1, <3>1, <3>2 DEF Arrive
  <2>2. ASSUME NEW r \in Requests, NEW ks, Continue(r, ks)
        PROVE  WindowInv'
    <3>1. CASE UNCHANGED <<window, opened, storm>>
      BY <3>1 DEF WindowInv
    <3>2. CASE LookUp(r, CredOf(r), ks)
      BY <3>2, LookUpWindow
    <3> QED BY <2>2, <3>1, <3>2 DEF Continue
  <2>3. ASSUME NEW r \in Requests, Handlers(r)
        PROVE  WindowInv'
    <3>1. CASE DiscoveredMeanwhile(r)
      BY <3>1, LookUpWindow DEF DiscoveredMeanwhile
    <3>2. CASE Fetched(r)
      BY <3>2, <2>2 DEF Fetched
    <3>3. CASE FetchedNothing(r)
      BY <3>3, <2>2 DEF FetchedNothing
    <3>4. CASE Discover(r) \/ Discovered(r) \/ StartFetch(r) \/ FetchFails(r)
      BY <3>4 DEF WindowInv, Discover, Discovered, StartFetch, FetchFails, history
    <3> QED BY <2>3, <3>1, <3>2, <3>3, <3>4 DEF Handlers
  <2>4. CASE (\E ks \in SUBSET Kids : Rotate(ks)) \/ GoDown \/ ComeBack
    BY <2>4 DEF WindowInv, Rotate, GoDown, ComeBack, cacheVars, history
  <2>5. CASE Tick
    BY <2>5 DEF WindowInv, Tick, Older
  <2>6. CASE UNCHANGED vars
    BY <2>6 DEF WindowInv, vars, cacheVars, history
  <2> QED BY <2>1, <2>3, <2>4, <2>5, <2>6 DEF Next, Handlers
<1>3. WindowInv => RefreshBudget
  BY DEF WindowInv, RefreshBudget
<1> QED BY <1>1, <1>2, <1>3, PTL DEF Spec

-----------------------------------------------------------------------------
(* Sessions.                                                                *)

\* An issuer that resolves to a tenant resolves to one.
LEMMA OneTenant ==
    ASSUME NEW iss, TenantsOf(iss) # {}
    PROVE  \E t : TenantsOf(iss) = {t}
<1>1. IsFiniteSet(OfIssuer(iss))
  BY TenantsAssumption, FS_Subset DEF OfIssuer
<1>2. TenantsOf(iss) = OfIssuer(iss) /\ Cardinality(OfIssuer(iss)) = 1
  BY DEF TenantsOf
<1> QED BY <1>1, <1>2, FS_Singleton

\* _build_session(): the tenant of the issuer, or one nobody has registered.
LEMMA TenantOfSession ==
    ASSUME NEW jwt, \A t, u \in jwt.tenant : t = u, TenantsOf(jwt.iss) # {},
           OAuthSession(jwt).status = 200
    PROVE  \/ {OAuthSession(jwt).tenant} = TenantsOf(jwt.iss)
           \/ ~Registered(OAuthSession(jwt).tenant)
<1> DEFINE own == CHOOSE t \in ResolveTenant(jwt) : TRUE
<1>1. OAuthSession(jwt) = BuildSession(jwt) /\ ResolveTenant(jwt) # {}
      /\ BuildSession(jwt).tenant = own
  BY DEF OAuthSession, BuildSession, Refused, Granted
<1>2. own \in ResolveTenant(jwt)
  BY <1>1
<1> HIDE DEF own
<1>3. PICK t : TenantsOf(jwt.iss) = {t}
  BY OneTenant
<1>4. CASE jwt.tenant = {}
  BY <1>1, <1>2, <1>3, <1>4 DEF ResolveTenant
<1>5. CASE jwt.tenant # {}
  <2>1. ResolveTenant(jwt) = jwt.tenant
        /\ ~(\E c \in jwt.tenant, u \in TenantsOf(jwt.iss) : c # u /\ Registered(c))
    BY <1>1, <1>5 DEF ResolveTenant
  <2>2. own = t \/ ~Registered(own)
    BY <1>2, <1>3, <2>1
  <2>3. OAuthSession(jwt).tenant = own
    BY <1>1
  <2> QED BY <1>3, <2>2, <2>3 DEF Registered
<1> QED BY <1>4, <1>5

Outcomes == {Refused(401)} \cup {DecidedAtOnce(cred) : cred \in Credentials}
                         \cup {OAuthSession(cred.jwt) : cred \in Credentials}

\* A request under way carries one credential, and one that has ended has
\* the outcome of its own.
Phases == Waiting \cup {"idle", "done", "failed", "unknown"}

Request ==
    [phase : Phases, cred : SUBSET Credentials, final : BOOLEAN, saw : SUBSET Kids,
     late : BOOLEAN, session : SUBSET Outcomes, excused : BOOLEAN]

OutcomesOf(cred) == {Refused(401), DecidedAtOnce(cred), OAuthSession(cred.jwt)}

HasOwnOutcome(q) ==
    \/ q.phase = "idle" /\ q.session = {}
    \/ \E cred \in Credentials : q.cred = {cred} /\ q.session \subseteq OutcomesOf(cred)

RequestInv ==
    /\ req \in [Requests -> Request]
    /\ published \subseteq Kids
    /\ \A r \in Requests : HasOwnOutcome(req[r])

\* The outcome of its own credential is all a request can get.
LEMMA OwnTenant == RequestInv => SessionOfIssuersTenant
<1> SUFFICES ASSUME RequestInv, NEW r \in Requests, NEW s \in req[r].session,
                    s.status = 200, NEW cred \in req[r].cred,
                    cred.shape = "jwt", TenantsOf(cred.jwt.iss) # {}
             PROVE  {s.tenant} = TenantsOf(cred.jwt.iss) \/ ~Registered(s.tenant)
  BY DEF SessionOfIssuersTenant
<1>1. cred \in Credentials
      /\ s \in {Refused(401), DecidedAtOnce(cred), OAuthSession(cred.jwt)}
  BY DEF RequestInv, HasOwnOutcome, OutcomesOf
<1>2. Refused(401).status = 401 /\ DecidedAtOnce(cred) = Refused(401)
  BY DEF Refused, DecidedAtOnce
<1>3. s = OAuthSession(cred.jwt)
  BY <1>1, <1>2
<1>4. \A t, u \in cred.jwt.tenant : t = u
  BY <1>1
<1> QED BY <1>3, <1>4, TenantOfSession

\* A handler changes the request it serves.
LEMMA Replacing ==
    ASSUME RequestInv, NEW r \in Requests, NEW q \in Request, HasOwnOutcome(q),
           req' = [req EXCEPT ![r] = q], published' = published
    PROVE  RequestInv'
<1>1. req' \in [Requests -> Request]
  BY DEF RequestInv
<1>2. ASSUME NEW x \in Requests PROVE HasOwnOutcome(req'[x])
  <2>1. CASE x = r  BY <2>1 DEF RequestInv
  <2>2. CASE x # r  BY <2>2 DEF RequestInv
  <2> QED BY <2>1, <2>2
<1> QED BY <1>1, <1>2 DEF RequestInv

\* A request that ends, with the outcome of the credential it came with.
LEMMA Ending ==
    ASSUME RequestInv, NEW r \in Requests, NEW cred \in Credentials,
           NEW phase \in Phases, NEW excused \in BOOLEAN, NEW session,
           session \subseteq OutcomesOf(cred),
           Ends(r, cred, phase, session, excused), published' = published
    PROVE  RequestInv'
<1> DEFINE q == [Blank EXCEPT !.phase = phase, !.cred = {cred}, !.session = session,
                              !.excused = excused]
<1>1. session \subseteq Outcomes
  BY DEF Outcomes, OutcomesOf
<1>2. q \in Request /\ q.cred = {cred} /\ q.session = session
  BY <1>1 DEF Request, Blank
<1>3. req' = [req EXCEPT ![r] = q]
  BY DEF Ends, Put
<1> HIDE DEF q
<1>4. HasOwnOutcome(q)
  BY <1>2 DEF HasOwnOutcome
<1> QED BY <1>2, <1>3, <1>4, Replacing

\* A request that goes on waiting has no session yet, and keeps its credential.
LEMMA StillWaiting ==
    ASSUME RequestInv, NEW r \in Requests, NEW cred \in Credentials,
           NEW phase \in Phases, NEW final \in BOOLEAN,
           Waits(r, cred, phase, final), published' = published
    PROVE  RequestInv'
<1> DEFINE q == [Blank EXCEPT !.phase = phase, !.cred = {cred}, !.final = final]
<1>1. q \in Request /\ q.cred = {cred} /\ q.session = {}
  BY DEF Request, Blank
<1>2. req' = [req EXCEPT ![r] = q]
  BY DEF Waits, Put
<1> HIDE DEF q
<1>3. HasOwnOutcome(q)
  BY <1>1 DEF HasOwnOutcome
<1> QED BY <1>1, <1>2, <1>3, Replacing

\* get_key() ends the request as its credential has it, or keeps it waiting.
LEMMA LookingUp ==
    ASSUME RequestInv, NEW r \in Requests, NEW cred \in Credentials, NEW ks,
           LookUp(r, cred, ks), published' = published
    PROVE  RequestInv'
<1>1. CASE Decide(r, cred)
  BY <1>1, Ending DEF Decide, Phases, OutcomesOf
<1>2. CASE Unknown(r, cred)
  <2>1. Excuse(r, Kid(cred)) \in BOOLEAN
    BY DEF Excuse, Fetching, In
  <2> QED BY <1>2, <2>1, Ending DEF Unknown, Phases, OutcomesOf
<1>3. CASE Waits(r, cred, "refresh", TRUE)
  BY <1>3, StillWaiting DEF Phases, Waiting
<1> QED BY <1>1, <1>2, <1>3 DEF LookUp

\* A request that has arrived presents one of the credentials.
LEMMA CredentialOf ==
    ASSUME RequestInv, NEW r \in Requests, req[r].phase # "idle"
    PROVE  CredOf(r) \in Credentials
BY DEF RequestInv, HasOwnOutcome, CredOf

\* What follows a fetch, from either caller of _refresh(), keeps to it as well.
LEMMA Continuing ==
    ASSUME RequestInv, NEW r \in Requests, req[r].phase = "fetching", NEW ks,
           Continue(r, ks), published' = published
    PROVE  RequestInv'
<1>1. CredOf(r) \in Credentials
  BY CredentialOf
<1>2. CASE LookUp(r, CredOf(r), ks)
  BY <1>1, <1>2, LookingUp
<1>3. CASE Decide(r, CredOf(r))
  BY <1>1, <1>3, Ending DEF Decide, Phases, OutcomesOf
<1>4. CASE Unknown(r, CredOf(r))
  <2> DEFINE x == Excuse(r, Kid(CredOf(r)))
  <2>1. x \in BOOLEAN
    BY DEF Excuse, In
  <2>2. Ends(r, CredOf(r), "unknown", {Refused(401)}, x)
    BY <1>4 DEF Unknown
  <2> HIDE DEF x
  <2> QED BY <1>1, <2>1, <2>2, Ending DEF Phases, OutcomesOf
<1> QED BY <1>2, <1>3, <1>4 DEF Continue

\* Every handler keeps to the outcome of the credential it was given.
LEMMA RequestStep == RequestInv /\ [Next]_vars => RequestInv'
<1> SUFFICES ASSUME RequestInv, [Next]_vars PROVE RequestInv'
  OBVIOUS
<1>1. ASSUME NEW r \in Requests, NEW cred \in Credentials, Arrive(r, cred)
      PROVE  RequestInv'
  <2>0. published' = published
    BY <1>1 DEF Arrive, idp
  <2>1. CASE Ends(r, cred, "done", {DecidedAtOnce(cred)}, TRUE)
    BY <2>0, <2>1, Ending DEF OutcomesOf, Phases
  <2>2. CASE LookUp(r, cred, keys)
    BY <2>0, <2>2, LookingUp
  <2>3. CASE Waits(r, cred, "ensure", FALSE)
    BY <2>0, <2>3, StillWaiting DEF Phases, Waiting
  <2> QED BY <1>1, <2>1, <2>2, <2>3 DEF Arrive
<1>2. ASSUME NEW r \in Requests, Handlers(r)
      PROVE  RequestInv'
  <2>1. published' = published /\ CredOf(r) \in Credentials
    BY <1>2, CredentialOf DEF Handlers, Discover, DiscoveredMeanwhile, Discovered,
       StartFetch, Fetched, FetchedNothing, FetchFails, In, Exchanging, idp
  <2>2. CASE Discover(r)
    BY <2>1, <2>2, StillWaiting DEF Phases, Waiting, Discover
  <2>3. CASE DiscoveredMeanwhile(r)
    BY <2>1, <2>3, LookingUp DEF DiscoveredMeanwhile
  <2>4. CASE Discovered(r)
    BY <2>1, <2>4, StillWaiting DEF Phases, Waiting, Discovered
  <2>5. CASE StartFetch(r)
    <3> DEFINE q == [req[r] EXCEPT !.phase = "fetching", !.saw = published]
    <3>1. req' = [req EXCEPT ![r] = q] /\ req[r].phase # "idle"
      BY <2>5 DEF StartFetch, In, RequestInv
    <3>2. req[r] \in Request /\ published \subseteq Kids
      BY DEF RequestInv
    <3>3. q \in Request /\ q.cred = req[r].cred /\ q.session = req[r].session
      BY <3>2 DEF Request, Phases, Waiting
    <3> HIDE DEF q
    <3>4. HasOwnOutcome(q)
      BY <3>1, <3>3 DEF RequestInv, HasOwnOutcome
    <3> QED BY <2>1, <3>1, <3>3, <3>4, Replacing
  <2>6. CASE Fetched(r)
    BY <2>1, <2>6, Continuing DEF Fetched, In
  <2>7. CASE FetchedNothing(r)
    BY <2>1, <2>7, Continuing DEF FetchedNothing, In
  <2>8. CASE FetchFails(r)
    <3>1. Ends(r, CredOf(r), "failed", {}, TRUE)
      BY <2>8 DEF FetchFails
    <3>2. {} \subseteq OutcomesOf(CredOf(r)) /\ "failed" \in Phases
      BY DEF Phases
    <3> DEFINE nothing == {}
    <3>3. nothing \subseteq OutcomesOf(CredOf(r))
      BY <3>2
    <3>4. Ends(r, CredOf(r), "failed", nothing, TRUE)
      BY <3>1
    <3> HIDE DEF nothing
    <3> QED BY <2>1, <3>2, <3>3, <3>4, Ending
  <2> QED BY <1>2, <2>2, <2>3, <2>4, <2>5, <2>6, <2>7, <2>8 DEF Handlers
<1>3. ASSUME NEW ks \in SUBSET Kids, Rotate(ks)
      PROVE  RequestInv'
  BY <1>3 DEF Rotate, RequestInv
<1>4. CASE GoDown \/ ComeBack
  BY <1>4 DEF GoDown, ComeBack, RequestInv
<1>5. CASE Tick
  <2>1. \A r \in Requests :
           /\ req'[r] \in Request /\ req'[r].phase = req[r].phase
           /\ req'[r].cred = req[r].cred /\ req'[r].session = req[r].session
    <3> SUFFICES ASSUME NEW r \in Requests
                 PROVE  /\ req'[r] \in Request /\ req'[r].phase = req[r].phase
                        /\ req'[r].cred = req[r].cred /\ req'[r].session = req[r].session
      OBVIOUS
    <3>1. req'[r] = [req[r] EXCEPT !.late = Exchanging(r)] /\ req[r] \in Request
      BY <1>5 DEF Tick, RequestInv
    <3>2. Exchanging(r) \in BOOLEAN
      BY DEF Exchanging
    <3> QED BY <3>1, <3>2 DEF Request
  <2>2. published' = published /\ req' \in [Requests -> Request]
    BY <1>5, <2>1 DEF Tick, idp
  <2> QED BY <2>1, <2>2 DEF RequestInv, HasOwnOutcome
<1>6. CASE UNCHANGED vars
  BY <1>6 DEF vars, idp, RequestInv
<1> QED BY <1>1, <1>2, <1>3, <1>4, <1>5, <1>6 DEF Next, Handlers

\* A token of an issuer with one tenant never opens a session of another
\* registered tenant, whatever it claims and however its key was found.
THEOREM SessionsStayHome == Spec => []SessionOfIssuersTenant
<1>1. Init => RequestInv
  BY DEF Init, RequestInv, Request, Phases, HasOwnOutcome, Blank
<1> QED BY <1>1, RequestStep, OwnTenant, PTL DEF Spec

-----------------------------------------------------------------------------
(* Refusals.                                                                *)

\* The lock is held for as long as an exchange with the issuer lasts.
LockInv == \A r \in Requests : Exchanging(r) <=> lock = r

ClockInv ==
    /\ window \in 0..TTL /\ calm \in 0..TTL /\ age \in [Kids -> 0..TTL]
    /\ ~idpUp => calm = 0

\* What a fetch under way is bound to bring: the keys published since before it
\* began, and, unless a later refresh waits behind it, those that were published
\* before the window was opened.
Seen(r) ==
    /\ \A k \in published : age[k] >= (IF req[r].late THEN 2 ELSE 1) => k \in req[r].saw
    /\ \/ \E s \in Requests \ {r} : In(s, "refresh")
       \/ \A k \in published : age[k] > window => k \in req[r].saw

\* The refresh that opened the window brought every key older than the window,
\* unless it is still under way or the issuer was down since.
Held ==
    calm > window /\ ~Fetching => \A k \in published : age[k] > window => k \in keys

FetchInv == (\A r \in Requests : In(r, "fetching") => Seen(r)) /\ Held

KeysInv == RequestInv /\ LockInv /\ ClockInv /\ FetchInv /\ RefusedForAReason

\* A handler serves one request.
Serves(r) == \A s \in Requests \ {r} : req'[s] = req[s]

LEMMA ServesOne ==
    ASSUME RequestInv, NEW r \in Requests, NEW q, req' = [req EXCEPT ![r] = q]
    PROVE  Serves(r) /\ req'[r] = q
BY DEF RequestInv, Serves

\* How a request is left that ends, and one that waits.
LEMMA EndsSo ==
    ASSUME RequestInv, NEW r \in Requests, NEW cred, NEW phase, NEW session, NEW excused,
           Ends(r, cred, phase, session, excused)
    PROVE  Serves(r) /\ req'[r].phase = phase /\ req'[r].excused = excused
<1> DEFINE q == [Blank EXCEPT !.phase = phase, !.cred = {cred}, !.session = session,
                              !.excused = excused]
<1>1. Serves(r) /\ req'[r] = q
  BY ServesOne DEF Ends, Put
<1>2. q.phase = phase /\ q.excused = excused
  BY DEF Blank
<1> QED BY <1>1, <1>2

LEMMA WaitsSo ==
    ASSUME RequestInv, NEW r \in Requests, NEW cred, NEW phase, NEW final,
           Waits(r, cred, phase, final)
    PROVE  Serves(r) /\ req'[r].phase = phase /\ req'[r].excused = TRUE
<1> DEFINE q == [Blank EXCEPT !.phase = phase, !.cred = {cred}, !.final = final]
<1>1. Serves(r) /\ req'[r] = q
  BY ServesOne DEF Waits, Put
<1>2. q.phase = phase /\ q.excused = TRUE
  BY DEF Blank
<1> QED BY <1>1, <1>2

\* A look-up ends the request or opens the window, and whoever is refused did
\* not find its key.
Leaves(r) ==
    \/ req'[r].phase \in {"done", "unknown", "failed", "ensure", "discovering"}
       /\ window' = window
    \/ req'[r].phase = "refresh" /\ (window' = window \/ window' = 0)

Answers(r, cred, ks) ==
    \/ req'[r].excused
    \/ Kid(cred) \notin ks /\ req'[r].excused = Excuse(r, Kid(cred))

LEMMA LookUpSo ==
    ASSUME RequestInv, NEW r \in Requests, NEW cred, NEW ks, LookUp(r, cred, ks)
    PROVE  /\ Serves(r) /\ Leaves(r) /\ Answers(r, cred, ks)
           /\ req'[r].excused \/ ~(window >= TTL)
           /\ req'[r].phase \in {"done", "unknown", "refresh"}
<1>1. CASE Decide(r, cred) /\ window' = window
  BY <1>1, EndsSo DEF Decide, Leaves, Answers
<1>2. CASE Waits(r, cred, "refresh", TRUE) /\ window' = 0
  BY <1>2, WaitsSo DEF Leaves, Answers
<1>3. CASE Unknown(r, cred) /\ window' = window /\ Kid(cred) \notin ks /\ ~(window >= TTL)
  BY <1>3, EndsSo DEF Unknown, Leaves, Answers
<1> QED BY <1>1, <1>2, <1>3 DEF LookUp

LEMMA ContinueSo ==
    ASSUME RequestInv, NEW r \in Requests, NEW ks, Continue(r, ks)
    PROVE  /\ Serves(r) /\ Leaves(r) /\ Answers(r, CredOf(r), ks)
           /\ req'[r].phase \in {"done", "unknown", "refresh"}
<1>1. CASE LookUp(r, CredOf(r), ks)
  BY <1>1, LookUpSo
<1>2. CASE Decide(r, CredOf(r)) /\ window' = window
  BY <1>2, EndsSo DEF Decide, Leaves, Answers
<1>3. CASE Unknown(r, CredOf(r)) /\ window' = window /\ Kid(CredOf(r)) \notin ks
  BY <1>3, EndsSo DEF Unknown, Leaves, Answers
<1> QED BY <1>1, <1>2, <1>3 DEF Continue

\* Every handler serves one request; an exchange starts with the lock free and
\* ends with giving it back.
LEMMA LockStep ==
    ASSUME LockInv, NEW r \in Requests, Serves(r),
           \/ ~Exchanging(r) /\ ~Exchanging(r)' /\ lock' = lock
           \/ lock = Nobody /\ lock' = r /\ Exchanging(r)'
           \/ Exchanging(r) /\ ~Exchanging(r)' /\ lock' = Nobody
    PROVE  LockInv'
<1> SUFFICES ASSUME NEW s \in Requests PROVE Exchanging(s)' <=> lock' = s
  BY DEF LockInv
<1>1. s # r => (Exchanging(s)' <=> Exchanging(s))
  BY DEF Serves, Exchanging
<1>2. (Exchanging(s) <=> lock = s) /\ (Exchanging(r) <=> lock = r) /\ s # Nobody
  BY DEF LockInv
<1> QED BY <1>1, <1>2

\* A request that was not fetching, and does not start to, disturbs no fetch.
LEMMA ApartFromFetches ==
    ASSUME FetchInv, ClockInv, NEW r \in Requests, Serves(r), Leaves(r),
           ~In(r, "refresh"), ~In(r, "fetching"), UNCHANGED <<keys, published, age, calm>>
    PROVE  FetchInv'
<1>1. ASSUME NEW s \in Requests, In(s, "fetching")' PROVE Seen(s)'
  <2>1. s # r /\ req'[s] = req[s] /\ Seen(s)
    BY <1>1 DEF Serves, Leaves, In, FetchInv
  <2>2. CASE \E t \in Requests \ {s} : In(t, "refresh")
    <3>1. \E t \in Requests \ {s} : In(t, "refresh")'
      BY <2>2 DEF Serves, In
    <3> QED BY <2>1, <3>1 DEF Seen
  <2>3. CASE window' = window
    BY <2>1, <2>2, <2>3 DEF Seen
  <2>4. CASE req'[r].phase = "refresh"
    <3>1. \E t \in Requests \ {s} : In(t, "refresh")'
      BY <2>1, <2>4 DEF In
    <3> QED BY <2>1, <3>1 DEF Seen
  <2> QED BY <2>3, <2>4 DEF Leaves
<1>2. Held'
  <2>1. CASE req'[r].phase = "refresh"
    <3>1. Fetching'
      BY <2>1 DEF Fetching, In
    <3> QED BY <3>1 DEF Held
  <2>2. CASE window' = window
    <3>1. Fetching => Fetching'
      BY DEF Fetching, In, Serves
    <3> QED BY <2>2, <3>1 DEF Held, FetchInv
  <2> QED BY <2>1, <2>2 DEF Leaves
<1> QED BY <1>1, <1>2 DEF FetchInv

\* An exchange that ends leaves the keys its answer is bound to bring, or has
\* failed because the issuer was down.
LEMMA AfterExchange ==
    ASSUME FetchInv, LockInv, ClockInv, NEW r \in Requests, Serves(r), Leaves(r),
           Exchanging(r), ~Exchanging(r)', UNCHANGED <<published, age, calm>>,
           calm = 0 \/ (In(r, "fetching") /\ keys' \in {req[r].saw, published})
    PROVE  FetchInv'
<1>1. \A s \in Requests : ~In(s, "fetching")'
  BY DEF LockInv, Serves, Exchanging, In
<1>2. Held'
  <2> SUFFICES ASSUME calm' > window', ~Fetching', NEW k \in published', age'[k] > window'
               PROVE  k \in keys'
    BY DEF Held
  <2>1. window' = window
    BY DEF Leaves, Fetching, In
  <2>2. calm # 0
    BY <2>1 DEF ClockInv
  <2>3. ~(\E s \in Requests \ {r} : In(s, "refresh"))
    BY DEF Fetching, In, Serves
  <2>4. k \in req[r].saw
    BY <2>1, <2>2, <2>3 DEF FetchInv, Seen
  <2> QED BY <2>2, <2>4
<1> QED BY <1>1, <1>2 DEF FetchInv

\* An answer shows all the keys published for a whole window.
LEMMA AnswerIsFull ==
    ASSUME FetchInv, ClockInv, RequestInv, NEW r \in Requests, In(r, "fetching"),
           NEW ks \in {req[r].saw, published}, NEW k \in published, age[k] >= TTL
    PROVE  k \in ks
<1>1. age[k] >= (IF req[r].late THEN 2 ELSE 1)
  BY DEF ClockInv, RequestInv
<1> QED BY <1>1 DEF FetchInv, Seen

\* Time: a fetch begins and ends within a tick, and ages all alike.
LEMMA TickFetches == KeysInv /\ Tick => ClockInv' /\ FetchInv'
<1> SUFFICES ASSUME KeysInv, Tick PROVE ClockInv' /\ FetchInv'
  OBVIOUS
<1>1. /\ window \in 0..TTL /\ calm \in 0..TTL /\ age \in [Kids -> 0..TTL]
      /\ published \subseteq Kids /\ published' = published /\ keys' = keys
      /\ window' = Older(window) /\ calm' \in {Older(calm), 0}
      /\ idpUp' = idpUp /\ (~idpUp => calm' = 0)
  BY DEF KeysInv, ClockInv, RequestInv, Tick, idp
<1>2. \A k \in published : age'[k] = Older(age[k])
  BY <1>1 DEF Tick
<1>3. \A n \in 0..TTL : Older(n) \in 0..TTL
  BY DEF Older
<1>4. age' \in [Kids -> 0..TTL]
  BY <1>1, <1>3 DEF Tick
<1>5. \A n, w \in 0..TTL : Older(n) > Older(w) => n > w
  BY DEF Older
<1>6. \A r \in Requests : /\ req'[r].phase = req[r].phase /\ req'[r].saw = req[r].saw
                          /\ ~req[r].late
                          /\ In(r, "fetching") => req'[r].late = TRUE
  <2> SUFFICES ASSUME NEW r \in Requests
               PROVE  /\ req'[r].phase = req[r].phase /\ req'[r].saw = req[r].saw
                      /\ ~req[r].late
                      /\ In(r, "fetching") => req'[r].late = TRUE
    OBVIOUS
  <2>1. req'[r] = [req[r] EXCEPT !.late = Exchanging(r)] /\ req[r] \in Request
    BY DEF Tick, KeysInv, RequestInv
  <2>2. Exchanging(r) = (req[r].phase \in {"discovering", "fetching"})
    BY DEF Exchanging
  <2>3. ~req[r].late
    BY DEF Tick
  <2> QED BY <2>1, <2>2, <2>3 DEF Request, In
<1>7. ASSUME NEW r \in Requests, In(r, "fetching")' PROVE Seen(r)'
  <2>1. In(r, "fetching") /\ Seen(r)
    BY <1>6, <1>7 DEF KeysInv, FetchInv, In
  <2>2. \A k \in published : age'[k] >= 2 => age[k] >= 1
    BY <1>1, <1>2 DEF Older
  <2>3. \A k \in published : age'[k] >= (IF req'[r].late THEN 2 ELSE 1) => k \in req'[r].saw
    BY <1>6, <2>1, <2>2 DEF Seen
  <2>4. CASE \E s \in Requests \ {r} : In(s, "refresh")
    <3>1. \E s \in Requests \ {r} : In(s, "refresh")'
      BY <2>4, <1>6 DEF In
    <3> QED BY <1>1, <2>3, <3>1 DEF Seen
  <2>5. CASE \A k \in published : age[k] > window => k \in req[r].saw
    <3>1. \A k \in published : age'[k] > window' => age[k] > window
      BY <1>1, <1>2, <1>5
    <3> QED BY <1>1, <1>6, <2>3, <2>5, <3>1 DEF Seen
  <2> QED BY <2>1, <2>4, <2>5 DEF Seen
<1>8. Held'
  <2> SUFFICES ASSUME calm' > window', ~Fetching', NEW k \in published', age'[k] > window'
               PROVE  k \in keys'
    BY DEF Held
  <2>1. calm > window
    BY <1>1, <1>3, <1>5
  <2>2. k \in published /\ age[k] > window
    BY <1>1, <1>2, <1>5
  <2>3. ~Fetching
    BY <1>6 DEF Fetching, In
  <2> QED BY <1>1, <2>1, <2>2, <2>3 DEF KeysInv, FetchInv, Held
<1>9. ClockInv'
  BY <1>1, <1>3, <1>4 DEF ClockInv
<1> QED BY <1>7, <1>8, <1>9 DEF FetchInv

\* A request that looks its key up while it is not fetching is refused one that
\* the issuer has long published only while another fetches them.
LEMMA LookUpReasons ==
    ASSUME KeysInv, NEW r \in Requests, ~In(r, "fetching"), NEW cred, LookUp(r, cred, keys)
    PROVE  RefusedForAReason'
<1>1. Serves(r) /\ Answers(r, cred, keys) /\ (req'[r].excused \/ ~(window >= TTL))
  BY LookUpSo DEF KeysInv
<1>2. req'[r].excused
  <2> SUFFICES ASSUME ~req'[r].excused PROVE FALSE
    OBVIOUS
  <2> DEFINE k == Kid(cred)
  <2>1. k \notin keys /\ k \in published /\ ~(age[k] < TTL) /\ ~(calm < TTL) /\ ~Fetching
        /\ ~(window >= TTL)
    BY <1>1 DEF Answers, Excuse
  <2> HIDE DEF k
  <2>2. /\ window \in 0..TTL /\ calm \in 0..TTL /\ age \in [Kids -> 0..TTL]
        /\ published \subseteq Kids
    BY DEF KeysInv, ClockInv, RequestInv
  <2>3. age[k] > window /\ calm > window
    BY <2>1, <2>2
  <2> QED BY <2>1, <2>3 DEF KeysInv, FetchInv, Held
<1> QED BY <1>1, <1>2 DEF KeysInv, RefusedForAReason, Serves

\* A request that has just fetched the keys is refused for a reason too.
LEMMA ContinueReasons ==
    ASSUME KeysInv, NEW r \in Requests, In(r, "fetching"), NEW ks, Continue(r, ks),
           calm = 0 \/ ks \in {req[r].saw, published}
    PROVE  RefusedForAReason'
<1>1. Serves(r) /\ Answers(r, CredOf(r), ks)
  BY ContinueSo DEF KeysInv
<1>2. req'[r].excused
  <2> SUFFICES ASSUME ~req'[r].excused PROVE FALSE
    OBVIOUS
  <2> DEFINE k == Kid(CredOf(r))
  <2>1. k \notin ks /\ k \in published /\ ~(age[k] < TTL) /\ ~(calm < TTL)
    BY <1>1 DEF Answers, Excuse
  <2> HIDE DEF k
  <2>2. calm \in 0..TTL /\ age \in [Kids -> 0..TTL] /\ published \subseteq Kids
    BY DEF KeysInv, ClockInv, RequestInv
  <2>3. age[k] >= TTL /\ calm # 0
    BY <2>1, <2>2
  <2> QED BY <2>1, <2>3, AnswerIsFull DEF KeysInv
<1> QED BY <1>1, <1>2 DEF KeysInv, RefusedForAReason, Serves

LEMMA KeysStep == KeysInv /\ [Next]_vars => KeysInv'
<1> SUFFICES ASSUME KeysInv, [Next]_vars PROVE KeysInv'
  OBVIOUS
<1>0. RequestInv'
  BY RequestStep DEF KeysInv
<1>1. ASSUME NEW r \in Requests, NEW cred \in Credentials, Arrive(r, cred)
      PROVE  KeysInv'
  <2>1. ~Exchanging(r) /\ ~In(r, "refresh") /\ ~In(r, "fetching")
        /\ UNCHANGED <<lock, keys, published, age, calm, idpUp>>
    BY <1>1 DEF Arrive, Exchanging, In, Waiting, idp
  <2>2. Serves(r) /\ Leaves(r) /\ ~Exchanging(r)' /\ RefusedForAReason'
    <3>1. CASE Ends(r, cred, "done", {DecidedAtOnce(cred)}, TRUE) /\ window' = window
      <4>1. Serves(r) /\ req'[r].phase = "done" /\ req'[r].excused = TRUE
        BY <3>1, EndsSo DEF KeysInv
      <4> QED BY <3>1, <4>1 DEF Leaves, Exchanging, KeysInv, RefusedForAReason, Serves
    <3>2. CASE LookUp(r, cred, keys)
      <4>1. Serves(r) /\ Leaves(r)
        BY <3>2, LookUpSo DEF KeysInv
      <4>2. req'[r].phase \in {"done", "unknown", "refresh"}
        BY <3>2, LookUpSo DEF KeysInv
      <4> QED BY <2>1, <3>2, <4>1, <4>2, LookUpReasons DEF Exchanging
    <3>3. CASE Waits(r, cred, "ensure", FALSE) /\ window' = window
      <4>1. Serves(r) /\ req'[r].phase = "ensure" /\ req'[r].excused = TRUE
        BY <3>3, WaitsSo DEF KeysInv
      <4> QED BY <3>3, <4>1 DEF Leaves, Exchanging, KeysInv, RefusedForAReason, Serves
    <3> QED BY <1>1, <3>1, <3>2, <3>3 DEF Arrive
  <2>3. LockInv' /\ FetchInv'
    BY <2>1, <2>2, LockStep, ApartFromFetches DEF KeysInv
  <2>4. ClockInv'
    BY <2>1, <2>2 DEF KeysInv, ClockInv, Leaves
  <2> QED BY <1>0, <2>2, <2>3, <2>4 DEF KeysInv
<1>2. ASSUME NEW r \in Requests, Discover(r)
      PROVE  KeysInv'
  <2>1. Serves(r) /\ req'[r].phase = "discovering" /\ req'[r].excused = TRUE
    BY <1>2, WaitsSo DEF Discover, KeysInv
  <2>2. /\ ~In(r, "refresh") /\ ~In(r, "fetching") /\ lock = Nobody /\ lock' = r
        /\ UNCHANGED <<keys, window, published, age, calm, idpUp>>
    BY <1>2 DEF Discover, In, idp, history
  <2>3. Leaves(r) /\ Exchanging(r)'
    BY <2>1, <2>2 DEF Leaves, Exchanging
  <2>4. LockInv' /\ FetchInv'
    BY <2>1, <2>2, <2>3, LockStep, ApartFromFetches DEF KeysInv
  <2> QED BY <1>0, <2>1, <2>2, <2>4 DEF KeysInv, ClockInv, RefusedForAReason, Serves
<1>3. ASSUME NEW r \in Requests, DiscoveredMeanwhile(r)
      PROVE  KeysInv'
  <2>1. ~Exchanging(r) /\ ~In(r, "refresh") /\ ~In(r, "fetching")
        /\ LookUp(r, CredOf(r), keys) /\ UNCHANGED <<lock, keys, published, age, calm, idpUp>>
    BY <1>3 DEF DiscoveredMeanwhile, Exchanging, In, idp
  <2>2. Serves(r) /\ Leaves(r) /\ RefusedForAReason'
    BY <2>1, LookUpSo, LookUpReasons DEF KeysInv
  <2>3. req'[r].phase \in {"done", "unknown", "refresh"}
    BY <2>1, LookUpSo DEF KeysInv
  <2>4. LockInv' /\ FetchInv'
    BY <2>1, <2>2, <2>3, LockStep, ApartFromFetches DEF KeysInv, Exchanging
  <2>5. ClockInv'
    BY <2>1, <2>2 DEF KeysInv, ClockInv, Leaves
  <2> QED BY <1>0, <2>2, <2>4, <2>5 DEF KeysInv
<1>4. ASSUME NEW r \in Requests, Discovered(r)
      PROVE  KeysInv'
  <2>1. Serves(r) /\ req'[r].phase = "refresh" /\ req'[r].excused = TRUE
    BY <1>4, WaitsSo DEF Discovered, KeysInv
  <2>2. /\ Exchanging(r) /\ ~In(r, "refresh") /\ ~In(r, "fetching") /\ lock' = Nobody
        /\ UNCHANGED <<keys, window, published, age, calm, idpUp>>
    BY <1>4 DEF Discovered, Exchanging, In, idp, history
  <2>3. Leaves(r) /\ ~Exchanging(r)'
    BY <2>1, <2>2 DEF Leaves, Exchanging
  <2>4. LockInv' /\ FetchInv'
    BY <2>1, <2>2, <2>3, LockStep, ApartFromFetches DEF KeysInv
  <2> QED BY <1>0, <2>1, <2>2, <2>4 DEF KeysInv, ClockInv, RefusedForAReason, Serves
<1>5. ASSUME NEW r \in Requests, StartFetch(r)
      PROVE  KeysInv'
  <2> DEFINE q == [req[r] EXCEPT !.phase = "fetching", !.saw = published]
  <2>1. Serves(r) /\ req'[r] = q
    <3>1. req' = [req EXCEPT ![r] = q]
      BY <1>5 DEF StartFetch, KeysInv, RequestInv
    <3> HIDE DEF q
    <3> QED BY <3>1, ServesOne DEF KeysInv
  <2>2. req'[r].phase = "fetching" /\ req'[r].saw = published
        /\ req'[r].excused = req[r].excused
    <3>1. req[r] \in Request
      BY DEF KeysInv, RequestInv
    <3> QED BY <2>1, <3>1 DEF Request
  <2>3. lock = Nobody /\ lock' = r /\ UNCHANGED <<keys, window, published, age, calm, idpUp>>
    BY <1>5 DEF StartFetch, idp, history
  <2>4. LockInv'
    BY <2>1, <2>2, <2>3, LockStep DEF KeysInv, Exchanging
  <2>5. \A s \in Requests : In(s, "fetching")' => s = r
    BY <2>1, <2>3 DEF KeysInv, LockInv, Exchanging, In, Serves
  <2>6. FetchInv'
    BY <2>2, <2>3, <2>5 DEF FetchInv, Seen, Held, Fetching, In
  <2> QED BY <1>0, <2>1, <2>2, <2>3, <2>4, <2>6
          DEF KeysInv, ClockInv, RefusedForAReason, Serves
<1>6. ASSUME NEW r \in Requests, Fetched(r) \/ FetchedNothing(r)
      PROVE  KeysInv'
  <2>1. /\ In(r, "fetching") /\ Exchanging(r) /\ lock' = Nobody /\ Continue(r, keys')
        /\ UNCHANGED <<published, age, calm, idpUp>>
    BY <1>6 DEF Fetched, FetchedNothing, In, Exchanging, idp
  <2>2. calm = 0 \/ keys' \in {req[r].saw, published}
    BY <1>6 DEF Fetched, FetchedNothing, KeysInv, ClockInv
  <2>3. Serves(r) /\ Leaves(r) /\ RefusedForAReason'
    BY <2>1, <2>2, ContinueSo, ContinueReasons DEF KeysInv
  <2>4. req'[r].phase \in {"done", "unknown", "refresh"}
    BY <2>1, ContinueSo DEF KeysInv
  <2>5. ~Exchanging(r)'
    BY <2>4 DEF Exchanging
  <2>6. LockInv' /\ FetchInv'
    BY <2>1, <2>2, <2>3, <2>5, LockStep, AfterExchange DEF KeysInv
  <2>7. ClockInv'
    BY <2>1, <2>3 DEF KeysInv, ClockInv, Leaves
  <2> QED BY <1>0, <2>3, <2>6, <2>7 DEF KeysInv
<1>7. ASSUME NEW r \in Requests, FetchFails(r)
      PROVE  KeysInv'
  <2>1. Serves(r) /\ req'[r].phase = "failed" /\ req'[r].excused = TRUE
    BY <1>7, EndsSo DEF FetchFails, KeysInv
  <2>2. /\ Exchanging(r) /\ lock' = Nobody /\ calm = 0
        /\ UNCHANGED <<keys, window, published, age, calm, idpUp>>
    BY <1>7 DEF FetchFails, KeysInv, ClockInv, idp, history
  <2>3. Leaves(r) /\ ~Exchanging(r)'
    BY <2>1, <2>2 DEF Leaves, Exchanging
  <2>4. LockInv' /\ FetchInv'
    BY <2>1, <2>2, <2>3, LockStep, AfterExchange DEF KeysInv
  <2> QED BY <1>0, <2>1, <2>2, <2>4 DEF KeysInv, ClockInv, RefusedForAReason, Serves
<1>8. ASSUME NEW ks \in SUBSET Kids, Rotate(ks)
      PROVE  KeysInv'
  <2>1. /\ UNCHANGED <<req, keys, window, lock, idpUp, calm>> /\ published' = ks
        /\ age' = [k \in Kids |-> IF k \in published \cap ks THEN age[k] ELSE 0]
    BY <1>8 DEF Rotate, cacheVars
  <2>2. ClockInv'
    BY <2>1 DEF KeysInv, ClockInv
  <2>3. \A k \in published' : age'[k] = 0 \/ (k \in published /\ age'[k] = age[k])
    BY <2>1
  <2>4. \A k \in published', n \in 0..TTL : age'[k] > n \/ age'[k] >= 1 =>
            k \in published /\ age'[k] = age[k]
    BY <2>3
  <2>5. ASSUME NEW r \in Requests, In(r, "fetching")' PROVE Seen(r)'
    <3>1. Seen(r)
      BY <2>1, <2>5 DEF KeysInv, FetchInv, In
    <3>2. \A k \in published' : age'[k] >= (IF req'[r].late THEN 2 ELSE 1) => k \in req'[r].saw
      BY <2>1, <2>3, <3>1 DEF Seen
    <3>3. CASE \E s \in Requests \ {r} : In(s, "refresh")
      BY <2>1, <3>2, <3>3 DEF Seen, In
    <3>4. CASE \A k \in published : age[k] > window => k \in req[r].saw
      <4>1. window \in 0..TTL /\ window' = window
        BY <2>1 DEF KeysInv, ClockInv
      <4>2. \A k \in published' : age'[k] > window' => k \in req'[r].saw
        BY <2>1, <2>4, <3>4, <4>1
      <4> QED BY <3>2, <4>2 DEF Seen
    <3> QED BY <3>1, <3>3, <3>4 DEF Seen
  <2>6. Held'
    <3>1. window \in 0..TTL /\ Held
      BY DEF KeysInv, ClockInv, FetchInv
    <3> QED BY <2>1, <2>4, <3>1 DEF Held, Fetching, In
  <2> QED BY <1>0, <2>1, <2>2, <2>5, <2>6
          DEF KeysInv, FetchInv, LockInv, Exchanging, RefusedForAReason
<1>9. CASE GoDown
  <2>1. UNCHANGED <<req, keys, window, lock, published, age>> /\ idpUp' = FALSE /\ calm' = 0
    BY <1>9 DEF GoDown, cacheVars
  <2>2. ClockInv'
    BY <2>1 DEF KeysInv, ClockInv
  <2>3. Held'
    BY <2>1 DEF Held, KeysInv, ClockInv
  <2>4. FetchInv'
    BY <2>1, <2>3 DEF KeysInv, FetchInv, Seen, In
  <2> QED BY <1>0, <2>1, <2>2, <2>4 DEF KeysInv, LockInv, Exchanging, RefusedForAReason
<1>10. CASE ComeBack
  <2>1. UNCHANGED <<req, keys, window, lock, published, age, calm>> /\ idpUp' = TRUE
    BY <1>10 DEF ComeBack, cacheVars, history
  <2>2. ClockInv' /\ FetchInv'
    BY <2>1 DEF KeysInv, ClockInv, FetchInv, Seen, Held, Fetching, In
  <2> QED BY <1>0, <2>1, <2>2 DEF KeysInv, LockInv, Exchanging, RefusedForAReason
<1>11. CASE Tick
  <2>1. \A r \in Requests : req'[r].phase = req[r].phase /\ req'[r].excused = req[r].excused
    <3> SUFFICES ASSUME NEW r \in Requests
                 PROVE  req'[r].phase = req[r].phase /\ req'[r].excused = req[r].excused
      OBVIOUS
    <3>1. req'[r] = [req[r] EXCEPT !.late = Exchanging(r)] /\ req[r] \in Request
      BY <1>11 DEF Tick, KeysInv, RequestInv
    <3> QED BY <3>1 DEF Request
  <2>2. LockInv' /\ RefusedForAReason'
    BY <1>11, <2>1 DEF Tick, KeysInv, LockInv, Exchanging, RefusedForAReason
  <2> QED BY <1>0, <1>11, <2>2, TickFetches DEF KeysInv
<1>12. CASE UNCHANGED vars
  BY <1>0, <1>12 DEF vars, cacheVars, idp, history, KeysInv, LockInv, ClockInv, FetchInv,
     Seen, Held, Fetching, In, Exchanging, RefusedForAReason
<1> QED BY <1>1, <1>2, <1>3, <1>4, <1>5, <1>6, <1>7, <1>8, <1>9, <1>10, <1>11, <1>12 DEF Next

LEMMA KeysInit == Init => KeysInv
<1> SUFFICES ASSUME Init PROVE KeysInv
  OBVIOUS
<1>1. RequestInv
  BY DEF Init, RequestInv, Request, Phases, HasOwnOutcome, Blank
<1>2. \A r \in Requests : req[r].phase = "idle" /\ req[r].excused = TRUE
  BY DEF Init, Blank
<1>3. LockInv /\ ClockInv
  BY <1>2 DEF Init, LockInv, ClockInv, Exchanging
<1>4. FetchInv
  BY <1>2 DEF Init, FetchInv, Held, In
<1> QED BY <1>1, <1>2, <1>3, <1>4 DEF KeysInv, RefusedForAReason

\* A key the issuer has long published is refused only while another request
\* fetches the keys, or after an outage, however many requests share the cache
\* and whenever they run.
THEOREM RefusalsHaveReasons == Spec => []RefusedForAReason
<1>1. KeysInv => RefusedForAReason
  BY DEF KeysInv
<1> QED BY <1>1, KeysInit, KeysStep, PTL DEF Spec

\* The cache holds the issuer's kids, and a request its lock.
THEOREM TypeCorrect == Spec => []TypeOK
<1> DEFINE CacheTypes == /\ discovered \in BOOLEAN /\ keys \subseteq Kids
                         /\ lock \in Requests \cup {Nobody}
<1>1. Init => KeysInv /\ CacheTypes
  <2>1. Init => KeysInv
    BY KeysInit
  <2> QED BY <2>1 DEF Init
<1>2. KeysInv /\ CacheTypes /\ [Next]_vars => CacheTypes'
  <2> SUFFICES ASSUME KeysInv, CacheTypes, [Next]_vars PROVE CacheTypes'
    OBVIOUS
  <2>1. published \subseteq Kids /\ \A r \in Requests : req[r].saw \subseteq Kids
    BY DEF KeysInv, RequestInv, Request
  <2>2. ASSUME NEW r \in Requests, Handlers(r) PROVE CacheTypes'
    BY <2>1, <2>2 DEF Handlers, Discover, DiscoveredMeanwhile, Discovered, StartFetch,
       Fetched, FetchedNothing, FetchFails
  <2>3. CASE UNCHANGED <<discovered, keys, lock>>
    BY <2>3
  <2> QED BY <2>2, <2>3 DEF Next, Handlers, Arrive, Rotate, GoDown, ComeBack, Tick, vars,
          cacheVars
<1>3. KeysInv /\ CacheTypes => TypeOK
  <2> SUFFICES ASSUME KeysInv, CacheTypes PROVE TypeOK
    OBVIOUS
  <2>1. ASSUME NEW r \in Requests
        PROVE  /\ req[r].phase \in Waiting \cup {"idle", "done", "failed", "unknown"}
               /\ req[r].saw \subseteq Kids
    BY DEF KeysInv, RequestInv, Request, Phases
  <2> QED BY <2>1 DEF KeysInv, RequestInv, ClockInv, TypeOK
<1> QED BY <1>1, <1>2, <1>3, KeysStep, PTL DEF Spec
=============================================================================
