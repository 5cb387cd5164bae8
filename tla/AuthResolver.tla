---------------------------- MODULE AuthResolver ----------------------------
(***************************************************************************)
(* pkg/auth/resolver.go behind pkg/auth/fiber/middleware.go: requests that *)
(* carry a JWT, the cache of the issuer's keys they share, and the fetches *)
(* of the key set.                                                         *)
(*                                                                         *)
(* A request looks its key up under the read lock; on a miss it fetches    *)
(* the set without any lock, installs it with the time of installation,    *)
(* and looks again.  Nothing stops two requests from fetching at once, so  *)
(* the answers may be installed in another order than they were taken.     *)
(***************************************************************************)
EXTENDS JwksEndpoint

CONSTANTS
  Requests,    \* requests, each with one token or none
  NoKid,       \* a token without a kid
  NoRequest,   \* no request
  CacheTTL,    \* how long a key set is used
  Timeout      \* the HTTP client's limit for one fetch

ASSUME ResolverAssumption ==
  /\ CacheTTL \in Nat \ {0}
  /\ Timeout \in Nat \ {0}
  /\ NoKid \notin Kids
  /\ NoRequest \notin Requests

VARIABLES
  keys,        \* the cached set
  fetchedAt,   \* when it was installed
  pc,          \* where a request is
  kid,         \* the key its token names
  startedAt,   \* when its fetch began
  answer,      \* the key set its fetch brought
  status,      \* what the middleware makes of it
  installer    \* history: the request that installed the cached set

requestVars == <<pc, kid, startedAt, answer, status>>
cacheVars == <<keys, fetchedAt, installer>>
vars == <<endpointVars, requestVars, cacheVars>>

\* The zero time of a cache that was never filled is older than any TTL, and
\* so is the last publication of a key that never was.
LongAgo == 0 - (CacheTTL + Timeout + 1)

TypeOK ==
  /\ now \in Nat
  /\ published \subseteq Kids
  /\ lastPublished \in [Kids -> Int]
  /\ rotations \in Nat
  /\ keys \subseteq Kids
  /\ fetchedAt \in Int
  /\ pc \in [Requests -> {"lookup", "fetching", "reading", "again", "done"}]
  /\ kid \in [Requests -> Kids \cup {NoKid}]
  /\ startedAt \in [Requests -> Nat]
  /\ answer \in [Requests -> SUBSET Kids]
  /\ status \in [Requests -> {"open", "accepted", "unauthorized", "internal"}]
  /\ installer \in Requests \cup {NoRequest}

\* The tokens are an input: any kid, known to the issuer or not.
Init ==
  /\ EndpointInit(LongAgo)
  /\ keys = {} /\ fetchedAt = LongAgo /\ installer = NoRequest
  /\ pc = [r \in Requests |-> "lookup"]
  /\ kid \in [Requests -> Kids \cup {NoKid}]
  /\ startedAt = [r \in Requests |-> 0]
  /\ answer = [r \in Requests |-> {}]
  /\ status = [r \in Requests |-> "open"]

-----------------------------------------------------------------------------
(* The resolver. *)

Fresh == ~(now - fetchedAt > CacheTTL)

\* cachedKey, under the read lock.
Cached(k) == Fresh /\ k \in keys

\* A request's verdict; its fetch is forgotten.
Finish(r, verdict) ==
  /\ pc' = [pc EXCEPT ![r] = "done"]
  /\ status' = [status EXCEPT ![r] = verdict]
  /\ startedAt' = [startedAt EXCEPT ![r] = 0]
  /\ answer' = [answer EXCEPT ![r] = {}]
  /\ UNCHANGED kid

\* Resolve turns every error into ErrUnauthorized, and the middleware turns
\* that into a 401; its 500 is for other errors.
AsStatus(err) == IF err = "ErrUnauthorized" THEN "unauthorized" ELSE "internal"

\* Mutant of Resolved: the error of a failed fetch is passed on.
ResolvedVerbatim(err) == IF err = "token" THEN "ErrUnauthorized" ELSE err

Resolved(err) == "ErrUnauthorized"

Refuse(r, err) == Finish(r, AsStatus(Resolved(err)))

\* The key is found: the signature, the issuer, the expiry, the audience and
\* the subject decide.
UseKey(r) == Finish(r, "accepted") \/ Refuse(r, "token")

\* No token, or a token without kid, or signed by another method: no key is
\* looked for.
RefuseEarly(r) ==
  /\ pc[r] = "lookup"
  /\ kid[r] = NoKid
  /\ Refuse(r, "ErrUnauthorized")
  /\ UNCHANGED <<endpointVars, cacheVars>>

Hit(r) ==
  /\ pc[r] = "lookup"
  /\ Cached(kid[r])
  /\ UseKey(r)
  /\ UNCHANGED <<endpointVars, cacheVars>>

InFlight(r) == pc[r] \in {"fetching", "reading"}

\* A miss starts a fetch of its own, also while others are fetching.
Miss(r) ==
  /\ pc[r] = "lookup"
  /\ kid[r] # NoKid
  /\ ~Cached(kid[r])
  /\ pc' = [pc EXCEPT ![r] = "fetching"]
  /\ startedAt' = [startedAt EXCEPT ![r] = now]
  /\ UNCHANGED <<endpointVars, cacheVars, kid, answer, status>>

\* The endpoint answers with the set it publishes at that moment.
Respond(r) ==
  /\ pc[r] = "fetching"
  /\ pc' = [pc EXCEPT ![r] = "reading"]
  /\ answer' = [answer EXCEPT ![r] = published]
  /\ UNCHANGED <<endpointVars, cacheVars, kid, startedAt, status>>

\* Mutant of FetchFails: a failed fetch keeps the old set alive.
FetchFailsExtends(r) ==
  /\ InFlight(r)
  /\ Refuse(r, "Internal")
  /\ fetchedAt' = now
  /\ UNCHANGED <<endpointVars, keys, installer>>

\* No answer in time, a bad status, a body that cannot be decoded, a context
\* that ended, or no supported key in the set.
FetchFails(r) ==
  /\ InFlight(r)
  /\ Refuse(r, "Internal")
  /\ UNCHANGED <<endpointVars, cacheVars>>

\* Mutant of Install: a set that is there already is kept.
InstallKeepsFirst(r) ==
  /\ pc[r] = "reading"
  /\ answer[r] # {}
  /\ keys' = IF Fresh THEN keys ELSE answer[r]
  /\ fetchedAt' = now
  /\ installer' = r
  /\ pc' = [pc EXCEPT ![r] = "again"]
  /\ UNCHANGED <<endpointVars, kid, startedAt, answer, status>>

\* The set replaces the cached one, whatever that one is.
Install(r) ==
  /\ pc[r] = "reading"
  /\ answer[r] # {}
  /\ keys' = answer[r]
  /\ fetchedAt' = now
  /\ installer' = r
  /\ pc' = [pc EXCEPT ![r] = "again"]
  /\ UNCHANGED <<endpointVars, kid, startedAt, answer, status>>

HitAgain(r) ==
  /\ pc[r] = "again"
  /\ Cached(kid[r])
  /\ UseKey(r)
  /\ UNCHANGED <<endpointVars, cacheVars>>

MissAgain(r) ==
  /\ pc[r] = "again"
  /\ ~Cached(kid[r])
  /\ Refuse(r, "ErrUnauthorized")
  /\ UNCHANGED <<endpointVars, cacheVars>>

-----------------------------------------------------------------------------

\* The client's timeout covers the fetch until the body is read; decoding
\* and installing take no time on this clock.
Time ==
  /\ \A r \in Requests : InFlight(r) => now + 1 - startedAt[r] <= Timeout
  /\ Tick
  /\ UNCHANGED <<requestVars, cacheVars>>

Rotation == Rotate /\ UNCHANGED <<requestVars, cacheVars>>

Step(r) == \/ RefuseEarly(r) \/ Hit(r) \/ Miss(r) \/ Respond(r)
           \/ FetchFails(r) \/ Install(r) \/ HitAgain(r) \/ MissAgain(r)

Next == Time \/ Rotation \/ \E r \in Requests : Step(r)

Spec == Init /\ [][Next]_vars

-----------------------------------------------------------------------------
(* Properties. *)

\* A key the cache would serve now was published at most a TTL and a fetch
\* ago: the time of installation stands in for the time of publication, and
\* an answer overtaken by a newer one may still be installed after it.
ServedKeysAreRecent ==
  \A k \in Kids : Cached(k) => now - lastPublished[k] <= CacheTTL + Timeout

\* When the set a request's own fetch brought has its key and the cache that
\* it looks at next has not, another fetch that was under way has replaced
\* the set.  Only that, or the TTL, takes from a request the key it fetched.
OvertakenOnly ==
  \A r \in Requests :
    (pc[r] = "again" /\ kid[r] \in answer[r] \ keys)
      => installer \notin {r, NoRequest}

\* Requests are let in on recently published keys only, and
\* every failure, an outage of the endpoint too, is a 401 and never a 500.
Trust == INSTANCE KeyTrust WITH verdict <- status, Window <- CacheTTL + Timeout

RefinesKeyTrust == Trust!TrustSpec
=============================================================================
