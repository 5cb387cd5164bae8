---------------------------- MODULE OidcVerifier ----------------------------
(***************************************************************************)
(* pkg/oidc/verifier.go behind the server interceptors of                  *)
(* pkg/grpckit/identity.go: calls that carry a service token, the key      *)
(* cache they share, and the fetches of the key set.                       *)
(*                                                                         *)
(* It differs from AuthResolver in three ways.  The second look, after a   *)
(* fetch, does not ask how old the set is.  A set is fresh while it is     *)
(* younger than the TTL, not up to the TTL.  And a key must be of the kind *)
(* the token's algorithm works with.                                       *)
(***************************************************************************)
EXTENDS JwksEndpoint

CONSTANTS
  Requests,    \* calls, each with one token or none
  NoKid,       \* a token without a kid
  Kind,        \* the kind of each key, "rsa" or "ed25519"
  Methods,     \* the configured AllowedAlgorithms
  CacheTTL,    \* how long a key set is used
  Timeout,     \* the HTTP client's limit for one fetch
  Pause        \* bound: time from installing a set to the second look

Algorithms == {"RS256", "EdDSA", "HS256"}

ASSUME VerifierAssumption ==
  /\ CacheTTL \in Nat \ {0}
  /\ Timeout \in Nat \ {0}
  /\ Pause \in Nat
  /\ NoKid \notin Kids
  /\ Kind \in [Kids -> {"rsa", "ed25519"}]
  /\ Methods \subseteq Algorithms

VARIABLES
  keys,        \* the cached set
  fetchedAt,   \* when it was installed
  pc,          \* where a call is
  kid,         \* the key its token names
  alg,         \* the algorithm its token names
  since,       \* when its fetch began, then when it installed the set
  answer,      \* the key set its fetch brought
  status       \* what the interceptor makes of it

callVars  == <<pc, kid, alg, since, answer, status>>
cacheVars == <<keys, fetchedAt>>
vars == <<endpointVars, callVars, cacheVars>>

LongAgo == 0 - (CacheTTL + Timeout + Pause + 1)

TypeOK ==
  /\ now \in Nat
  /\ published \subseteq Kids
  /\ lastPublished \in [Kids -> Int]
  /\ rotations \in Nat
  /\ keys \subseteq Kids
  /\ fetchedAt \in Int
  /\ pc \in [Requests -> {"lookup", "fetching", "reading", "again", "done"}]
  /\ kid \in [Requests -> Kids \cup {NoKid}]
  /\ alg \in [Requests -> Algorithms]
  /\ since \in [Requests -> Nat]
  /\ answer \in [Requests -> SUBSET Kids]
  /\ status \in [Requests -> {"open", "accepted", "unauthorized"}]

\* The tokens are an input.
Init ==
  /\ EndpointInit(LongAgo)
  /\ keys = {} /\ fetchedAt = LongAgo
  /\ pc = [r \in Requests |-> "lookup"]
  /\ kid \in [Requests -> Kids \cup {NoKid}]
  /\ alg \in [Requests -> Algorithms]
  /\ since = [r \in Requests |-> 0]
  /\ answer = [r \in Requests |-> {}]
  /\ status = [r \in Requests |-> "open"]

-----------------------------------------------------------------------------

\* Mutant of Fresh: the TTL itself still counts as fresh, and so does the
\* next moment.
FreshTooLong == now - fetchedAt <= CacheTTL + 1

Fresh == now - fetchedAt < CacheTTL

\* A call's verdict; its fetch is forgotten.
Finish(r, verdict) ==
  /\ pc' = [pc EXCEPT ![r] = "done"]
  /\ status' = [status EXCEPT ![r] = verdict]
  /\ since' = [since EXCEPT ![r] = 0]
  /\ answer' = [answer EXCEPT ![r] = {}]
  /\ UNCHANGED <<kid, alg>>

\* Verify has one error for every failure.
Refuse(r) == Finish(r, "unauthorized")

\* Mutant of KeyForAlgorithm: the kind of the key is not looked at.
AnyKeyForAlgorithm(k, a) == a \in {"RS256", "EdDSA"}

\* keyForAlgorithm: an RSA key for RS and PS, an Ed25519 key for EdDSA, and no
\* key for anything else, allowed or not.
KeyForAlgorithm(k, a) ==
  \/ a = "RS256" /\ Kind[k] = "rsa"
  \/ a = "EdDSA" /\ Kind[k] = "ed25519"

\* The key is found: its kind, then the signature, the issuer, the expiry, the
\* audience, the caller and the subject decide.
UseKey(r) ==
  \/ KeyForAlgorithm(kid[r], alg[r]) /\ Finish(r, "accepted")
  \/ Refuse(r)

\* Does the token get as far as the key: its algorithm is allowed and it has
\* a kid.
Admissible(r) == alg[r] \in Methods /\ kid[r] # NoKid

\* No token, no kid, or an algorithm that is not allowed.
RefuseEarly(r) ==
  /\ pc[r] = "lookup"
  /\ ~Admissible(r)
  /\ Refuse(r)
  /\ UNCHANGED <<endpointVars, cacheVars>>

Hit(r) ==
  /\ pc[r] = "lookup"
  /\ Admissible(r)
  /\ kid[r] \in keys /\ Fresh
  /\ UseKey(r)
  /\ UNCHANGED <<endpointVars, cacheVars>>

Miss(r) ==
  /\ pc[r] = "lookup"
  /\ Admissible(r)
  /\ ~(kid[r] \in keys /\ Fresh)
  /\ pc' = [pc EXCEPT ![r] = "fetching"]
  /\ since' = [since EXCEPT ![r] = now]
  /\ UNCHANGED <<endpointVars, cacheVars, kid, alg, answer, status>>

\* The endpoint answers with the set it publishes at that moment.
Respond(r) ==
  /\ pc[r] = "fetching"
  /\ pc' = [pc EXCEPT ![r] = "reading"]
  /\ answer' = [answer EXCEPT ![r] = published]
  /\ UNCHANGED <<endpointVars, cacheVars, kid, alg, since, status>>

InFlight(r) == pc[r] \in {"fetching", "reading"}

\* Mutant of FetchFails: after a failed fetch the old set is looked at.
FetchFailsLooksAgain(r) ==
  /\ InFlight(r)
  /\ pc' = [pc EXCEPT ![r] = "again"]
  /\ since' = [since EXCEPT ![r] = now]
  /\ UNCHANGED <<endpointVars, cacheVars, kid, alg, answer, status>>

\* No answer in time, a status other than 200, a body that cannot be decoded,
\* a context that ended, or no supported key in the set.  An old set is not
\* fallen back upon.
FetchFails(r) ==
  /\ InFlight(r)
  /\ Refuse(r)
  /\ UNCHANGED <<endpointVars, cacheVars>>

\* The set replaces the cached one, whatever that one is.
Install(r) ==
  /\ pc[r] = "reading"
  /\ answer[r] # {}
  /\ keys' = answer[r]
  /\ fetchedAt' = now
  /\ since' = [since EXCEPT ![r] = now]
  /\ pc' = [pc EXCEPT ![r] = "again"]
  /\ UNCHANGED <<endpointVars, kid, alg, answer, status>>

\* The second look takes what the cache holds, of any age.
HitAgain(r) ==
  /\ pc[r] = "again"
  /\ kid[r] \in keys
  /\ UseKey(r)
  /\ UNCHANGED <<endpointVars, cacheVars>>

MissAgain(r) ==
  /\ pc[r] = "again"
  /\ kid[r] \notin keys
  /\ Refuse(r)
  /\ UNCHANGED <<endpointVars, cacheVars>>

-----------------------------------------------------------------------------

\* A fetch ends within the timeout, and nothing but the scheduler comes
\* between installing a set and the second look.
Time ==
  /\ \A r \in Requests : InFlight(r) => now + 1 - since[r] <= Timeout
  /\ \A r \in Requests : pc[r] = "again" => now + 1 - since[r] <= Pause
  /\ Tick
  /\ UNCHANGED <<callVars, cacheVars>>

Rotation == Rotate /\ UNCHANGED <<callVars, cacheVars>>

Step(r) == \/ RefuseEarly(r) \/ Hit(r) \/ Miss(r) \/ Respond(r)
           \/ FetchFails(r) \/ Install(r) \/ HitAgain(r) \/ MissAgain(r)

Next == Time \/ Rotation \/ \E r \in Requests : Step(r)

Spec == Init /\ [][Next]_vars

-----------------------------------------------------------------------------
(* Properties. *)

\* A set is used while it is younger than the TTL, or for a pause.
Larger(a, b) == IF a >= b THEN a ELSE b
Window == Timeout + Larger(CacheTTL - 1, Pause)

\* Served(r): the cache would give r its key, at its first look or its second.
Served(r) ==
  \/ pc[r] = "lookup" /\ kid[r] \in keys /\ Fresh
  \/ pc[r] = "again" /\ kid[r] \in keys

\* A key is served at most a window after its publication, at the second look
\* as well, which does not check the age: the set there is one that this call
\* or a later one has just installed.
ServedKeysAreRecent ==
  \A r \in Requests : Served(r) => now - lastPublished[kid[r]] <= Window

\* Who is let in named an allowed algorithm and a key made for it, whichever
\* of the two looks found the key.
NoAlgorithmConfusion ==
  \A r \in Requests : status[r] = "accepted" =>
    /\ alg[r] \in Methods
    /\ Kind[kid[r]] = "rsa" => alg[r] = "RS256"
    /\ Kind[kid[r]] = "ed25519" => alg[r] = "EdDSA"

\* The abstract promise, with this verifier's window; the interceptors turn
\* every error of Verify into Unauthenticated.
Trust == INSTANCE KeyTrust WITH verdict <- status

RefinesKeyTrust == Trust!TrustSpec
=============================================================================
