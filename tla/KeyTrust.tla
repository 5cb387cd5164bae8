------------------------------ MODULE KeyTrust ------------------------------
(***************************************************************************)
(* What a verifier of JWTs with a key cache promises: a request is let in  *)
(* only on a key that the issuer published at most Window ago, and every   *)
(* other one is refused as unauthorized, whatever the reason.              *)
(***************************************************************************)
EXTENDS JwksEndpoint

CONSTANTS Requests, Window, LongAgo

VARIABLES
  kid,        \* the key a request's token names
  verdict     \* "open", "accepted" or "unauthorized"

trustVars == <<endpointVars, kid, verdict>>

TrustInit ==
  /\ EndpointInit(LongAgo)
  /\ verdict = [r \in Requests |-> "open"]

Trusted(r) ==
  /\ kid[r] \in Kids
  /\ now - lastPublished[kid[r]] <= Window

\* A verdict is given once.
Decide(r) ==
  /\ verdict[r] = "open"
  /\ \/ Trusted(r) /\ verdict' = [verdict EXCEPT ![r] = "accepted"]
     \/ verdict' = [verdict EXCEPT ![r] = "unauthorized"]
  /\ UNCHANGED <<endpointVars, kid>>

TrustNext ==
  \/ (Tick \/ Rotate) /\ UNCHANGED <<kid, verdict>>
  \/ \E r \in Requests : Decide(r)

TrustSpec == TrustInit /\ [][TrustNext]_trustVars
=============================================================================
