---------------------------- MODULE JwksEndpoint ----------------------------
(***************************************************************************)
(* The issuer's JWKS endpoint and the clock, as pkg/auth/resolver.go and   *)
(* pkg/oidc/verifier.go see them: a set of published keys that the issuer  *)
(* rotates whenever it likes.  Neither is code of the repository.          *)
(*                                                                         *)
(* A key is named by its kid.  The set holds the supported keys only: both *)
(* clients skip the entries they cannot use before they look at the set.   *)
(***************************************************************************)
EXTENDS Integers

CONSTANTS
  Kids,          \* key ids the issuer ever uses
  MaxTime,       \* bound: the clock stops here
  MaxRotations   \* bound: how often the issuer changes the set

ASSUME EndpointAssumption == MaxTime \in Nat /\ MaxRotations \in Nat

VARIABLES
  now,           \* the clock
  published,     \* the keys the endpoint answers with
  lastPublished, \* history: when a key was last published
  rotations      \* for the bound

endpointVars == <<now, published, lastPublished, rotations>>

\* A key that was never published last was before any time that matters.
EndpointInit(longAgo) ==
  /\ now = 0
  /\ published \in SUBSET Kids
  /\ lastPublished = [k \in Kids |-> IF k \in published THEN 0 ELSE longAgo]
  /\ rotations = 0

\* A unit of time passes.
Tick ==
  /\ now < MaxTime
  /\ now' = now + 1
  /\ lastPublished' =
       [k \in Kids |-> IF k \in published THEN now + 1 ELSE lastPublished[k]]
  /\ UNCHANGED <<published, rotations>>

\* The issuer adds and retires keys.
Rotate ==
  /\ rotations < MaxRotations
  /\ rotations' = rotations + 1
  /\ \E new \in SUBSET Kids :
       /\ new # published
       /\ published' = new
       /\ lastPublished' =
            [k \in Kids |-> IF k \in new THEN now ELSE lastPublished[k]]
  /\ UNCHANGED now
=============================================================================
