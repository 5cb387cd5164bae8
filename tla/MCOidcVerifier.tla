--------------------------- MODULE MCOidcVerifier ---------------------------
(* OidcVerifier for TLC: an RSA and an Ed25519 key, and an allowed algorithm *)
(* that no key works with.                                                   *)
EXTENDS OidcVerifier, TLC

CONSTANTS k1, k2

MCKids == {k1, k2}
MCKind == k1 :> "rsa" @@ k2 :> "ed25519"
MCMethods == {"RS256", "HS256"}

RequestSymmetry == Permutations(Requests)
=============================================================================
