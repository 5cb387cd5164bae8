--------------------------- MODULE MCAuthResolver ---------------------------
(* AuthResolver for TLC. *)
EXTENDS AuthResolver
=============================================================================
