-------------------------- MODULE MCTokenProvider --------------------------
(* TokenProvider for TLC. *)
EXTENDS TokenProvider
=============================================================================
