------------------------- MODULE MCPrometheusServer -------------------------
(* PrometheusServer for TLC. *)
EXTENDS PrometheusServer
=============================================================================
