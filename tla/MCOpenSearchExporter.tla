------------------------ MODULE MCOpenSearchExporter ------------------------
(* OpenSearchExporter for TLC. *)
EXTENDS OpenSearchExporter
=============================================================================
