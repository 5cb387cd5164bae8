--------------------------- MODULE MCServiceStart ---------------------------
(* ServiceStart for TLC. *)
EXTENDS ServiceStart

CONSTANTS r1, r2, operator

MCParts == [r \in {r1, r2} |-> IF r = r1 THEN {"redis"} ELSE {"telemetry"}]
=============================================================================
