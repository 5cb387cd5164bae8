--------------------------- MODULE MCHttpPipeline ---------------------------
(* HttpPipeline for TLC. *)
EXTENDS HttpPipeline, TLC

CONSTANTS r1, r2, c1, p1

MCChains ==
  {<<"trace", "logger", "metrics", "recovery", "authenticate", "permission">>,
   <<"recovery", "metrics", "trace", "optional">>,
   <<"metrics", "trace", "contour", "authenticate">>}

MCClaims ==
  [h \in {"owner", "granted", "outside"} |->
     [owner |-> h = "owner",
      permissions |-> {},
      contours |-> IF h = "granted" THEN {[contour |-> c1, permissions |-> {p1}]}
                                    ELSE {}]]

Symm == Permutations({r1, r2})
=============================================================================
