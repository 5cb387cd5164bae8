---------------------------- MODULE MCGrpcServer ----------------------------
(* GrpcService for TLC: callers with and without a token, correlation and   *)
(* deadline, and a service without a default timeout.                       *)
EXTENDS GrpcService

Request(a, i, t, d) ==
  [authorization |-> a, request_id |-> i, trace |-> t, deadline |-> d]

MCRequests == {Request("Bearer", "caller", "none", FALSE),
               Request("Bearer caller", "caller", "none", TRUE),
               Request("Bearer caller", "none", "caller", FALSE)}
=============================================================================
