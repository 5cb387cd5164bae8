----------------------------- MODULE GrpcService -----------------------------
(***************************************************************************)
(* A service on top of GrpcServer: the server's interceptor that verifies  *)
(* the caller, a handler that may call another service, and the client's   *)
(* interceptor and default deadline of that call (pkg/grpckit/identity.go, *)
(* client.go).  Unary calls and streams pass the same two functions.       *)
(*                                                                         *)
(* The verifier and the token provider have modules of their own; here     *)
(* each succeeds or fails, a missing one included.  Stop cancels a call's  *)
(* context and does not wait for its handler, which ends by itself.        *)
(***************************************************************************)
EXTENDS GrpcServer

CONSTANTS
  Requests,      \* metadata and deadline a remote call may come with
  DefaultTimeout \* the service gives its calls a timeout

AnyRequest ==
  [authorization : {"none", "Basic", "Bearer", "Bearer caller"},
   request_id : {"none", "caller"}, trace : {"none", "caller"},
   deadline : BOOLEAN]

ASSUME ServiceAssumption == Requests \subseteq AnyRequest /\ DefaultTimeout \in BOOLEAN

\* What may leave a handler.
Metadata == [authorization : {"none", "Bearer service"},
             request_id : {"none", "caller", "own"},
             trace : {"none", "caller", "own"}]

VARIABLES
  request,   \* what a remote call came with
  stage,     \* where its goroutine is
  out,       \* the metadata of the call its handler makes
  bounded    \* that call's context has a deadline, and the caller's context

serviceVars == <<request, stage, out, bounded>>

NoRequest == [authorization |-> "none", request_id |-> "none",
              trace |-> "none", deadline |-> FALSE]
NoCall == [authorization |-> "none", request_id |-> "none", trace |-> "none"]

ServiceInit ==
  /\ Init
  /\ request = [r \in Rpcs |-> NoRequest]
  /\ stage = [r \in Rpcs |-> "outside"]
  /\ out = [r \in Rpcs |-> NoCall]
  /\ bounded = [r \in Rpcs |-> [deadline |-> FALSE, parent |-> FALSE]]

ServiceTypeOK ==
  /\ request \in [Rpcs -> AnyRequest]
  /\ stage \in [Rpcs -> {"outside", "interceptor", "handler", "calling",
                         "called", "ended"}]
  /\ out \in [Rpcs -> Metadata]
  /\ bounded \in [Rpcs -> [deadline : BOOLEAN, parent : BOOLEAN]]

-----------------------------------------------------------------------------
(* The server's side. *)

Arrive(r) ==
  /\ RpcBegins(r)
  /\ \E q \in Requests : request' = [request EXCEPT ![r] = q]
  /\ stage' = [stage EXCEPT ![r] = "interceptor"]
  /\ UNCHANGED <<out, bounded>>

\* The goroutine of the call ends; the caller of a call that was cut has gone.
Answer(r) ==
  /\ \/ RpcAnswered(r)
     \/ rpc[r] = "cut" /\ UNCHANGED vars
  /\ stage' = [stage EXCEPT ![r] = "ended"]
  /\ UNCHANGED <<request, out, bounded>>

HasToken(r) == request[r].authorization = "Bearer caller"

\* authenticateIncoming: no token, or one the verifier refuses.
Refuse(r) == stage[r] = "interceptor" /\ Answer(r)

Authenticate(r) ==
  /\ stage[r] = "interceptor"
  /\ HasToken(r)
  /\ stage' = [stage EXCEPT ![r] = "handler"]
  /\ UNCHANGED <<vars, request, out, bounded>>

-----------------------------------------------------------------------------
(* The client's side, within a handler. *)

\* Mutant of ContextWithDefaultTimeout: begun from context.Background().
ContextOfItsOwn(r) == [deadline |-> DefaultTimeout, parent |-> FALSE]

\* The caller's deadline or the default one, and always the caller's context.
ContextWithDefaultTimeout(r) ==
  [deadline |-> request[r].deadline \/ DefaultTimeout, parent |-> TRUE]

\* Mutant of outgoingContext: what the caller came with replaces nothing.
outgoingContextAnew(r, own, span) ==
  [authorization |-> "Bearer service",
   request_id |-> own, trace |-> IF span THEN "own" ELSE "none"]

\* The service's token always, the request id of the handler or of the caller,
\* the trace of the handler's span, which without one is the caller's.
outgoingContext(r, own, span) ==
  [authorization |-> "Bearer service",
   request_id |-> IF own = "none" THEN request[r].request_id ELSE own,
   trace |-> IF span THEN "own" ELSE request[r].trace]

CallOut(r) ==
  /\ stage[r] = "handler"
  /\ \E own \in {"none", "own"}, span \in BOOLEAN :
       out' = [out EXCEPT ![r] = outgoingContext(r, own, span)]
  /\ bounded' = [bounded EXCEPT ![r] = ContextWithDefaultTimeout(r)]
  /\ stage' = [stage EXCEPT ![r] = "calling"]
  /\ UNCHANGED <<vars, request>>

\* No token for the call: Unauthenticated, and nothing leaves.
TokenFails(r) ==
  /\ stage[r] = "handler"
  /\ stage' = [stage EXCEPT ![r] = "called"]
  /\ UNCHANGED <<vars, request, out, bounded>>

CallEnds(r) ==
  /\ stage[r] = "calling"
  /\ stage' = [stage EXCEPT ![r] = "called"]
  /\ UNCHANGED <<vars, request, out, bounded>>

\* The context of the call is done: its deadline, or the caller's is cancelled.
Done(r) == bounded[r].deadline \/ (bounded[r].parent /\ rpc[r] = "cut")

CallIsCancelled(r) == Done(r) /\ CallEnds(r)

HandlerReturns(r) == stage[r] \in {"handler", "called"} /\ Answer(r)

-----------------------------------------------------------------------------
Serving(r) == \/ Arrive(r) \/ Refuse(r) \/ Authenticate(r)
              \/ CallOut(r) \/ TokenFails(r) \/ CallEnds(r) \/ HandlerReturns(r)

ServiceNext ==
  \/ (Main \/ Cancel \/ TimerFires \/ Goroutines) /\ UNCHANGED serviceVars
  \/ \E r \in Rpcs : Serving(r)

ServiceSpec == ServiceInit /\ [][ServiceNext]_<<vars, serviceVars>>

\* Contexts end their calls; the other service need not answer any.
FairServiceSpec ==
  /\ ServiceSpec /\ Fairness
  /\ \A r \in Rpcs : WF_<<vars, serviceVars>>(CallIsCancelled(r))

-----------------------------------------------------------------------------
(* Properties. *)

\* docs/modules/grpc.md: interceptors carry x-request-id and traceparent on. No
\* call loses the correlation of the request that caused it, whatever the
\* handler adds, and none leaves for a caller the verifier has not let in or
\* with that caller's own token.
CorrelationTravels ==
  \A r \in Rpcs : out[r] # NoCall =>
    /\ HasToken(r)
    /\ out[r].authorization = "Bearer service"
    /\ request[r].request_id # "none" => out[r].request_id \in {"caller", "own"}
    /\ request[r].trace # "none" => out[r].trace \in {"caller", "own"}

\* A handler does not hang in a call to another service once the call has a
\* deadline, its caller's or the default one, or once Stop has cut its own call:
\* ContextWithDefaultTimeout keeps the caller's context in both its branches.
CallsOutEnd ==
  \A r \in Rpcs :
    stage[r] = "calling" /\ (request[r].deadline \/ DefaultTimeout \/ rpc[r] = "cut")
      ~> stage[r] # "calling"
=============================================================================
