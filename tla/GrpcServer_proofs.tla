------------------------- MODULE GrpcServer_proofs -------------------------
(***************************************************************************)
(* The safety of GrpcServer for any set of remote calls, its refinement of *)
(* GracefulServer, and the safety of a GrpcService on top of it.           *)
(***************************************************************************)
EXTENDS GrpcService, TLAPS

\* The shutdown is under way.
Ending == main \in {"draining", "stopping"} \/ ret = "nil"

\* It begins with the health, and only then is anything stopped.
OrderInv ==
  /\ ret = "nil" => main = "returned"
  /\ Ending => health = "NOT_SERVING" /\ ctxDone
  /\ stopper # "none" => Ending
  /\ quit => Ending
  /\ main # "returned" => ret = "none"
  /\ main = "start" => serve = "none"

\* What each of the two ways to stop the server has made sure of.
StoppedInv ==
  /\ stopper \in {"waiting", "done"} => quit
  /\ stopper = "done" => serve # "accepting" /\ Running = {}
  /\ main = "stopping" => quit /\ Running = {}

NilInv == ret = "nil" => quit /\ serve # "accepting" /\ Running = {}

IndInv == TypeOK /\ OrderInv /\ StoppedInv /\ NilInv

\* Nothing runs at first.
LEMMA InitInd == Init => IndInv
BY DEF Init, IndInv, TypeOK, OrderInv, StoppedInv, NilInv, Ending, Running

\* The steps of ListenAndServe.
LEMMA MainKeeps == IndInv /\ Main => IndInv'
<1> SUFFICES ASSUME IndInv, Main PROVE IndInv'
  OBVIOUS
<1> USE DEF IndInv, TypeOK, OrderInv, StoppedInv, NilInv, Ending, Running,
            mainVars, serveVars, stopVars
<1>1. CASE ListenFails
  BY <1>1 DEF ListenFails, Return
<1>2. CASE Listen
  BY <1>2 DEF Listen
<1>3. CASE TakeServeError
  BY <1>3 DEF TakeServeError, Return
<1>4. CASE BeginShutdown
  BY <1>4 DEF BeginShutdown
<1>5. CASE ReturnDrained
  BY <1>5 DEF ReturnDrained, Return
<1>6. CASE HardStop
  BY <1>6 DEF HardStop
<1>7. CASE HardStopEnds
  BY <1>7 DEF HardStopEnds, Return
<1> QED
  BY <1>1, <1>2, <1>3, <1>4, <1>5, <1>6, <1>7 DEF Main

\* The goroutines.
LEMMA GoroutinesKeep == IndInv /\ Goroutines => IndInv'
<1> SUFFICES ASSUME IndInv, Goroutines PROVE IndInv'
  OBVIOUS
<1> USE DEF IndInv, TypeOK, OrderInv, StoppedInv, NilInv, Ending, Running,
            mainVars, serveVars, stopVars
<1>1. CASE ServeBegins
  BY <1>1 DEF ServeBegins
<1>2. CASE ServeEnds
  BY <1>2 DEF ServeEnds
<1>3. CASE ServeSends
  BY <1>3 DEF ServeSends
<1>4. CASE GracefulBegins
  BY <1>4 DEF GracefulBegins
<1>5. CASE GracefulEnds
  BY <1>5 DEF GracefulEnds
<1> QED
  BY <1>1, <1>2, <1>3, <1>4, <1>5 DEF Goroutines

\* The context, the timer and the remote calls.
LEMMA EnvironmentKeeps ==
  ASSUME IndInv,
         \/ Cancel \/ TimerFires
         \/ \E r \in Rpcs : RpcBegins(r) \/ RpcAnswered(r)
  PROVE  IndInv'
<1> USE DEF IndInv, TypeOK, OrderInv, StoppedInv, NilInv, Ending, Running,
            mainVars, serveVars, stopVars
<1>1. CASE Cancel
  BY <1>1 DEF Cancel
<1>2. CASE TimerFires
  BY <1>2 DEF TimerFires
<1>3. ASSUME NEW r \in Rpcs, RpcBegins(r)
      PROVE  IndInv'
  BY <1>3 DEF RpcBegins
<1>4. ASSUME NEW r \in Rpcs, RpcAnswered(r)
      PROVE  IndInv'
  BY <1>4 DEF RpcAnswered
<1> QED
  BY <1>1, <1>2, <1>3, <1>4

\* The three kinds of steps together.
LEMMA Inductive == Spec => []IndInv
<1>1. IndInv /\ [Next]_vars => IndInv'
  <2>1. IndInv /\ UNCHANGED vars => IndInv'
    BY DEF IndInv, TypeOK, OrderInv, StoppedInv, NilInv, Ending, Running, vars,
           mainVars, serveVars, stopVars
  <2> QED
    BY <2>1, MainKeeps, GoroutinesKeep, EnvironmentKeeps DEF Next
<1> QED
  BY <1>1, InitInd, PTL DEF Spec

\* The goroutines, the channel and the server keep their types.
THEOREM TypeCorrect == Spec => []TypeOK
<1>1. IndInv => TypeOK
  BY DEF IndInv
<1> QED
  BY <1>1, Inductive, PTL

\* A server that refuses calls because it stops reports NOT_SERVING.
THEOREM HealthGoesFirst == Spec => []RefusesOnlyNotServing
<1>1. IndInv => RefusesOnlyNotServing
  BY DEF IndInv, OrderInv, RefusesOnlyNotServing
<1> QED
  BY <1>1, Inductive, PTL

\* After a nil of ListenAndServe nothing is accepted and no call runs.
THEOREM NilIsQuiet == Spec => []NilMeansQuiet
<1>1. IndInv => NilMeansQuiet
  BY DEF IndInv, OrderInv, NilInv, Ending, NilMeansQuiet
<1> QED
  BY <1>1, Inductive, PTL

-----------------------------------------------------------------------------
(* The refinement. *)

Phase == IF quit THEN "closed" ELSE IF serve = "none" THEN "new" ELSE "open"

Answers == [c \in {"ListenAndServe"} |-> ret]

\* The return of ListenAndServe is its answer.
LEMMA ReturnAnswers ==
  ASSUME IndInv, NEW v, main # "returned", Return(v),
         UNCHANGED <<ctxDone, serve, quit, rpc>>
  PROVE  Promise!Answer("ListenAndServe", v)
<1>1. Answers["ListenAndServe"] = "none"
  BY DEF Answers, IndInv, OrderInv
<1>2. Answers' = [Answers EXCEPT !["ListenAndServe"] = v]
  BY DEF Answers, Return
<1> QED
  BY <1>1, <1>2 DEF Promise!Answer, Answers, Running

\* The server opens with the port; a nil comes from a graceful stop that has
\* waited for loop and calls, or from a Stop that has cut them.
LEMMA MainRefines ==
  ASSUME IndInv, Main
  PROVE  \/ Promise!Open \/ Promise!Close
         \/ Promise!AnswerNil("ListenAndServe")
         \/ Promise!AnswerError("ListenAndServe")
         \/ UNCHANGED Promise!promiseVars
<1> USE DEF stopVars, serveVars
<1>1. CASE ListenFails \/ TakeServeError
  <2>1. Promise!Answer("ListenAndServe", "error")
    BY <1>1, ReturnAnswers DEF ListenFails, TakeServeError
  <2> QED
    BY <2>1 DEF Promise!AnswerError
<1>2. CASE Listen
  <2>1. Phase = "new" /\ Phase' = "open"
    BY <1>2 DEF Listen, Phase, IndInv, OrderInv, Ending
  <2>2. serve # "accepting" /\ serve' # "accepting"
    BY <1>2 DEF Listen, IndInv, OrderInv
  <2> QED
    BY <1>2, <2>1, <2>2 DEF Listen, Phase, Running, Promise!Open
<1>3. CASE BeginShutdown
  BY <1>3 DEF BeginShutdown, Running, Promise!promiseVars
<1>4. CASE ReturnDrained \/ HardStopEnds
  <2>1. Promise!Answer("ListenAndServe", "nil")
    BY <1>4, ReturnAnswers DEF ReturnDrained, HardStopEnds
  <2>2. quit /\ serve # "accepting" /\ Running = {}
    BY <1>4 DEF ReturnDrained, HardStopEnds, IndInv, StoppedInv
  <2> QED
    BY <2>1, <2>2 DEF Promise!AnswerNil
<1>5. CASE HardStop
  <2>1. ctxDone
    BY <1>5 DEF HardStop, IndInv, OrderInv, Ending
  <2>2. Running' = {}
    BY <1>5 DEF HardStop, Running
  <2>3. ctxDone' = TRUE
    BY <1>5, <2>1 DEF HardStop, IndInv, TypeOK
  <2> QED
    BY <1>5, <2>2, <2>3 DEF HardStop, Promise!Close
<1> QED
  BY <1>1, <1>2, <1>3, <1>4, <1>5 DEF Main

\* The loop begins on an open server only, and the graceful stop closes it.
LEMMA GoroutinesRefine ==
  ASSUME IndInv, Goroutines
  PROVE  \/ Promise!Listen \/ Promise!Wind \/ Promise!Close
         \/ UNCHANGED Promise!promiseVars
<1> USE DEF mainVars, stopVars, serveVars, Running
<1>1. CASE ServeBegins /\ quit
  BY <1>1 DEF ServeBegins, Promise!Wind
<1>2. CASE ServeBegins /\ ~quit
  BY <1>2 DEF ServeBegins, Promise!Listen
<1>3. CASE ServeEnds
  BY <1>3 DEF ServeEnds, Promise!Wind
<1>4. CASE ServeSends
  BY <1>4 DEF ServeSends, Promise!promiseVars
<1>5. CASE GracefulBegins
  <2>1. ctxDone' = TRUE
    BY <1>5 DEF GracefulBegins, IndInv, TypeOK, OrderInv, Ending
  <2> QED
    BY <1>5, <2>1 DEF GracefulBegins, Promise!Close
<1>6. CASE GracefulEnds
  BY <1>6 DEF GracefulEnds, Promise!promiseVars
<1> QED
  BY <1>1, <1>2, <1>3, <1>4, <1>5, <1>6 DEF Goroutines

\* The context asks, and calls come in while the server is open.
LEMMA EnvironmentRefines ==
  ASSUME IndInv,
         \/ Cancel \/ TimerFires
         \/ \E r \in Rpcs : RpcBegins(r) \/ RpcAnswered(r)
  PROVE  \/ Promise!Ask \/ Promise!Wind \/ UNCHANGED Promise!promiseVars
         \/ \E r \in Rpcs : Promise!Admit(r)
<1> USE DEF mainVars, stopVars, serveVars
<1>1. CASE Cancel
  BY <1>1 DEF Cancel, Running, Promise!Ask
<1>2. CASE TimerFires
  BY <1>2 DEF TimerFires, Running, Promise!promiseVars
<1>3. ASSUME NEW r \in Rpcs, RpcBegins(r)
      PROVE  Promise!Admit(r)
  <2>1. Running' = Running \cup {r}
    BY <1>3 DEF RpcBegins, Running, IndInv, TypeOK
  <2> QED
    BY <1>3, <2>1 DEF RpcBegins, Promise!Admit
<1>4. ASSUME NEW r \in Rpcs, RpcAnswered(r)
      PROVE  Promise!Wind
  <2>1. Running' \in SUBSET Running
    BY <1>4 DEF RpcAnswered, Running, IndInv, TypeOK
  <2> QED
    BY <1>4, <2>1 DEF RpcAnswered, Promise!Wind
<1> QED
  BY <1>1, <1>2, <1>3, <1>4

\* In every behaviour ListenAndServe is a server that stops gracefully.
THEOREM Implements == Spec => RefinesGraceful
<1>1. Init => Promise!PromiseInit
  BY DEF Init, Promise!PromiseInit, Running
<1>2. IndInv /\ [Next]_vars => [Promise!PromiseNext]_(Promise!promiseVars)
  <2> SUFFICES ASSUME IndInv, [Next]_vars
               PROVE  [Promise!PromiseNext]_(Promise!promiseVars)
    OBVIOUS
  <2>1. CASE UNCHANGED vars
    BY <2>1 DEF vars, mainVars, serveVars, stopVars, Running, Promise!promiseVars
  <2>2. CASE Main
    <3>1. "ListenAndServe" \in {"ListenAndServe"}
      OBVIOUS
    <3> QED
      BY <2>2, <3>1, MainRefines, Zenon DEF Promise!PromiseNext
  <2>3. CASE Goroutines
    BY <2>3, GoroutinesRefine DEF Promise!PromiseNext
  <2>4. CASE \/ Cancel \/ TimerFires
             \/ \E r \in Rpcs : RpcBegins(r) \/ RpcAnswered(r)
    BY <2>4, EnvironmentRefines DEF Promise!PromiseNext
  <2> QED
    BY <2>1, <2>2, <2>3, <2>4 DEF Next
<1> QED
  BY <1>1, <1>2, Inductive, PTL DEF Spec, RefinesGraceful, Promise!PromiseSpec

\* Once at rest the server stays at rest: a Serve that is late leaves
\* at once, and a call that comes on an old connection is refused.
THEOREM QuietForGood == Spec => Promise!StaysQuiet
<1>1. [Promise!PromiseNext]_(Promise!promiseVars)
        => [Promise!Quiet => Promise!Quiet']_(Promise!promiseVars)
  BY DEF Promise!PromiseNext, Promise!Ask, Promise!Open, Promise!Listen,
         Promise!Wind, Promise!Close, Promise!Admit, Promise!AnswerNil,
         Promise!AnswerError, Promise!Answer, Promise!Quiet
<1> QED
  BY <1>1, Implements, PTL DEF RefinesGraceful, Promise!PromiseSpec,
                               Promise!StaysQuiet

-----------------------------------------------------------------------------
(* The service. *)

\* The goroutine of a call exists only once the call has come in, and its
\* handler runs only for a caller who was let in.
StageInv ==
  \A r \in Rpcs :
    /\ rpc[r] = "idle" => stage[r] = "outside"
    /\ stage[r] \in {"outside", "interceptor"} => out[r] = NoCall
    /\ stage[r] \in {"handler", "calling", "called"} => HasToken(r)

ServiceInd == rpc \in [Rpcs -> {"idle", "running", "answered", "cut"}]
                /\ ServiceTypeOK /\ StageInv /\ CorrelationTravels

\* A call in a service is a call of the server beneath it, or a stutter there.
LEMMA ServingIsServer ==
  ASSUME NEW r \in Rpcs, Serving(r)
  PROVE  [Next]_vars
BY DEF Serving, Arrive, Refuse, Authenticate, CallOut, TokenFails, CallEnds,
       HandlerReturns, Answer, Next

\* The server keeps what the lifecycle promises whatever a service does on top.
THEOREM ServiceIsServer == ServiceSpec => Spec
<1>1. ServiceInit => Init
  BY DEF ServiceInit
<1>2. [ServiceNext]_<<vars, serviceVars>> => [Next]_vars
  BY ServingIsServer DEF ServiceNext, Next
<1> QED
  BY <1>1, <1>2, PTL DEF ServiceSpec, Spec

\* So does its promise: interceptors and handlers take nothing from it.
THEOREM ServiceImplements == ServiceSpec => RefinesGraceful
BY ServiceIsServer, Implements

\* A step of the server leaves a call where it is, or cuts it.
LEMMA ServerKeepsService ==
  ASSUME ServiceInd, Main \/ Cancel \/ TimerFires \/ Goroutines,
         UNCHANGED serviceVars
  PROVE  ServiceInd'
<1>1. rpc' = rpc \/ rpc' = [r \in Rpcs |-> IF r \in Running THEN "cut" ELSE rpc[r]]
  BY DEF Main, Cancel, TimerFires, Goroutines, ListenFails, Listen,
         TakeServeError, BeginShutdown, ReturnDrained, HardStop, HardStopEnds,
         ServeBegins, ServeEnds, ServeSends, GracefulBegins, GracefulEnds
<1>2. rpc' \in [Rpcs -> {"idle", "running", "answered", "cut"}]
        /\ \A r \in Rpcs : rpc'[r] = "idle" => rpc[r] = "idle"
  BY <1>1 DEF ServiceInd, Running
<1>3. UNCHANGED <<request, stage, out, bounded>>
  BY DEF serviceVars
<1>4. ServiceTypeOK' /\ CorrelationTravels'
  BY <1>3 DEF ServiceInd, ServiceTypeOK, CorrelationTravels, HasToken
<1>5. StageInv'
  BY <1>2, <1>3 DEF ServiceInd, StageInv, HasToken
<1> QED
  BY <1>2, <1>4, <1>5 DEF ServiceInd

\* What outgoingContext makes of the caller's metadata.
LEMMA OutgoingCarries ==
  ASSUME NEW r \in Rpcs, NEW own \in {"none", "own"}, NEW span \in BOOLEAN,
         request[r].request_id \in {"none", "caller"},
         request[r].trace \in {"none", "caller"}
  PROVE  /\ outgoingContext(r, own, span).authorization = "Bearer service"
         /\ request[r].request_id # "none" =>
              outgoingContext(r, own, span).request_id \in {"caller", "own"}
         /\ request[r].trace # "none" =>
              outgoingContext(r, own, span).trace \in {"caller", "own"}
BY DEF outgoingContext

\* A call out is made behind the verification, with what outgoingContext makes.
LEMMA CallOutKeeps ==
  ASSUME ServiceInd, NEW r \in Rpcs, CallOut(r)
  PROVE  ServiceInd'
<1>1. PICK own \in {"none", "own"}, span \in BOOLEAN :
        out' = [out EXCEPT ![r] = outgoingContext(r, own, span)]
  BY DEF CallOut
<1>2. /\ rpc' = rpc /\ request' = request
      /\ stage[r] = "handler"
      /\ stage' = [stage EXCEPT ![r] = "calling"]
      /\ bounded' = [bounded EXCEPT ![r] = ContextWithDefaultTimeout(r)]
  BY DEF CallOut, vars
<1>3. /\ request[r].request_id \in {"none", "caller"}
      /\ request[r].trace \in {"none", "caller"}
  BY DEF ServiceInd, ServiceTypeOK, AnyRequest
<1>4. out \in [Rpcs -> Metadata]
  BY DEF ServiceInd, ServiceTypeOK
<1>5. outgoingContext(r, own, span) \in Metadata
  BY <1>3 DEF outgoingContext, Metadata
<1>6. /\ out' \in [Rpcs -> Metadata]
      /\ out'[r] = outgoingContext(r, own, span)
      /\ \A s \in Rpcs \ {r} : out'[s] = out[s]
  BY <1>1, <1>4, <1>5
<1>7. ServiceTypeOK'
  <2>1. ContextWithDefaultTimeout(r) \in [deadline : BOOLEAN, parent : BOOLEAN]
    BY ServiceAssumption DEF ContextWithDefaultTimeout, ServiceInd,
                             ServiceTypeOK, AnyRequest
  <2> QED
    BY <1>2, <1>6, <2>1 DEF ServiceInd, ServiceTypeOK
<1>8. StageInv'
  <2>1. stage \in [Rpcs -> {"outside", "interceptor", "handler", "calling",
                            "called", "ended"}]
    BY DEF ServiceInd, ServiceTypeOK
  <2> QED
    BY <1>2, <1>6, <2>1 DEF ServiceInd, StageInv, HasToken
<1>9. CorrelationTravels'
  <2>1. HasToken(r)
    BY <1>2 DEF ServiceInd, StageInv
  <2>2. SUFFICES ASSUME NEW s \in Rpcs, out'[s] # NoCall'
                 PROVE  /\ HasToken(s)'
                        /\ out'[s].authorization = "Bearer service"
                        /\ request'[s].request_id # "none" =>
                             out'[s].request_id \in {"caller", "own"}
                        /\ request'[s].trace # "none" =>
                             out'[s].trace \in {"caller", "own"}
    BY DEF CorrelationTravels
  <2>3. CASE s = r
    <3>1. HasToken(s)'
      BY <1>2, <2>1, <2>3 DEF HasToken
    <3>2. out'[s] = outgoingContext(r, own, span) /\ request'[s] = request[r]
      BY <1>2, <1>6, <2>3
    <3>3. /\ outgoingContext(r, own, span).authorization = "Bearer service"
          /\ request[r].request_id # "none" =>
               outgoingContext(r, own, span).request_id \in {"caller", "own"}
          /\ request[r].trace # "none" =>
               outgoingContext(r, own, span).trace \in {"caller", "own"}
      BY <1>3, OutgoingCarries, Zenon
    <3> QED
      BY <3>1, <3>2, <3>3
  <2>4. CASE s # r
    BY <1>2, <1>6, <2>2, <2>4 DEF ServiceInd, CorrelationTravels, HasToken, NoCall
  <2> QED
    BY <2>3, <2>4
<1> QED
  BY <1>2, <1>7, <1>8, <1>9 DEF ServiceInd

\* Each step of a call keeps what its stage has made sure of.
LEMMA ServingKeeps ==
  ASSUME ServiceInd, NEW r \in Rpcs, Serving(r)
  PROVE  ServiceInd'
<1> USE DEF ServiceInd, ServiceTypeOK, StageInv, CorrelationTravels, HasToken,
            NoCall, AnyRequest, Metadata
<1>1. CASE Arrive(r)
  <2>1. PICK q \in Requests : request' = [request EXCEPT ![r] = q]
    BY <1>1 DEF Arrive
  <2>2. /\ rpc[r] = "idle" /\ rpc' = [rpc EXCEPT ![r] = "running"]
        /\ stage' = [stage EXCEPT ![r] = "interceptor"]
        /\ out' = out /\ bounded' = bounded
    BY <1>1 DEF Arrive, RpcBegins
  <2>3. q \in AnyRequest
    BY ServiceAssumption
  <2>4. ServiceTypeOK'
    BY <2>1, <2>2, <2>3
  <2>5. out[r] = NoCall
    BY <2>2
  <2>6. StageInv'
    BY <2>1, <2>2, <2>5
  <2>7. CorrelationTravels'
    BY <2>1, <2>2, <2>5
  <2> QED
    BY <2>2, <2>4, <2>6, <2>7
<1>2. CASE Refuse(r) \/ HandlerReturns(r)
  <2>1. /\ UNCHANGED <<request, out, bounded>>
        /\ stage' = [stage EXCEPT ![r] = "ended"]
        /\ stage[r] # "outside"
        /\ rpc' = rpc \/ rpc' = [rpc EXCEPT ![r] = "answered"]
    BY <1>2 DEF Refuse, HandlerReturns, Answer, RpcAnswered, vars
  <2> QED
    BY <2>1
<1>3. CASE Authenticate(r)
  BY <1>3 DEF Authenticate, vars
<1>4. CASE CallOut(r)
  BY <1>4, CallOutKeeps
<1>5. CASE TokenFails(r) \/ CallEnds(r)
  <2>1. /\ UNCHANGED <<rpc, request, out, bounded>>
        /\ stage[r] \in {"handler", "calling"}
        /\ stage' = [stage EXCEPT ![r] = "called"]
    BY <1>5 DEF TokenFails, CallEnds, vars
  <2> QED
    BY <2>1
<1> QED
  BY <1>1, <1>2, <1>3, <1>4, <1>5 DEF Serving

\* Whatever requests come in, a call that leaves a handler carries the caller's
\* correlation on, and the service's token in the place of the caller's.
THEOREM CorrelationIsKept == ServiceSpec => []CorrelationTravels
<1>1. ServiceInit => ServiceInd
  <2> SUFFICES ASSUME ServiceInit PROVE ServiceInd
    OBVIOUS
  <2>1. ServiceTypeOK
    BY DEF ServiceInit, ServiceTypeOK, NoCall, Metadata, NoRequest, AnyRequest
  <2> QED
    BY <2>1 DEF ServiceInit, Init, ServiceInd, StageInv, CorrelationTravels
<1>2. ServiceInd /\ [ServiceNext]_<<vars, serviceVars>> => ServiceInd'
  <2>1. ServiceInd /\ UNCHANGED <<vars, serviceVars>> => ServiceInd'
    BY DEF ServiceInd, ServiceTypeOK, StageInv, CorrelationTravels, HasToken,
           vars, serviceVars
  <2> QED
    BY <2>1, ServerKeepsService, ServingKeeps DEF ServiceNext
<1>3. ServiceInd => CorrelationTravels
  BY DEF ServiceInd
<1> QED
  BY <1>1, <1>2, <1>3, PTL DEF ServiceSpec
=============================================================================
