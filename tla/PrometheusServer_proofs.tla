---------------------- MODULE PrometheusServer_proofs ----------------------
(***************************************************************************)
(* The safety of PrometheusServer for any calls and any scrapes, and its   *)
(* refinement of GracefulServer.                                           *)
(***************************************************************************)
EXTENDS PrometheusServer, TLAPS

\* A call has no answer before it returns, one that waits has begun the
\* shutdown, and a server that was never set is not shut down.
WaitInv ==
  /\ \A c \in Calls : pc[c] # "returned" => ret[c] = "none"
  /\ \A c \in Calls : pc[c] = "waiting" => inShutdown
  /\ inShutdown => server

\* Nothing happens without a server, and the port a Serve has taken over is
\* closed with the server.
PortInv ==
  /\ serve # "none" => server
  /\ Active # {} => server
  /\ inShutdown /\ serve = "accepting" => port = "closed"

IndInv == TypeOK /\ ServerHasServe /\ WaitInv /\ PortInv

\* Nothing is started at first.
LEMMA InitInd == Init => IndInv
BY DEF Init, IndInv, TypeOK, ServerHasServe, WaitInv, PortInv, Active, Calls

\* The calls of Start.
LEMMA StartsKeep ==
  ASSUME IndInv, NEW c \in Starts, StartAgain(c) \/ StartFails(c) \/ Start(c)
  PROVE  IndInv'
<1> USE DEF IndInv, TypeOK, ServerHasServe, WaitInv, PortInv, Active, Calls,
            Return, serverVars
<1>1. CASE StartAgain(c)
  BY <1>1 DEF StartAgain
<1>2. CASE StartFails(c)
  BY <1>2 DEF StartFails
<1>3. CASE Start(c)
  BY <1>3 DEF Start
<1> QED
  BY <1>1, <1>2, <1>3

\* The calls of Shutdown.
LEMMA ShutdownsKeep ==
  ASSUME IndInv, NEW c \in Shutdowns,
         \/ ShutdownNothing(c) \/ Shutdown(c)
         \/ ShutdownEnds(c) \/ ShutdownExpires(c)
  PROVE  IndInv'
<1> USE DEF IndInv, TypeOK, ServerHasServe, WaitInv, PortInv, Active, Calls,
            Return, serverVars
<1>1. CASE ShutdownNothing(c)
  BY <1>1 DEF ShutdownNothing
<1>2. CASE Shutdown(c)
  BY <1>2 DEF Shutdown
<1>3. CASE ShutdownEnds(c)
  BY <1>3 DEF ShutdownEnds
<1>4. CASE ShutdownExpires(c)
  BY <1>4 DEF ShutdownExpires
<1> QED
  BY <1>1, <1>2, <1>3, <1>4

\* The goroutine of Serve and the scrapes.
LEMMA ServerKeeps ==
  ASSUME IndInv,
         \/ ServeBegins \/ ServeEnds
         \/ \E q \in Scrapes : ScrapeBegins(q) \/ ScrapeEnds(q)
  PROVE  IndInv'
<1> USE DEF IndInv, TypeOK, ServerHasServe, WaitInv, PortInv, Active,
            serverVars, callVars
<1>1. CASE ServeBegins
  BY <1>1 DEF ServeBegins
<1>2. CASE ServeEnds
  BY <1>2 DEF ServeEnds
<1>3. ASSUME NEW q \in Scrapes, ScrapeBegins(q)
      PROVE  IndInv'
  BY <1>3 DEF ScrapeBegins
<1>4. ASSUME NEW q \in Scrapes, ScrapeEnds(q)
      PROVE  IndInv'
  BY <1>4 DEF ScrapeEnds
<1> QED
  BY <1>1, <1>2, <1>3, <1>4

\* The three kinds of steps together.
LEMMA Inductive == Spec => []IndInv
<1>1. IndInv /\ [Next]_vars => IndInv'
  <2>1. IndInv /\ UNCHANGED vars => IndInv'
    BY DEF IndInv, TypeOK, ServerHasServe, WaitInv, PortInv, Active, vars,
           serverVars, callVars
  <2> QED
    BY <2>1, StartsKeep, ShutdownsKeep, ServerKeeps DEF Next
<1> QED
  BY <1>1, InitInd, PTL DEF Spec

\* The server's fields, the calls and the scrapes keep their types.
THEOREM TypeCorrect == Spec => []TypeOK
<1>1. IndInv => TypeOK
  BY DEF IndInv
<1> QED
  BY <1>1, Inductive, PTL

\* A server is set only together with its Serve, whatever failed before.
THEOREM SetWithServe == Spec => []ServerHasServe
<1>1. IndInv => ServerHasServe
  BY DEF IndInv
<1> QED
  BY <1>1, Inductive, PTL

\* A waiting Shutdown that returns nil leaves no scrape and lets none begin.
THEOREM NilIsQuiet == Spec => NilMeansQuiet
<1> DEFINE Quiet == Active' = {} /\ serve' # "accepting" /\ inShutdown'
<1>1. ASSUME IndInv, Next, NEW c \in Shutdowns,
             pc[c] = "waiting", ret'[c] = "nil"
      PROVE  Quiet
  <2> USE <1>1 DEF IndInv, TypeOK, WaitInv, Calls, Return
  <2>1. ret[c] = "none" /\ inShutdown /\ server
    OBVIOUS
  <2>2. CASE ShutdownEnds(c)
    BY <2>1, <2>2 DEF ShutdownEnds, serverVars, Active
  <2>3. CASE ShutdownExpires(c)
    BY <2>1, <2>3 DEF ShutdownExpires
  <2>4. ASSUME NEW d \in Calls, d # c,
               \/ StartAgain(d) \/ StartFails(d) \/ Start(d)
               \/ ShutdownNothing(d) \/ Shutdown(d)
               \/ ShutdownEnds(d) \/ ShutdownExpires(d)
        PROVE  FALSE
    BY <2>1, <2>4 DEF StartAgain, StartFails, Start, ShutdownNothing, Shutdown,
                      ShutdownEnds, ShutdownExpires
  <2>5. ~ (\/ StartAgain(c) \/ StartFails(c) \/ Start(c)
           \/ ShutdownNothing(c) \/ Shutdown(c))
    BY DEF StartAgain, StartFails, Start, ShutdownNothing, Shutdown
  <2>6. UNCHANGED callVars => FALSE
    BY <2>1 DEF callVars
  <2>7. ServeBegins \/ ServeEnds => FALSE
    BY <2>6 DEF ServeBegins, ServeEnds
  <2>8. ASSUME NEW q \in Scrapes, ScrapeBegins(q) \/ ScrapeEnds(q)
        PROVE  FALSE
    BY <2>6, <2>8 DEF ScrapeBegins, ScrapeEnds
  <2> HIDE DEF IndInv, TypeOK, WaitInv, Return
  <2> QED
    BY <2>2, <2>3, <2>4, <2>5, <2>7, <2>8 DEF Next
<1>2. IndInv /\ [Next]_vars =>
        [\A c \in Shutdowns : (pc[c] = "waiting" /\ ret'[c] = "nil")
           => Quiet]_vars
  BY <1>1
<1> QED
  BY <1>2, Inductive, PTL DEF Spec, NilMeansQuiet

-----------------------------------------------------------------------------
(* The refinement. *)

Answers == [c \in Shutdowns |-> ret[c]]

Phase == IF inShutdown THEN "closed" ELSE IF server THEN "open" ELSE "new"

\* Who starts a server answers nobody who stops it.
LEMMA StartRefines ==
  ASSUME IndInv, NEW c \in Starts, StartAgain(c) \/ StartFails(c) \/ Start(c)
  PROVE  Promise!Open \/ UNCHANGED Promise!promiseVars
<1>1. Answers' = Answers
  <2>1. \A d \in Shutdowns : ret'[d] = ret[d]
    BY CallsAssumption DEF StartAgain, StartFails, Start, Return, IndInv, TypeOK, Calls
  <2> QED
    BY <2>1 DEF Answers
<1>2. CASE Start(c)
  <2>1. Phase = "new" /\ Phase' = "open"
    BY <1>2 DEF Start, Phase, IndInv, WaitInv
  <2>2. /\ inShutdown' = inShutdown
        /\ (serve = "accepting")' = (serve = "accepting")
        /\ Active' = Active
    BY <1>2 DEF Start, Active, IndInv, PortInv
  <2> QED
    BY <1>1, <2>1, <2>2 DEF Promise!Open, Answers, Phase
<1>3. CASE StartAgain(c) \/ StartFails(c)
  BY <1>1, <1>3 DEF StartAgain, StartFails, serverVars, Answers, Active,
                    Promise!promiseVars
<1> QED
  BY <1>2, <1>3

\* What a Shutdown that returns adds to the answers.
LEMMA ReturnAnswers ==
  ASSUME IndInv, NEW c \in Shutdowns, NEW v, pc[c] # "returned", Return(c, v),
         UNCHANGED <<serverVars, scrape>>
  PROVE  Promise!Answer(c, v)
<1>1. Answers[c] = "none"
  BY DEF Answers, IndInv, WaitInv, Calls
<1>2. Answers' = [Answers EXCEPT ![c] = v]
  BY DEF Answers, Return, IndInv, TypeOK, Calls
<1> QED
  BY <1>1, <1>2 DEF Promise!Answer, Answers, Active, serverVars

\* A Shutdown closes the server, and what it answers is true.
LEMMA ShutdownRefines ==
  ASSUME IndInv, NEW c \in Shutdowns,
         \/ ShutdownNothing(c) \/ Shutdown(c)
         \/ ShutdownEnds(c) \/ ShutdownExpires(c)
  PROVE  Promise!Close \/ Promise!AnswerNil(c) \/ Promise!AnswerError(c)
<1>1. CASE ShutdownNothing(c)
  <2>1. Promise!Answer(c, "nil")
    BY <1>1, ReturnAnswers DEF ShutdownNothing
  <2>2. Phase = "new" /\ serve # "accepting" /\ Active = {}
    BY <1>1 DEF ShutdownNothing, Phase, IndInv, WaitInv, PortInv
  <2> QED
    BY <2>1, <2>2 DEF Promise!AnswerNil, Phase
<1>2. CASE Shutdown(c)
  BY <1>2 DEF Shutdown, Promise!Close, Active
<1>3. CASE ShutdownEnds(c)
  <2>1. Promise!Answer(c, "nil")
    BY <1>3, ReturnAnswers DEF ShutdownEnds
  <2>2. inShutdown /\ serve # "accepting" /\ Active = {}
    BY <1>3 DEF ShutdownEnds, IndInv, WaitInv, Calls
  <2> QED
    BY <2>1, <2>2 DEF Promise!AnswerNil
<1>4. CASE ShutdownExpires(c)
  BY <1>4, ReturnAnswers DEF ShutdownExpires, Promise!AnswerError
<1> QED
  BY <1>1, <1>2, <1>3, <1>4

\* Serve listens and scrapes are let in on an open server only.
LEMMA ServeRefines ==
  ASSUME IndInv,
         \/ ServeBegins \/ ServeEnds
         \/ \E q \in Scrapes : ScrapeBegins(q) \/ ScrapeEnds(q)
  PROVE  \/ Promise!Listen \/ Promise!Wind
         \/ \E q \in Scrapes : Promise!Admit(q)
<1> USE DEF Active, serverVars, callVars
<1>1. CASE ServeBegins /\ inShutdown
  BY <1>1 DEF ServeBegins, Promise!Wind
<1>2. CASE ServeBegins /\ ~inShutdown
  BY <1>2 DEF ServeBegins, Promise!Listen, IndInv, PortInv
<1>3. CASE ServeEnds
  BY <1>3 DEF ServeEnds, Promise!Wind
<1>4. ASSUME NEW q \in Scrapes, ScrapeBegins(q)
      PROVE  Promise!Admit(q)
  <2>1. Phase = "open"
    BY <1>4 DEF ScrapeBegins, Phase, IndInv, PortInv
  <2>2. Active' = Active \cup {q}
    BY <1>4 DEF ScrapeBegins, IndInv, TypeOK
  <2> QED
    BY <1>4, <2>1, <2>2 DEF ScrapeBegins, Promise!Admit, Phase
<1>5. ASSUME NEW q \in Scrapes, ScrapeEnds(q)
      PROVE  Promise!Wind
  <2>1. Active' \in SUBSET Active
    BY <1>5 DEF ScrapeEnds, IndInv, TypeOK
  <2> QED
    BY <1>5, <2>1 DEF ScrapeEnds, Promise!Wind
<1> QED
  BY <1>1, <1>2, <1>3, <1>4, <1>5

\* In every behaviour the Prometheus server is a server that stops gracefully.
THEOREM Implements == Spec => RefinesGraceful
<1>1. Init => Promise!PromiseInit
  BY DEF Init, Promise!PromiseInit, Active, Calls
<1>2. IndInv /\ [Next]_vars => [Promise!PromiseNext]_(Promise!promiseVars)
  <2> SUFFICES ASSUME IndInv, [Next]_vars
               PROVE  [Promise!PromiseNext]_(Promise!promiseVars)
    OBVIOUS
  <2>1. CASE UNCHANGED vars
    BY <2>1 DEF vars, serverVars, callVars, Active, Promise!promiseVars
  <2>2. CASE \E c \in Starts : StartAgain(c) \/ StartFails(c) \/ Start(c)
    BY <2>2, StartRefines DEF Promise!PromiseNext
  <2>3. CASE \E c \in Shutdowns : \/ ShutdownNothing(c) \/ Shutdown(c)
                                 \/ ShutdownEnds(c) \/ ShutdownExpires(c)
    BY <2>3, ShutdownRefines DEF Promise!PromiseNext
  <2>4. CASE \/ ServeBegins \/ ServeEnds
             \/ \E q \in Scrapes : ScrapeBegins(q) \/ ScrapeEnds(q)
    BY <2>4, ServeRefines DEF Promise!PromiseNext
  <2> QED
    BY <2>1, <2>2, <2>3, <2>4 DEF Next
<1> QED
  BY <1>1, <1>2, Inductive, PTL DEF Spec, RefinesGraceful, Promise!PromiseSpec

\* Once at rest the server stays at rest: a second Start finds it set and
\* opens nothing, a Serve that is late leaves at once.
THEOREM QuietForGood == Spec => Promise!StaysQuiet
<1>1. [Promise!PromiseNext]_(Promise!promiseVars)
        => [Promise!Quiet => Promise!Quiet']_(Promise!promiseVars)
  BY DEF Promise!PromiseNext, Promise!Ask, Promise!Open, Promise!Listen,
         Promise!Wind, Promise!Close, Promise!Admit, Promise!AnswerNil,
         Promise!AnswerError, Promise!Answer, Promise!Quiet
<1> QED
  BY <1>1, Implements, PTL DEF RefinesGraceful, Promise!PromiseSpec,
                               Promise!StaysQuiet
=============================================================================
