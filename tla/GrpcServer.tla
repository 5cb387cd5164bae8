----------------------------- MODULE GrpcServer -----------------------------
(***************************************************************************)
(* ListenAndServe of pkg/grpckit/server.go: the goroutine that runs Serve, *)
(* the one that stops the server gracefully, the timer that limits it, and *)
(* the calls of remote clients.                                            *)
(*                                                                         *)
(* grpc.Server is outside the code, modelled as this package uses it:      *)
(* GracefulStop and Stop refuse new calls and make Serve return; the one   *)
(* waits for the running calls, the other cuts them; Serve on a server     *)
(* that is already stopped returns at once.                                *)
(***************************************************************************)
CONSTANT Rpcs   \* remote calls

VARIABLES
  main,       \* where ListenAndServe is
  ret,        \* what it returned
  ctxDone,    \* its context is done
  health,     \* what the health service reports for ""
  serve,      \* the goroutine of Serve
  serveErrs,  \* its channel serveErrors, with room for one
  stopper,    \* the goroutine of GracefulStop
  timer,      \* time.After(GracefulStopTimeout)
  quit,       \* the server is stopping and takes no calls
  rpc         \* what became of a remote call

mainVars  == <<main, ret>>
serveVars == <<serve, serveErrs>>
stopVars  == <<stopper, timer, quit>>
vars == <<mainVars, ctxDone, health, serveVars, stopVars, rpc>>

TypeOK ==
  /\ main \in {"start", "select", "draining", "stopping", "returned"}
  /\ ret \in {"none", "nil", "error"}
  /\ ctxDone \in BOOLEAN
  /\ health \in {"SERVING", "NOT_SERVING"}
  /\ serve \in {"none", "spawned", "accepting", "ended", "sent"}
  /\ serveErrs \in {"empty", "failed", "stopped"}
  /\ stopper \in {"none", "spawned", "waiting", "done"}
  /\ timer \in {"off", "running", "fired"}
  /\ quit \in BOOLEAN
  /\ rpc \in [Rpcs -> {"idle", "running", "answered", "cut"}]

\* NewServer reports NOT_SERVING.
Init ==
  /\ main = "start" /\ ret = "none"
  /\ ctxDone = FALSE
  /\ health = "NOT_SERVING"
  /\ serve = "none" /\ serveErrs = "empty"
  /\ stopper = "none" /\ timer = "off" /\ quit = FALSE
  /\ rpc = [r \in Rpcs |-> "idle"]

-----------------------------------------------------------------------------
(* ListenAndServe. *)

Return(v) == main' = "returned" /\ ret' = v

ListenFails ==
  /\ main = "start"
  /\ Return("error")
  /\ UNCHANGED <<ctxDone, health, serveVars, stopVars, rpc>>

\* The port is bound, the health is set, and Serve is left to a goroutine.
Listen ==
  /\ main = "start"
  /\ main' = "select"
  /\ health' = "SERVING"
  /\ serve' = "spawned"
  /\ UNCHANGED <<ret, ctxDone, serveErrs, stopVars, rpc>>

Cancel ==
  /\ ~ctxDone
  /\ ctxDone' = TRUE
  /\ UNCHANGED <<mainVars, health, serveVars, stopVars, rpc>>

\* The select finds Serve's error and leaves the rest as it is.
TakeServeError ==
  /\ main = "select"
  /\ serveErrs # "empty"
  /\ serveErrs' = "empty"
  /\ Return("error")
  /\ UNCHANGED <<ctxDone, health, serve, stopVars, rpc>>

\* Mutant of BeginShutdown: nothing limits the graceful stop.
BeginShutdownNoTimer ==
  /\ main = "select"
  /\ ctxDone
  /\ health' = "NOT_SERVING"
  /\ main' = "draining"
  /\ stopper' = "spawned"
  /\ UNCHANGED <<ret, ctxDone, serveVars, timer, quit, rpc>>

\* The select finds the context done, an error of Serve waiting or not.
BeginShutdown ==
  /\ main = "select"
  /\ ctxDone
  /\ health' = "NOT_SERVING"
  /\ main' = "draining"
  /\ stopper' = "spawned"
  /\ timer' = "running"
  /\ UNCHANGED <<ret, ctxDone, serveVars, quit, rpc>>

TimerFires ==
  /\ timer = "running"
  /\ timer' = "fired"
  /\ UNCHANGED <<mainVars, ctxDone, health, serveVars, stopper, quit, rpc>>

\* Mutant of ReturnDrained: it is enough that the goroutine has begun.
ReturnDraining ==
  /\ main = "draining"
  /\ stopper # "spawned"
  /\ Return("nil")
  /\ UNCHANGED <<ctxDone, health, serveVars, stopVars, rpc>>

\* The graceful stop came to its end.
ReturnDrained ==
  /\ main = "draining"
  /\ stopper = "done"
  /\ Return("nil")
  /\ UNCHANGED <<ctxDone, health, serveVars, stopVars, rpc>>

Running == {r \in Rpcs : rpc[r] = "running"}

\* The timer came first: Stop closes the connections and with them the calls.
HardStop ==
  /\ main = "draining"
  /\ timer = "fired"
  /\ main' = "stopping"
  /\ quit' = TRUE
  /\ rpc' = [r \in Rpcs |-> IF r \in Running THEN "cut" ELSE rpc[r]]
  /\ UNCHANGED <<ret, ctxDone, health, serveVars, stopper, timer>>

\* Stop waits for Serve to leave its loop.
HardStopEnds ==
  /\ main = "stopping"
  /\ serve # "accepting"
  /\ Return("nil")
  /\ UNCHANGED <<ctxDone, health, serveVars, stopVars, rpc>>

-----------------------------------------------------------------------------
(* The goroutines, and grpc.Server within them. *)

\* Serve begins; on a server that is stopped it closes the port and returns.
ServeBegins ==
  /\ serve = "spawned"
  /\ serve' = IF quit THEN "ended" ELSE "accepting"
  /\ UNCHANGED <<mainVars, ctxDone, health, serveErrs, stopVars, rpc>>

\* The loop ends: the port failed, or the server is stopping.
ServeEnds ==
  /\ serve = "accepting"
  /\ serve' = "ended"
  /\ UNCHANGED <<mainVars, ctxDone, health, serveErrs, stopVars, rpc>>

\* Mutant of ServeSends: the channel has no room of its own.
ServeSendsUnbuffered ==
  /\ serve = "ended"
  /\ main = "select"
  /\ serve' = "sent"
  /\ serveErrs' = IF quit THEN "stopped" ELSE "failed"
  /\ UNCHANGED <<mainVars, ctxDone, health, stopVars, rpc>>

\* The goroutine puts the result into the channel, which has room for it.
ServeSends ==
  /\ serve = "ended"
  /\ serve' = "sent"
  /\ serveErrs' = IF quit THEN "stopped" ELSE "failed"
  /\ UNCHANGED <<mainVars, ctxDone, health, stopVars, rpc>>

GracefulBegins ==
  /\ stopper = "spawned"
  /\ stopper' = "waiting"
  /\ quit' = TRUE
  /\ UNCHANGED <<mainVars, ctxDone, health, serveVars, timer, rpc>>

\* GracefulStop waits for Serve and for every call, and closes `done'.
GracefulEnds ==
  /\ stopper = "waiting"
  /\ serve # "accepting"
  /\ Running = {}
  /\ stopper' = "done"
  /\ UNCHANGED <<mainVars, ctxDone, health, serveVars, timer, quit, rpc>>

\* A call comes in, also on a connection that outlives the port.
RpcBegins(r) ==
  /\ rpc[r] = "idle"
  /\ serve \in {"accepting", "ended", "sent"}
  /\ ~quit
  /\ rpc' = [rpc EXCEPT ![r] = "running"]
  /\ UNCHANGED <<mainVars, ctxDone, health, serveVars, stopVars>>

RpcAnswered(r) ==
  /\ rpc[r] = "running"
  /\ rpc' = [rpc EXCEPT ![r] = "answered"]
  /\ UNCHANGED <<mainVars, ctxDone, health, serveVars, stopVars>>

Main == \/ ListenFails \/ Listen \/ TakeServeError \/ BeginShutdown
        \/ ReturnDrained \/ HardStop \/ HardStopEnds

Goroutines == \/ ServeBegins \/ ServeEnds \/ ServeSends
              \/ GracefulBegins \/ GracefulEnds

Next == \/ Main \/ Cancel \/ TimerFires \/ Goroutines
        \/ \E r \in Rpcs : RpcBegins(r) \/ RpcAnswered(r)

Spec == Init /\ [][Next]_vars

\* Goroutines run and the timer fires; a port need not fail, and a handler
\* need not ever return.
Fairness ==
  /\ WF_vars(Main) /\ WF_vars(TimerFires)
  /\ WF_vars(ServeBegins) /\ WF_vars(quit /\ ServeEnds) /\ WF_vars(ServeSends)
  /\ WF_vars(GracefulBegins) /\ WF_vars(GracefulEnds)

FairSpec == Spec /\ Fairness

-----------------------------------------------------------------------------
(* Properties. *)

\* ListenAndServe with its goroutines is a server that stops gracefully, its own
\* return the one answer: who cancels its context closes it for good, and a nil
\* says that neither the loop of Serve nor a call runs, also after Stop.
Promise == INSTANCE GracefulServer WITH
             Requests <- Rpcs, Stops <- {"ListenAndServe"},
             phase <- IF quit THEN "closed" ELSE IF serve = "none" THEN "new" ELSE "open",
             asked <- ctxDone, listening <- (serve = "accepting"),
             active <- Running, answer <- [c \in {"ListenAndServe"} |-> ret]

RefinesGraceful == Promise!PromiseSpec

\* From the first moment calls are refused by a stopping server, its health
\* reports NOT_SERVING: the order of the two in ListenAndServe.
RefusesOnlyNotServing == quit => health = "NOT_SERVING"

\* ListenAndServe returns nil only after its context was done, when the loop
\* of Serve has ended and no call is running.
NilMeansQuiet ==
  ret = "nil" => /\ ctxDone
                 /\ serve # "accepting"
                 /\ Running = {}

\* docs/modules/grpc.md: bounded graceful shutdown.  However long the calls
\* run, and however late Serve begins, a done context ends ListenAndServe.
ShutdownIsBounded == (ctxDone /\ main # "start") ~> (main = "returned")

\* After a shutdown both goroutines come to their end: the channel has room
\* for the result nobody takes, and Stop lets GracefulStop finish.
NoGoroutineStays == (ret = "nil") ~> (serve = "sent" /\ stopper = "done")
=============================================================================
