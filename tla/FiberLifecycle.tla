--------------------------- MODULE FiberLifecycle ---------------------------
(***************************************************************************)
(* pkg/httpkit/fiber/lifecycle.go: the hooks that start and stop the HTTP  *)
(* server, and the goroutine of Listen.                                    *)
(*                                                                         *)
(* Fiber and fasthttp are outside the code, modelled as they are used: a   *)
(* shutdown of a server that has begun to serve closes its listener and    *)
(* waits for the requests under way or its context; of any other it        *)
(* returns nil at once, and a Listen that comes later serves.              *)
(***************************************************************************)
VARIABLES
  listen,    \* the goroutine of Listen and its listener
  stopping,  \* the flag of RegisterLifecycle
  stop,      \* where OnStop is, or what it returned
  report     \* how the goroutine logged the end of Listen

lifecycleVars == <<listen, stopping, stop, report>>

LifecycleTypeOK ==
  /\ listen \in {"none", "spawned", "serving", "ended", "failed", "closed"}
  /\ stopping \in BOOLEAN
  /\ stop \in {"idle", "waiting", "nil", "error"}
  /\ report \in {"none", "debug", "error"}

LifecycleInit ==
  listen = "none" /\ stopping = FALSE /\ stop = "idle" /\ report = "none"

\* OnStart returns nil and leaves Listen to a goroutine.
OnStart ==
  /\ listen = "none"
  /\ listen' = "spawned"
  /\ UNCHANGED <<stopping, stop, report>>

ListenBegins ==
  /\ listen = "spawned"
  /\ listen' = "serving"
  /\ UNCHANGED <<stopping, stop, report>>

\* The port cannot be bound, or accepting fails for good.
ListenFails ==
  /\ listen \in {"spawned", "serving"}
  /\ listen' = IF listen = "spawned" THEN "failed" ELSE "ended"
  /\ report' = IF stopping THEN "debug" ELSE "error"
  /\ UNCHANGED <<stopping, stop>>

\* Mutant of OnStop: the requests under way are not waited for.
OnStopAtOnce ==
  /\ listen # "none" /\ stop = "idle"
  /\ stopping' = TRUE
  /\ stop' = "nil"
  /\ listen' = IF listen \in {"serving", "ended"} THEN "closed" ELSE listen
  /\ UNCHANGED report

\* fx stops what it has started.
OnStop ==
  /\ listen # "none" /\ stop = "idle"
  /\ stopping' = TRUE
  /\ \/ /\ listen \in {"serving", "ended"}
        /\ listen' = "closed" /\ stop' = "waiting"
     \/ /\ listen \notin {"serving", "ended"}
        /\ stop' = "nil" /\ UNCHANGED listen
  /\ UNCHANGED report

OnStopEnds(open) ==
  /\ stop = "waiting"
  /\ open = {}
  /\ stop' = "nil"
  /\ UNCHANGED <<listen, stopping, report>>

OnStopExpires ==
  /\ stop = "waiting"
  /\ stop' = "error"
  /\ UNCHANGED <<listen, stopping, report>>
=============================================================================
