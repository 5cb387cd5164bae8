-------------------------- MODULE PrometheusServer --------------------------
(***************************************************************************)
(* pkg/telemetry/prometheus_server.go: calls of Start and Shutdown from    *)
(* any goroutines, the goroutine of Serve, and the scrapes.                *)
(*                                                                         *)
(* http.Server is outside the code, modelled as it is used: Shutdown       *)
(* closes the port that Serve has taken over and waits for the scrapes     *)
(* under way; Serve closes its port whenever it returns, and returns at    *)
(* once on a server that is shut down.                                     *)
(***************************************************************************)
CONSTANTS
  Starts,      \* calls of Start
  Shutdowns,   \* calls of Shutdown
  Deadlined,   \* those whose context can expire
  Scrapes      \* requests of the scraper

ASSUME CallsAssumption == Starts \cap Shutdowns = {}

Calls == Starts \cup Shutdowns

VARIABLES
  server,      \* s.server is set
  port,        \* the listener
  serve,       \* the goroutine of Serve
  inShutdown,  \* http.Server's flag
  pc,          \* where a call is
  ret,         \* what it returned
  scrape       \* where a scrape is

serverVars == <<server, port, serve, inShutdown>>
callVars == <<pc, ret>>
vars == <<serverVars, callVars, scrape>>

TypeOK ==
  /\ server \in BOOLEAN
  /\ port \in {"closed", "open"}
  /\ serve \in {"none", "spawned", "accepting", "ended"}
  /\ inShutdown \in BOOLEAN
  /\ pc \in [Calls -> {"idle", "waiting", "returned"}]
  /\ ret \in [Calls -> {"none", "nil", "error"}]
  /\ scrape \in [Scrapes -> {"idle", "active", "done"}]

Init ==
  /\ server = FALSE /\ port = "closed" /\ serve = "none" /\ inShutdown = FALSE
  /\ pc = [c \in Calls |-> "idle"]
  /\ ret = [c \in Calls |-> "none"]
  /\ scrape = [q \in Scrapes |-> "idle"]

-----------------------------------------------------------------------------

Return(c, v) ==
  /\ pc' = [pc EXCEPT ![c] = "returned"]
  /\ ret' = [ret EXCEPT ![c] = v]

\* Start holds the mutex throughout.  A server that was ever set is kept.
StartAgain(c) ==
  /\ pc[c] = "idle"
  /\ server
  /\ Return(c, "nil")
  /\ UNCHANGED <<serverVars, scrape>>

\* The port cannot be bound: nothing is set, another Start may try again.
StartFails(c) ==
  /\ pc[c] = "idle"
  /\ ~server
  /\ Return(c, "error")
  /\ UNCHANGED <<serverVars, scrape>>

\* The port is bound, and Serve is left to a goroutine.
Start(c) ==
  /\ pc[c] = "idle"
  /\ ~server
  /\ server' = TRUE
  /\ port' = "open"
  /\ serve' = "spawned"
  /\ Return(c, "nil")
  /\ UNCHANGED <<inShutdown, scrape>>

\* Nothing was started.
ShutdownNothing(c) ==
  /\ pc[c] = "idle"
  /\ ~server
  /\ Return(c, "nil")
  /\ UNCHANGED <<serverVars, scrape>>

\* The server is read under the mutex and shut down outside it.  The port of
\* a Serve that has not begun is none of its ports yet.
Shutdown(c) ==
  /\ pc[c] = "idle"
  /\ server
  /\ inShutdown' = TRUE
  /\ port' = IF serve = "accepting" THEN "closed" ELSE port
  /\ pc' = [pc EXCEPT ![c] = "waiting"]
  /\ UNCHANGED <<server, serve, ret, scrape>>

Active == {q \in Scrapes : scrape[q] = "active"}

\* Mutant of ShutdownEnds: the scrapes are not waited for.
ShutdownEndsEarly(c) ==
  /\ pc[c] = "waiting"
  /\ serve # "accepting"
  /\ Return(c, "nil")
  /\ UNCHANGED <<serverVars, scrape>>

\* Serve has let go of its port and no scrape is under way.
ShutdownEnds(c) ==
  /\ pc[c] = "waiting"
  /\ serve # "accepting"
  /\ Active = {}
  /\ Return(c, "nil")
  /\ UNCHANGED <<serverVars, scrape>>

\* Mutant of ShutdownExpires: the server is shut down under a context without
\* deadline.
ShutdownExpiresIdle(c) ==
  /\ pc[c] = "waiting"
  /\ c \in Deadlined
  /\ serve # "accepting"
  /\ Active = {}
  /\ Return(c, "error")
  /\ UNCHANGED <<serverVars, scrape>>

\* Serve has let go of its port and the caller's context ends before the
\* scrapes do.
ShutdownExpires(c) ==
  /\ pc[c] = "waiting"
  /\ c \in Deadlined
  /\ serve # "accepting"
  /\ Return(c, "error")
  /\ UNCHANGED <<serverVars, scrape>>

-----------------------------------------------------------------------------

\* Mutant of ServeBegins: Serve on a server that is shut down keeps the port.
ServeBeginsOpen ==
  /\ serve = "spawned"
  /\ serve' = IF inShutdown THEN "ended" ELSE "accepting"
  /\ UNCHANGED <<server, port, inShutdown, callVars, scrape>>

\* Serve takes the port over, or closes it when the server is shut down.
ServeBegins ==
  /\ serve = "spawned"
  /\ IF inShutdown THEN serve' = "ended" /\ port' = "closed"
                   ELSE serve' = "accepting" /\ UNCHANGED port
  /\ UNCHANGED <<server, inShutdown, callVars, scrape>>

\* Serve returns: it is shut down, or the port fails and that is logged.
ServeEnds ==
  /\ serve = "accepting"
  /\ serve' = "ended"
  /\ port' = "closed"
  /\ UNCHANGED <<server, inShutdown, callVars, scrape>>

ScrapeBegins(q) ==
  /\ scrape[q] = "idle"
  /\ serve = "accepting" /\ port = "open"
  /\ scrape' = [scrape EXCEPT ![q] = "active"]
  /\ UNCHANGED <<serverVars, callVars>>

ScrapeEnds(q) ==
  /\ scrape[q] = "active"
  /\ scrape' = [scrape EXCEPT ![q] = "done"]
  /\ UNCHANGED <<serverVars, callVars>>

Next ==
  \/ \E c \in Starts : StartAgain(c) \/ StartFails(c) \/ Start(c)
  \/ \E c \in Shutdowns : \/ ShutdownNothing(c) \/ Shutdown(c)
                          \/ ShutdownEnds(c) \/ ShutdownExpires(c)
  \/ ServeBegins \/ ServeEnds
  \/ \E q \in Scrapes : ScrapeBegins(q) \/ ScrapeEnds(q)

Spec == Init /\ [][Next]_vars

\* Goroutines run and contexts expire; a scrape need not end.
Fairness ==
  /\ WF_vars(ServeBegins) /\ WF_vars(inShutdown /\ ServeEnds)
  /\ \A c \in Shutdowns : WF_vars(ShutdownEnds(c)) /\ WF_vars(ShutdownExpires(c))

FairSpec == Spec /\ Fairness

-----------------------------------------------------------------------------
(* Properties. *)

\* Every step of the calls, of Serve and of the scrapes is one of a server that
\* stops gracefully, or none: a server closes for good, however Shutdown, Start
\* and the goroutine of Serve meet, and a nil says that it is quiet.
Promise == INSTANCE GracefulServer WITH
             Requests <- Scrapes, Stops <- Shutdowns,
             phase <- IF inShutdown THEN "closed" ELSE IF server THEN "open" ELSE "new",
             asked <- inShutdown, listening <- (serve = "accepting"),
             active <- Active, answer <- [c \in Shutdowns |-> ret[c]]

RefinesGraceful == Promise!PromiseSpec

\* A Shutdown that waited for the server and returns nil leaves no scrape under
\* way and lets none begin, although the port of a Serve that has not begun is
\* still open then.
NilMeansQuiet ==
  [][\A c \in Shutdowns : (pc[c] = "waiting" /\ ret'[c] = "nil")
       => Active' = {} /\ serve' # "accepting" /\ inShutdown']_vars

\* The server is set only together with its Serve: a Start that failed keeps no
\* other from trying again, and two at once bind the port once.
ServerHasServe == server => serve # "none"

\* The port is released in the end, also when Shutdown is faster than the
\* goroutine of Serve.
PortIsReleased == inShutdown ~> (port = "closed")

\* A Shutdown under a deadline returns, whatever the scrapes do.
ShutdownReturns ==
  \A c \in Shutdowns \cap Deadlined : pc[c] = "waiting" ~> pc[c] = "returned"
=============================================================================
