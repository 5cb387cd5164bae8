---------------------------- MODULE HttpPipeline ----------------------------
(***************************************************************************)
(* Requests on their way through a chain of the kit's middleware to a      *)
(* handler and back, and the error handler that answers after them:        *)
(* pkg/httpkit/fiber/middleware.go, pkg/auth/fiber/middleware.go and       *)
(* pkg/errors/app_error.go, on the server of FiberLifecycle.               *)
(*                                                                         *)
(* A request at depth d has d - 1 middlewares above it; depth 0 is Fiber.  *)
(* A panic nobody recovers ends the process.  An error is the kind of what *)
(* is returned: errors of the application with a status of their own, with *)
(* none ("unset"), with details that JSON cannot hold, and errors foreign  *)
(* to the kit, those of Fiber's router among them.                         *)
(***************************************************************************)
EXTENDS AccessRules, FiberLifecycle, Integers, Sequences, FiniteSets

CONSTANTS
  Requests,
  Chains,       \* the chains an application may install
  Holders,      \* those whose token resolves
  Claims,       \* the identity their token carries
  Contour,      \* what RequireContour asks for
  Permission    \* what RequirePermission asks for

\* A request brings no token, one that is refused, one that nobody can check
\* now, or that of a holder.
Outsiders == {"none", "bad", "unavailable"}
Tokens == Outsiders \cup Holders

Observers == {"trace", "logger", "metrics"}
Checks == {"authenticate", "optional", "contour", "permission"}
Middleware == Observers \cup Checks \cup {"recovery"}

Errors == {"unauthorized", "forbidden", "notfound", "internal",
           "unset", "details", "foreign"}
Statuses == {200, 400, 401, 403, 404, 500}

ASSUME PipelineAssumption ==
  /\ Chains \subseteq Seq(Middleware)
  /\ \A ch \in Chains : \A i, j \in 1..Len(ch) :
       ch[i] = "metrics" /\ ch[j] = "metrics" => i = j
  /\ Holders \cap Outsiders = {}
  /\ Claims \in [Holders -> Identity]
  /\ IsFiniteSet(Requests)

VARIABLES
  chain,     \* the chain installed
  at,        \* on its way down, up, panicking, answered
  depth,     \* the middleware it enters or returns to next
  token,     \* what it brings
  who,       \* the identity in its context
  handled,   \* the handler has run
  err,       \* the error that travels up
  failed,    \* a middleware or the handler returned an error or panicked
  status,    \* the status of the response
  span,      \* the trace: not begun, open, or its outcome
  spanCode,  \* the status the span carries
  level,     \* of the entry of the request log
  counted,   \* times the request was counted
  inflight,  \* the gauge of requests under way
  crashed    \* a panic ended the process

travel == <<at, depth>>
access == <<token, who, handled>>
response == <<err, failed, status>>
records == <<span, spanCode, level, counted>>
vars == <<chain, travel, access, response, records, inflight, crashed,
          lifecycleVars>>

TypeOK ==
  /\ LifecycleTypeOK
  /\ chain \in Chains
  /\ at \in [Requests -> {"idle", "down", "up", "panic", "answered"}]
  /\ depth \in [Requests -> 0 .. Len(chain) + 1]
  /\ token \in [Requests -> Tokens]
  /\ who \in [Requests -> Holders \cup {"none"}]
  /\ handled \in [Requests -> BOOLEAN]
  /\ err \in [Requests -> Errors \cup {"none"}]
  /\ failed \in [Requests -> BOOLEAN]
  /\ status \in [Requests -> Statuses]
  /\ span \in [Requests -> {"none", "open", "ok", "error"}]
  /\ spanCode \in [Requests -> Statuses]
  /\ level \in [Requests -> {"none", "info", "warn", "error"}]
  /\ counted \in [Requests -> 0..1]
  /\ inflight \in 0..Cardinality(Requests)
  /\ crashed \in BOOLEAN

Init ==
  /\ LifecycleInit
  /\ chain \in Chains
  /\ at = [r \in Requests |-> "idle"]
  /\ depth = [r \in Requests |-> 0]
  /\ token = [r \in Requests |-> "none"]
  /\ who = [r \in Requests |-> "none"]
  /\ handled = [r \in Requests |-> FALSE]
  /\ err = [r \in Requests |-> "none"]
  /\ failed = [r \in Requests |-> FALSE]
  /\ status = [r \in Requests |-> 200]
  /\ span = [r \in Requests |-> "none"]
  /\ spanCode = [r \in Requests |-> 200]
  /\ level = [r \in Requests |-> "none"]
  /\ counted = [r \in Requests |-> 0]
  /\ inflight = 0
  /\ crashed = FALSE

Open == {r \in Requests : at[r] \notin {"idle", "answered"}}

\* The middleware the request enters, or returns to.
Meets(r, mws) == depth[r] \in 1..Len(chain) /\ chain[depth[r]] \in mws

-----------------------------------------------------------------------------
(* Down the chain. *)

Arrive(r) ==
  /\ at[r] = "idle"
  /\ listen = "serving"
  /\ at' = [at EXCEPT ![r] = "down"]
  /\ depth' = [depth EXCEPT ![r] = 1]
  /\ \E t \in Tokens : token' = [token EXCEPT ![r] = t]
  /\ UNCHANGED <<chain, who, handled, response, records, inflight, crashed,
                 lifecycleVars>>

\* To the next middleware, or with an error back to those above.
Descend(r) ==
  /\ depth' = [depth EXCEPT ![r] = @ + 1]
  /\ UNCHANGED <<at, err, failed>>

Refuse(r, e) ==
  /\ at' = [at EXCEPT ![r] = "up"]
  /\ depth' = [depth EXCEPT ![r] = @ - 1]
  /\ err' = [err EXCEPT ![r] = e]
  /\ failed' = [failed EXCEPT ![r] = (e # "none")]

\* A trace starts its span, the metrics raise the gauge.
Enter(r) ==
  /\ at[r] = "down" /\ Meets(r, Observers \cup {"recovery"})
  /\ Descend(r)
  /\ span' = IF Meets(r, {"trace"}) THEN [span EXCEPT ![r] = "open"] ELSE span
  /\ inflight' = IF Meets(r, {"metrics"}) THEN inflight + 1 ELSE inflight
  /\ UNCHANGED <<chain, access, status, spanCode, level, counted, crashed,
                 lifecycleVars>>

\* Only a request without a token passes Optional anonymously.
Authenticate(r) ==
  /\ at[r] = "down" /\ Meets(r, {"authenticate", "optional"})
  /\ \/ /\ token[r] = "none" /\ Meets(r, {"optional"})
        /\ Descend(r) /\ UNCHANGED who
     \/ /\ \/ token[r] = "none" /\ Meets(r, {"authenticate"})
           \/ token[r] = "bad"
        /\ Refuse(r, "unauthorized") /\ UNCHANGED who
     \/ /\ token[r] = "unavailable"
        /\ Refuse(r, "internal") /\ UNCHANGED who
     \/ /\ token[r] \in Holders
        /\ who' = [who EXCEPT ![r] = token[r]]
        /\ Descend(r)
  /\ UNCHANGED <<chain, token, handled, status, records, inflight, crashed,
                 lifecycleVars>>

\* The identity satisfies a check of the contour or the permission.
Grants(identity, mw) ==
  CASE mw = "contour" -> HasContour(identity, Contour)
    [] mw = "permission" -> HasPermission(identity, Permission)

\* Mutant of Check: the checks are for those who are known.
CheckKnown(r) ==
  /\ at[r] = "down" /\ Meets(r, {"contour", "permission"})
  /\ IF who[r] = "none" \/ Grants(Claims[who[r]], chain[depth[r]])
       THEN Descend(r)
       ELSE Refuse(r, "forbidden")
  /\ UNCHANGED <<chain, access, status, records, inflight, crashed,
                 lifecycleVars>>

Check(r) ==
  /\ at[r] = "down" /\ Meets(r, {"contour", "permission"})
  /\ IF who[r] = "none" THEN Refuse(r, "unauthorized")
     ELSE IF Grants(Claims[who[r]], chain[depth[r]]) THEN Descend(r)
     ELSE Refuse(r, "forbidden")
  /\ UNCHANGED <<chain, access, status, records, inflight, crashed,
                 lifecycleVars>>

AtHandler(r) == at[r] = "down" /\ depth[r] = Len(chain) + 1

\* The handler writes a status and returns, with an error or without.
Handle(r) ==
  /\ AtHandler(r)
  /\ handled' = [handled EXCEPT ![r] = TRUE]
  /\ \E s \in {200, 400, 500} : status' = [status EXCEPT ![r] = s]
  /\ \E e \in Errors \cup {"none"} : Refuse(r, e)
  /\ UNCHANGED <<chain, token, who, records, inflight, crashed,
                 lifecycleVars>>

HandlerPanics(r) ==
  /\ AtHandler(r)
  /\ handled' = [handled EXCEPT ![r] = TRUE]
  /\ at' = [at EXCEPT ![r] = "panic"]
  /\ depth' = [depth EXCEPT ![r] = @ - 1]
  /\ failed' = [failed EXCEPT ![r] = TRUE]
  /\ UNCHANGED <<chain, token, who, err, status, records, inflight, crashed,
                 lifecycleVars>>

\* No route matches: the router returns an error of Fiber's own.
NoRoute(r) ==
  /\ AtHandler(r)
  /\ Refuse(r, "foreign")
  /\ UNCHANGED <<chain, access, status, records, inflight, crashed,
                 lifecycleVars>>

-----------------------------------------------------------------------------
(* Back up. *)

\* What the trace makes of an error and the status it reads.
TraceStatus(r) ==
  IF err[r] # "none" /\ status[r] < 400 THEN 500 ELSE status[r]

Outcome(r) == IF err[r] # "none" \/ TraceStatus(r) >= 400 THEN "error" ELSE "ok"

Level(r) ==
  IF err[r] # "none" \/ status[r] >= 500 THEN "error"
  ELSE IF status[r] >= 400 THEN "warn" ELSE "info"

\* The middleware has what next returned, and returns it.
Return(r) ==
  /\ at[r] = "up" /\ depth[r] > 0
  /\ depth' = [depth EXCEPT ![r] = @ - 1]
  /\ IF Meets(r, {"trace"})
       THEN /\ span' = [span EXCEPT ![r] = Outcome(r)]
            /\ spanCode' = [spanCode EXCEPT ![r] = TraceStatus(r)]
       ELSE UNCHANGED <<span, spanCode>>
  /\ level' = IF Meets(r, {"logger"}) THEN [level EXCEPT ![r] = Level(r)]
                                     ELSE level
  /\ IF Meets(r, {"metrics"})
       THEN /\ counted' = [counted EXCEPT ![r] = @ + 1]
            /\ inflight' = inflight - 1
       ELSE UNCHANGED <<counted, inflight>>
  /\ UNCHANGED <<chain, at, access, response, crashed, lifecycleVars>>

\* Mutant of Unwind: the gauge is lowered after next, not deferred.
UnwindPastGauge(r) ==
  /\ at[r] = "panic" /\ depth[r] > 0
  /\ depth' = [depth EXCEPT ![r] = @ - 1]
  /\ IF Meets(r, {"recovery"})
       THEN /\ at' = [at EXCEPT ![r] = "up"]
            /\ err' = [err EXCEPT ![r] = "internal"]
       ELSE UNCHANGED <<at, err>>
  /\ UNCHANGED <<chain, access, status, failed, records, inflight, crashed,
                 lifecycleVars>>

\* Mutant of Unwind: the recovery's result has no name, and its error is lost.
UnwindLosesError(r) ==
  /\ at[r] = "panic" /\ depth[r] > 0
  /\ depth' = [depth EXCEPT ![r] = @ - 1]
  /\ at' = IF Meets(r, {"recovery"}) THEN [at EXCEPT ![r] = "up"] ELSE at
  /\ inflight' = IF Meets(r, {"metrics"}) THEN inflight - 1 ELSE inflight
  /\ UNCHANGED <<chain, access, response, records, crashed, lifecycleVars>>

\* A panic runs what is deferred: the gauge is lowered, the recovery makes an
\* error of it; a span stays open, nothing is logged or counted.
Unwind(r) ==
  /\ at[r] = "panic" /\ depth[r] > 0
  /\ depth' = [depth EXCEPT ![r] = @ - 1]
  /\ IF Meets(r, {"recovery"})
       THEN /\ at' = [at EXCEPT ![r] = "up"]
            /\ err' = [err EXCEPT ![r] = "internal"]
       ELSE UNCHANGED <<at, err>>
  /\ inflight' = IF Meets(r, {"metrics"}) THEN inflight - 1 ELSE inflight
  /\ UNCHANGED <<chain, access, status, failed, records, crashed,
                 lifecycleVars>>

Crash(r) ==
  /\ at[r] = "panic" /\ depth[r] = 0
  /\ crashed' = TRUE
  /\ UNCHANGED <<chain, travel, access, response, records, inflight,
                 lifecycleVars>>

\* An error without a status, or foreign to the kit, is internal; and when its
\* details cannot be encoded Fiber answers 500 itself.
HTTPStatusOf(e) ==
  CASE e = "unauthorized" -> 401
    [] e = "forbidden" -> 403
    [] e = "notfound" -> 404
    [] OTHER -> 500

\* Fiber hands an error to the error handler, after the whole chain.
Answer(r) ==
  /\ at[r] = "up" /\ depth[r] = 0
  /\ at' = [at EXCEPT ![r] = "answered"]
  /\ status' = IF err[r] = "none" THEN status
               ELSE [status EXCEPT ![r] = HTTPStatusOf(err[r])]
  /\ UNCHANGED <<chain, depth, access, err, failed, records, inflight, crashed,
                 lifecycleVars>>

-----------------------------------------------------------------------------

Request(r) ==
  /\ ~crashed
  /\ \/ Arrive(r) \/ Enter(r) \/ Authenticate(r) \/ Check(r)
     \/ Handle(r) \/ HandlerPanics(r) \/ NoRoute(r)
     \/ Return(r) \/ Unwind(r) \/ Crash(r) \/ Answer(r)

Lifecycle ==
  /\ ~crashed
  /\ OnStart \/ ListenBegins \/ ListenFails
     \/ OnStop \/ OnStopEnds(Open) \/ OnStopExpires
  /\ UNCHANGED <<chain, travel, access, response, records, inflight, crashed>>

Next == Lifecycle \/ \E r \in Requests : Request(r)

Spec == Init /\ [][Next]_vars

-----------------------------------------------------------------------------
(* Properties. *)

\* The request is between a middleware and the handler: it has entered it and
\* not returned through it.
Inside(r, mw) ==
  \E d \in 1..Len(chain) :
    /\ chain[d] = mw
    /\ \/ at[r] = "down" /\ d < depth[r]
       \/ at[r] \in {"up", "panic"} /\ d <= depth[r]

\* The gauge of requests under way counts those inside the metrics, however
\* many there are and whether they succeed, are refused, fail or panic.
GaugeCountsInside ==
  inflight = Cardinality({r \in Requests : Inside(r, "metrics")})

\* What a client is told, the span and the log agree on whether a request
\* failed, although both are written before the error handler sets the status:
\* a refusal, an error or a panic is answered with a status of 400 or more, and
\* a span that ended and an entry of the log say so of these answers only.
FailureIsTold ==
  \A r \in Requests : at[r] = "answered" =>
    /\ ~handled[r] \/ failed[r] => status[r] >= 400
    /\ span[r] \in {"ok", "error"} => (span[r] = "error" <=> status[r] >= 400)
    /\ level[r] # "none" => (level[r] = "info" <=> status[r] < 400)

\* The handler runs behind every check of its chain, in whatever order they are
\* installed: with an identity that resolved from the request's token, unless
\* the request brought none and no check but Optional is there, and with what
\* the checks ask for.
HandlerIsGuarded ==
  \A r \in Requests, d \in 1..Len(chain) : handled[r] =>
    CASE chain[d] = "authenticate" -> who[r] \in Holders /\ who[r] = token[r]
      [] chain[d] = "optional" -> who[r] = token[r]
      [] chain[d] = "contour" ->
           who[r] \in Holders /\ HasContour(Claims[who[r]], Contour)
      [] chain[d] = "permission" ->
           who[r] \in Holders /\ HasPermission(Claims[who[r]], Permission)
      [] OTHER -> TRUE

\* A server that served and was stopped with nil has no request under way and
\* takes none.
NilStopIsQuiet == stop = "nil" /\ listen = "closed" => Open = {}

\* The comment of RegisterLifecycle: it shuts Fiber down on fx stop.  After a
\* stop that returned nil the server does not serve.
StopShutsDown == stop = "nil" => listen # "serving"

\* The test TestTraceMiddlewareUsesFinalHTTPStatusForSpanOutcome: the span of a
\* request carries the status the client gets.
SpanHasFinalStatus ==
  \A r \in Requests :
    at[r] = "answered" /\ span[r] \in {"ok", "error"} => spanCode[r] = status[r]
=============================================================================
