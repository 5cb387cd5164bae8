------------------------ MODULE HttpPipeline_proofs ------------------------
(***************************************************************************)
(* The safety of HttpPipeline for any chains, any requests and any claims. *)
(***************************************************************************)
EXTENDS HttpPipeline, FiniteSetTheorems, TLAPS

\* What has let a request that brought t, with w in its context, pass mw: the
\* part of HandlerIsGuarded that is about one middleware.
Passed(w, t, mw) ==
  CASE mw = "authenticate" -> w \in Holders /\ w = t
    [] mw = "optional" -> w = t
    [] mw = "contour" -> w \in Holders /\ HasContour(Claims[w], Contour)
    [] mw = "permission" -> w \in Holders /\ HasPermission(Claims[w], Permission)
    [] OTHER -> TRUE

\* Where a request is and how deep belong together.
ShapeInv(r) ==
  /\ at[r] = "down" => depth[r] > 0
  /\ at[r] \in {"up", "panic"} => depth[r] <= Len(chain)
  /\ at[r] = "answered" => depth[r] = 0

\* On its way down a request has passed the middlewares above it, and behind
\* the handler all of them.
GuardInv(r) ==
  /\ who[r] \in {"none", token[r]}
  /\ at[r] = "idle" => who[r] = "none"
  /\ at[r] = "down" =>
       \A d \in 1..Len(chain) :
         d < depth[r] => Passed(who[r], token[r], chain[d])
  /\ handled[r] => /\ at[r] \notin {"idle", "down"}
                   /\ \A d \in 1..Len(chain) :
                        Passed(who[r], token[r], chain[d])

\* The error tells a failure until it is answered, and the records are written
\* on the way up.
FailInv(r) ==
  /\ at[r] \in {"idle", "down"} =>
       err[r] = "none" /\ ~failed[r] /\ status[r] = 200
  /\ at[r] = "panic" => failed[r]
  /\ at[r] \in {"up", "answered"} =>
       (~handled[r] => failed[r]) /\ (failed[r] <=> err[r] # "none")
  /\ at[r] = "answered" => (failed[r] => status[r] >= 400)
  /\ span[r] \in {"ok", "error"} =>
       /\ at[r] \in {"up", "answered"}
       /\ span[r] = "error" <=> (failed[r] \/ status[r] >= 400)
  /\ level[r] # "none" =>
       /\ at[r] \in {"up", "answered"}
       /\ level[r] = "info" <=> (~failed[r] /\ status[r] < 400)

\* A request that was counted has left the metrics.
CountInv(r) ==
  counted[r] # 0 =>
    /\ at[r] \in {"up", "answered"}
    /\ \A d \in 1..Len(chain) : chain[d] = "metrics" => depth[r] < d

\* The server is closed only by OnStop.
StopInv == listen = "closed" => stop # "idle"

ReqInv(r) == ShapeInv(r) /\ GuardInv(r) /\ FailInv(r) /\ CountInv(r)

IndInv ==
  /\ TypeOK
  /\ \A r \in Requests : ReqInv(r)
  /\ GaugeCountsInside
  /\ StopInv
  /\ NilStopIsQuiet

-----------------------------------------------------------------------------
(* The parts of a step of a request. *)

\* Everything of TypeOK but the gauge's bound, which rests on its counting.
OtherTypes ==
  /\ LifecycleTypeOK
  /\ chain \in Chains
  /\ at \in [Requests -> {"idle", "down", "up", "panic", "answered"}]
  /\ depth \in [Requests -> 0 .. Len(chain) + 1]
  /\ token \in [Requests -> Tokens]
  /\ who \in [Requests -> Holders \cup {"none"}]
  /\ handled \in [Requests -> BOOLEAN]
  /\ err \in [Requests -> Errors \cup {"none"}]
  /\ failed \in [Requests -> BOOLEAN]
  /\ status \in [Requests -> Statuses]
  /\ span \in [Requests -> {"none", "open", "ok", "error"}]
  /\ spanCode \in [Requests -> Statuses]
  /\ level \in [Requests -> {"none", "info", "warn", "error"}]
  /\ counted \in [Requests -> 0..1]
  /\ crashed \in BOOLEAN

\* The bound of the gauge is the one part that rests on the counting.
LEMMA TypeParts ==
  TypeOK <=> OtherTypes /\ inflight \in 0..Cardinality(Requests)
BY DEF TypeOK, OtherTypes

\* A step of r leaves the other requests alone.
Frame(r) ==
  /\ chain' = chain
  /\ \A q \in Requests \ {r} :
       /\ at'[q] = at[q] /\ depth'[q] = depth[q] /\ token'[q] = token[q]
       /\ who'[q] = who[q] /\ handled'[q] = handled[q] /\ err'[q] = err[q]
       /\ failed'[q] = failed[q] /\ status'[q] = status[q]
       /\ span'[q] = span[q] /\ level'[q] = level[q]
       /\ counted'[q] = counted[q]

\* The gauge follows r into the metrics and out of them.
GaugeFollows(r) ==
  \/ /\ inflight' = inflight + 1
     /\ ~Inside(r, "metrics") /\ Inside(r, "metrics")'
  \/ /\ inflight' = inflight - 1
     /\ Inside(r, "metrics") /\ ~Inside(r, "metrics")'
  \/ /\ inflight' = inflight
     /\ Inside(r, "metrics")' <=> Inside(r, "metrics")

Step(r) == OtherTypes' /\ Frame(r) /\ ReqInv(r)' /\ GaugeFollows(r)

\* Of a chain: its length, its parts, and the one metrics middleware it may have.
LEMMA ChainIsSeq ==
  ASSUME TypeOK
  PROVE  /\ Len(chain) \in Nat
         /\ \A d \in 1..Len(chain) : chain[d] \in Middleware
         /\ \A i, j \in 1..Len(chain) :
              chain[i] = "metrics" /\ chain[j] = "metrics" => i = j
BY PipelineAssumption DEF TypeOK

\* Statuses can be compared.
LEMMA StatusIsInt ==
  ASSUME TypeOK, NEW r \in Requests
  PROVE  status[r] \in Int
<1>1. status[r] \in {200, 400, 401, 403, 404, 500}
  BY DEF TypeOK, Statuses
<1> QED
  BY <1>1

\* A request comes in at the top of the chain.
LEMMA ArriveStep ==
  ASSUME IndInv, NEW r \in Requests, Arrive(r)
  PROVE  Step(r)
<1> USE DEF Arrive, response, records
<1>0. TypeOK /\ ReqInv(r) /\ Len(chain) \in Nat
  BY ChainIsSeq DEF IndInv
<1>1. OtherTypes'
  BY <1>0 DEF TypeOK, OtherTypes, lifecycleVars, LifecycleTypeOK, Tokens
<1>2. Frame(r)
  BY <1>0 DEF Frame, TypeOK
<1>3. ReqInv(r)'
  BY <1>0 DEF TypeOK, ReqInv, ShapeInv, GuardInv, FailInv, CountInv, Passed
<1>4. GaugeFollows(r)
  BY <1>0 DEF GaugeFollows, Inside, TypeOK
<1> QED
  BY <1>1, <1>2, <1>3, <1>4 DEF Step

\* What Descend and Refuse do to r itself.
Descends(r) ==
  /\ at[r] = "down" /\ at'[r] = "down" /\ depth'[r] = depth[r] + 1
  /\ err'[r] = err[r] /\ failed'[r] = failed[r]

Refused(r) ==
  /\ at[r] = "down" /\ at'[r] = "up" /\ depth'[r] = depth[r] - 1
  /\ err'[r] # "none" /\ failed'[r]

\* What middlewares on the way down leave alone.
Kept(r) ==
  /\ chain' = chain /\ token'[r] = token[r] /\ handled'[r] = handled[r]
  /\ status'[r] = status[r] /\ level'[r] = level[r]
  /\ counted'[r] = counted[r]

\* Going on is the way of Descends,
LEMMA DescendEffect ==
  ASSUME TypeOK, NEW r \in Requests, at[r] = "down", Descend(r)
  PROVE  Descends(r) /\ depth' = [depth EXCEPT ![r] = @ + 1]
BY DEF TypeOK, Descend, Descends

\* and refusing that of Refused.
LEMMA RefuseEffect ==
  ASSUME TypeOK, NEW r \in Requests, at[r] = "down",
         NEW e \in Errors, Refuse(r, e)
  PROVE  Refused(r) /\ depth' = [depth EXCEPT ![r] = @ - 1]
BY DEF TypeOK, Refuse, Refused, Errors

\* Both keep the types of what moves.
LEMMA MoveTypes ==
  ASSUME TypeOK, NEW r \in Requests, depth[r] \in 1..Len(chain),
         Descend(r) \/ \E e \in Errors : Refuse(r, e)
  PROVE  /\ at' \in [Requests -> {"idle", "down", "up", "panic", "answered"}]
         /\ depth' \in [Requests -> 0 .. Len(chain) + 1]
         /\ err' \in [Requests -> Errors \cup {"none"}]
         /\ failed' \in [Requests -> BOOLEAN]
<1>1. CASE Descend(r)
  BY <1>1, ChainIsSeq DEF TypeOK, Descend
<1>2. ASSUME NEW e \in Errors, Refuse(r, e)
      PROVE  /\ at' \in [Requests -> {"idle", "down", "up", "panic", "answered"}]
             /\ depth' \in [Requests -> 0 .. Len(chain) + 1]
             /\ err' \in [Requests -> Errors \cup {"none"}]
             /\ failed' \in [Requests -> BOOLEAN]
  BY <1>2, ChainIsSeq DEF TypeOK, Refuse
<1> QED
  BY <1>1, <1>2

\* A middleware that lets pass only whom its check passes keeps the guard.
LEMMA DownKeepsGuard ==
  ASSUME TypeOK, NEW r \in Requests, ReqInv(r), Kept(r),
         depth[r] \in 1..Len(chain),
         who'[r] \in {"none", token[r]},
         Descends(r) =>
           /\ \A mw \in Middleware : Passed(who[r], token[r], mw)
                                       => Passed(who'[r], token[r], mw)
           /\ Passed(who'[r], token[r], chain[depth[r]]),
         Descends(r) \/ Refused(r)
  PROVE  GuardInv(r)'
<1>1. at[r] = "down" /\ ~handled[r] /\ Len(chain) \in Nat
        /\ \A d \in 1..Len(chain) : chain[d] \in Middleware
  BY ChainIsSeq DEF ReqInv, GuardInv, Descends, Refused
<1>2. CASE Refused(r)
  BY <1>1, <1>2 DEF GuardInv, Kept, Refused
<1>3. CASE Descends(r)
  <2>1. ASSUME NEW d \in 1..Len(chain), d < depth[r] + 1
        PROVE  Passed(who'[r], token[r], chain[d])
    <3>1. CASE d = depth[r]
      BY <3>1, <1>3
    <3>2. CASE d < depth[r]
      BY <3>2, <1>1, <1>3 DEF ReqInv, GuardInv
    <3> QED
      BY <2>1, <3>1, <3>2
  <2> QED
    BY <1>1, <1>3, <2>1 DEF GuardInv, Kept, Descends
<1> QED
  BY <1>2, <1>3

\* On the way down no failure is written, a refusal is the first.
LEMMA DownKeepsFail ==
  ASSUME TypeOK, NEW r \in Requests, ReqInv(r), Kept(r),
         depth[r] \in 1..Len(chain),
         span'[r] = span[r] \/ (Descends(r) /\ span'[r] = "open"),
         Descends(r) \/ Refused(r)
  PROVE  ShapeInv(r)' /\ FailInv(r)' /\ CountInv(r)'
<1>1. ~handled[r] /\ counted[r] = 0 /\ status[r] = 200 /\ ~failed[r]
        /\ err[r] = "none" /\ span[r] \notin {"ok", "error"}
        /\ level[r] = "none"
  BY DEF TypeOK, ReqInv, GuardInv, FailInv, CountInv, Descends, Refused
<1>2. ShapeInv(r)'
  BY ChainIsSeq DEF ShapeInv, Kept, Descends, Refused
<1>3. FailInv(r)'
  BY <1>1 DEF FailInv, Kept, Descends, Refused
<1>4. CountInv(r)'
  BY <1>1 DEF CountInv, Kept
<1> QED
  BY <1>2, <1>3, <1>4

\* Only the metrics middleware changes who is inside it.
LEMMA DownKeepsInside ==
  ASSUME TypeOK, NEW r \in Requests, Kept(r),
         depth[r] \in 1..Len(chain), chain[depth[r]] # "metrics",
         Descends(r) \/ Refused(r)
  PROVE  Inside(r, "metrics")' <=> Inside(r, "metrics")
BY ChainIsSeq DEF Inside, Kept, Descends, Refused

\* Trace, logger, metrics and recovery on the way down.
LEMMA EnterStep ==
  ASSUME IndInv, NEW r \in Requests, Enter(r)
  PROVE  Step(r)
<1> USE DEF Enter, Meets, access
<1>0. TypeOK /\ ReqInv(r) /\ Len(chain) \in Nat
  BY ChainIsSeq DEF IndInv
<1>1. OtherTypes'
  BY <1>0 DEF TypeOK, OtherTypes, lifecycleVars, LifecycleTypeOK, Descend
<1>2. Frame(r)
  BY <1>0 DEF Frame, TypeOK, Descend
<1>3. Kept(r) /\ Descends(r) /\ (span'[r] = span[r] \/ span'[r] = "open")
        /\ depth[r] \in 1..Len(chain) /\ who'[r] = who[r]
  BY <1>0 DEF TypeOK, Kept, Descends, Descend
<1>4. ReqInv(r)'
  <2>1. Passed(who[r], token[r], chain[depth[r]])
    BY DEF Passed, Observers
  <2>2. who'[r] \in {"none", token[r]}
    BY <1>0, <1>3 DEF ReqInv, GuardInv
  <2>3. GuardInv(r)'
    BY <1>0, <1>3, <2>1, <2>2, DownKeepsGuard
  <2> QED
    BY <1>0, <1>3, <2>3, DownKeepsFail DEF ReqInv
<1>5. GaugeFollows(r)
  <2>1. CASE chain[depth[r]] = "metrics"
    <3>1. inflight' = inflight + 1
      BY <2>1, <1>3
    <3>2. ~Inside(r, "metrics")
      BY <2>1, <1>0, <1>3, ChainIsSeq DEF Inside, TypeOK
    <3>3. Inside(r, "metrics")'
      BY <2>1, <1>0, <1>3 DEF Inside, Kept, Descends
    <3> QED
      BY <3>1, <3>2, <3>3 DEF GaugeFollows
  <2>2. CASE chain[depth[r]] # "metrics"
    BY <2>2, <1>0, <1>3, DownKeepsInside DEF GaugeFollows
  <2> QED
    BY <2>1, <2>2
<1> QED
  BY <1>1, <1>2, <1>4, <1>5 DEF Step

\* Authenticate and Optional set the identity or refuse.
LEMMA AuthenticateStep ==
  ASSUME IndInv, NEW r \in Requests, Authenticate(r)
  PROVE  Step(r)
<1> USE DEF Authenticate, Meets, records
<1>0. TypeOK /\ ReqInv(r) /\ Len(chain) \in Nat
  BY ChainIsSeq DEF IndInv
<1>1. OtherTypes'
  <2>1. OtherTypes
    BY <1>0, TypeParts
  <2>2. depth[r] \in 1..Len(chain)
          /\ (Descend(r) \/ \E e \in Errors : Refuse(r, e))
    BY DEF Errors
  <2>3. who' \in [Requests -> Holders \cup {"none"}]
    BY <1>0 DEF TypeOK
  <2> QED
    BY <1>0, <2>1, <2>2, <2>3, MoveTypes
       DEF OtherTypes, lifecycleVars, LifecycleTypeOK
<1>2. Frame(r)
  BY <1>0 DEF Frame, TypeOK, Descend, Refuse
<1>3. /\ Kept(r) /\ span'[r] = span[r] /\ inflight' = inflight
      /\ depth[r] \in 1..Len(chain)
      /\ chain[depth[r]] \in {"authenticate", "optional"}
  BY <1>0 DEF Kept
<1>4. \/ /\ Descends(r) /\ who'[r] = who[r] /\ token[r] = "none"
         /\ chain[depth[r]] = "optional"
      \/ Descends(r) /\ who'[r] = token[r] /\ token[r] \in Holders
      \/ Refused(r) /\ who'[r] = who[r]
  <2>1. at[r] = "down" /\ {"unauthorized", "internal"} \subseteq Errors
    BY DEF Errors
  <2>2. \A t \in Holders : who' = [who EXCEPT ![r] = t] => who'[r] = t
    BY <1>0 DEF TypeOK
  <2> QED
    BY <1>0, <2>1, <2>2, DescendEffect, RefuseEffect
<1>5. ReqInv(r)'
  <2>1. "none" \notin Holders
    BY PipelineAssumption DEF Outsiders
  <2>2. who[r] \in {"none", token[r]}
    BY <1>0 DEF ReqInv, GuardInv
  <2>3. ASSUME NEW mw, Passed(who[r], token[r], mw), Descends(r)
        PROVE  Passed(who'[r], token[r], mw)
    <3>1. who'[r] = who[r] \/ (who[r] = "none" /\ who'[r] = token[r])
      BY <1>4, <2>2, <2>3 DEF Descends, Refused
    <3> QED
      BY <2>1, <2>2, <2>3, <3>1, <1>4 DEF Passed, Descends, Refused
  <2>4. Descends(r) => Passed(who'[r], token[r], chain[depth[r]])
    BY <1>3, <1>4, <2>1, <2>2 DEF Passed, Descends, Refused
  <2>5. who'[r] \in {"none", token[r]}
    BY <1>4, <2>2
  <2>6. GuardInv(r)'
    BY <1>0, <1>3, <1>4, <2>3, <2>4, <2>5, DownKeepsGuard
  <2> QED
    BY <1>0, <1>3, <1>4, <2>6, DownKeepsFail DEF ReqInv
<1>6. GaugeFollows(r)
  BY <1>0, <1>3, <1>4, DownKeepsInside DEF GaugeFollows
<1> QED
  BY <1>1, <1>2, <1>5, <1>6 DEF Step

\* RequireContour and RequirePermission let pass whom the identity lets.
LEMMA CheckStep ==
  ASSUME IndInv, NEW r \in Requests, Check(r)
  PROVE  Step(r)
<1> USE DEF Check, Meets, access, records
<1>0. TypeOK /\ ReqInv(r) /\ Len(chain) \in Nat
  BY ChainIsSeq DEF IndInv
<1>1. OtherTypes'
  <2>1. OtherTypes
    BY <1>0, TypeParts
  <2>2. depth[r] \in 1..Len(chain)
          /\ (Descend(r) \/ \E e \in Errors : Refuse(r, e))
    BY DEF Errors
  <2> QED
    BY <1>0, <2>1, <2>2, MoveTypes
       DEF OtherTypes, lifecycleVars, LifecycleTypeOK
<1>2. Frame(r)
  BY <1>0 DEF Frame, TypeOK, Descend, Refuse
<1>3. /\ Kept(r) /\ span'[r] = span[r] /\ inflight' = inflight
      /\ depth[r] \in 1..Len(chain) /\ who'[r] = who[r]
      /\ chain[depth[r]] \in {"contour", "permission"}
  BY <1>0 DEF Kept
<1>4. \/ /\ Descends(r) /\ who[r] # "none"
         /\ Grants(Claims[who[r]], chain[depth[r]])
      \/ Refused(r)
  <2>1. at[r] = "down" /\ {"unauthorized", "forbidden"} \subseteq Errors
    BY DEF Errors
  <2> QED
    BY <1>0, <2>1, DescendEffect, RefuseEffect
<1>5. ReqInv(r)'
  <2>2. Descends(r) => Passed(who[r], token[r], chain[depth[r]])
    BY <1>0, <1>3, <1>4 DEF Passed, Grants, TypeOK, Descends, Refused
  <2>3. who'[r] \in {"none", token[r]}
    BY <1>0, <1>3 DEF ReqInv, GuardInv
  <2>4. GuardInv(r)'
    BY <1>0, <1>3, <1>4, <2>2, <2>3, DownKeepsGuard
  <2> QED
    BY <1>0, <1>3, <1>4, <2>4, DownKeepsFail DEF ReqInv
<1>6. GaugeFollows(r)
  BY <1>0, <1>3, <1>4, DownKeepsInside DEF GaugeFollows
<1> QED
  BY <1>1, <1>2, <1>5, <1>6 DEF Step

\* Behind the handler, whatever it did: nothing above has changed but what a
\* handler writes.
LEMMA TurnStep ==
  ASSUME TypeOK, NEW r \in Requests, ReqInv(r), AtHandler(r),
         chain' = chain, token'[r] = token[r], who'[r] = who[r],
         handled'[r] \/ (handled'[r] = handled[r] /\ failed'[r]),
         \/ at'[r] = "up" /\ (failed'[r] <=> err'[r] # "none")
         \/ at'[r] = "panic" /\ failed'[r],
         depth'[r] = depth[r] - 1,
         span'[r] = span[r], level'[r] = level[r], counted'[r] = counted[r],
         inflight' = inflight
  PROVE  ReqInv(r)' /\ GaugeFollows(r)
<1>1. /\ at[r] = "down" /\ depth[r] = Len(chain) + 1 /\ Len(chain) \in Nat
      /\ ~handled[r] /\ counted[r] = 0
      /\ span[r] \notin {"ok", "error"} /\ level[r] = "none"
  BY ChainIsSeq DEF TypeOK, ReqInv, GuardInv, FailInv, CountInv, AtHandler
<1>2. ShapeInv(r)'
  BY <1>1 DEF ShapeInv
<1>3. GuardInv(r)'
  BY <1>1 DEF ReqInv, GuardInv
<1>4. FailInv(r)'
  BY <1>1 DEF FailInv
<1>5. CountInv(r)'
  BY <1>1 DEF CountInv
<1>6. GaugeFollows(r)
  BY <1>1 DEF GaugeFollows, Inside
<1> QED
  BY <1>2, <1>3, <1>4, <1>5, <1>6 DEF ReqInv

\* The handler answers, fails or panics, or no route matches.
LEMMA HandlerSteps ==
  ASSUME IndInv, NEW r \in Requests,
         Handle(r) \/ HandlerPanics(r) \/ NoRoute(r)
  PROVE  Step(r)
<1> USE DEF Refuse, AtHandler, records
<1>0. TypeOK /\ ReqInv(r) /\ Len(chain) \in Nat
  BY ChainIsSeq DEF IndInv
<1>1. CASE Handle(r)
  <2> USE <1>1 DEF Handle
  <2>1. PICK s \in {200, 400, 500} : status' = [status EXCEPT ![r] = s]
    OBVIOUS
  <2>2. PICK e \in Errors \cup {"none"} : Refuse(r, e)
    OBVIOUS
  <2>3. OtherTypes'
    BY <1>0, <2>1, <2>2
       DEF TypeOK, OtherTypes, lifecycleVars, LifecycleTypeOK, Statuses
  <2>4. Frame(r)
    BY <1>0, <2>1, <2>2 DEF Frame, TypeOK
  <2>5. /\ chain' = chain /\ token'[r] = token[r] /\ who'[r] = who[r]
        /\ handled'[r] /\ span'[r] = span[r] /\ level'[r] = level[r]
        /\ counted'[r] = counted[r] /\ inflight' = inflight
    BY <1>0 DEF TypeOK
  <2>6. at'[r] = "up" /\ depth'[r] = depth[r] - 1
    BY <1>0, <2>2 DEF TypeOK
  <2>7. err'[r] = e /\ failed'[r] = (e # "none")
    BY <1>0, <2>2 DEF TypeOK
  <2> HIDE <1>1 DEF Handle, Refuse
  <2> QED
    BY <1>0, <1>1, <2>3, <2>4, <2>5, <2>6, <2>7, TurnStep DEF Step, Handle
<1>2. CASE HandlerPanics(r)
  <2> USE <1>2 DEF HandlerPanics
  <2>1. OtherTypes'
    BY <1>0 DEF TypeOK, OtherTypes, lifecycleVars, LifecycleTypeOK
  <2>2. Frame(r)
    BY <1>0 DEF Frame, TypeOK
  <2> QED
    BY <1>0, <2>1, <2>2, TurnStep DEF Step, TypeOK
<1>3. CASE NoRoute(r)
  <2> USE <1>3 DEF NoRoute, access
  <2>1. OtherTypes'
    BY <1>0 DEF TypeOK, OtherTypes, lifecycleVars, LifecycleTypeOK, Errors
  <2>2. Frame(r)
    BY <1>0 DEF Frame, TypeOK
  <2> QED
    BY <1>0, <2>1, <2>2, TurnStep DEF Step, TypeOK
<1> QED
  BY <1>1, <1>2, <1>3

\* The gauge on the way up, by a return or by a panic.
LEMMA UpGauge ==
  ASSUME TypeOK, NEW r \in Requests, at[r] \in {"up", "panic"},
         at'[r] \in {"up", "panic"}, depth[r] \in 1..Len(chain),
         depth'[r] = depth[r] - 1, chain' = chain,
         inflight' = IF chain[depth[r]] = "metrics" THEN inflight - 1
                                                   ELSE inflight
  PROVE  GaugeFollows(r)
<1>1. CASE chain[depth[r]] = "metrics"
  <2>1. Inside(r, "metrics")
    BY <1>1 DEF Inside, TypeOK
  <2>2. ~Inside(r, "metrics")'
    BY <1>1, ChainIsSeq DEF Inside
  <2> QED
    BY <1>1, <2>1, <2>2 DEF GaugeFollows
<1>2. CASE chain[depth[r]] # "metrics"
  BY <1>2, ChainIsSeq DEF GaugeFollows, Inside
<1> QED
  BY <1>1, <1>2

\* A middleware on the way up writes its record.
LEMMA ReturnStep ==
  ASSUME IndInv, NEW r \in Requests, Return(r)
  PROVE  Step(r)
<1> USE DEF Return, Meets, access, response
<1>0. TypeOK /\ ReqInv(r) /\ Len(chain) \in Nat
  BY ChainIsSeq DEF IndInv
<1>1. depth[r] \in 1..Len(chain) /\ depth'[r] = depth[r] - 1 /\ at'[r] = "up"
  BY <1>0 DEF TypeOK, ReqInv, ShapeInv
<1>2. chain[depth[r]] = "metrics" => counted[r] = 0
  BY <1>0, <1>1 DEF ReqInv, CountInv
<1>3. Outcome(r) \in {"ok", "error"} /\ TraceStatus(r) \in Statuses
        /\ Level(r) \in {"info", "warn", "error"}
  BY <1>0 DEF Outcome, TraceStatus, Level, TypeOK, Statuses
<1>4. OtherTypes'
  <2>1. OtherTypes
    BY <1>0, TypeParts
  <2>2. depth' \in [Requests -> 0 .. Len(chain) + 1]
    BY <1>0, <1>1 DEF TypeOK
  <2>3. span' \in [Requests -> {"none", "open", "ok", "error"}]
          /\ spanCode' \in [Requests -> Statuses]
    <3>1. CASE Meets(r, {"trace"})
      <4>1. /\ span' = [span EXCEPT ![r] = Outcome(r)]
            /\ spanCode' = [spanCode EXCEPT ![r] = TraceStatus(r)]
        BY <3>1
      <4> HIDE DEF Return, Meets, access, response
      <4>2. span' \in [Requests -> {"none", "open", "ok", "error"}]
        BY <1>0, <1>3, <4>1 DEF TypeOK
      <4>3. spanCode' \in [Requests -> Statuses]
        BY <1>0, <1>3, <4>1 DEF TypeOK
      <4> QED
        BY <4>2, <4>3
    <3>2. CASE ~Meets(r, {"trace"})
      BY <1>0, <3>2 DEF TypeOK
    <3> QED
      BY <3>1, <3>2
  <2>5. level' \in [Requests -> {"none", "info", "warn", "error"}]
    <3>1. CASE Meets(r, {"logger"})
      BY <1>0, <1>3, <3>1 DEF TypeOK
    <3>2. CASE ~Meets(r, {"logger"})
      BY <1>0, <3>2 DEF TypeOK
    <3> QED
      BY <3>1, <3>2
  <2>4. counted' \in [Requests -> 0..1]
    <3>1. CASE Meets(r, {"metrics"})
      BY <1>0, <1>1, <1>2, <3>1 DEF TypeOK
    <3>2. CASE ~Meets(r, {"metrics"})
      BY <1>0, <3>2 DEF TypeOK
    <3> QED
      BY <3>1, <3>2
  <2> QED
    BY <2>1, <2>2, <2>3, <2>4, <2>5
       DEF OtherTypes, lifecycleVars, LifecycleTypeOK
<1>5. Frame(r)
  BY <1>0 DEF Frame, TypeOK
<1>6. ReqInv(r)'
  <2>1. ShapeInv(r)' /\ GuardInv(r)'
    BY <1>0, <1>1 DEF ReqInv, ShapeInv, GuardInv
  <2>2. span'[r] = span[r] \/ span'[r] = Outcome(r)
    BY <1>0 DEF TypeOK
  <2>3. level'[r] = level[r] \/ level'[r] = Level(r)
    BY <1>0 DEF TypeOK
  <2>4. Outcome(r) = "error" <=> (failed[r] \/ status[r] >= 400)
    BY <1>0 DEF Outcome, TraceStatus, ReqInv, FailInv, TypeOK, Statuses
  <2>5. Level(r) = "info" <=> (~failed[r] /\ status[r] < 400)
    <3>1. failed[r] <=> err[r] # "none"
      BY <1>0 DEF ReqInv, FailInv
    <3>2. status[r] \in Int
      BY <1>0, StatusIsInt
    <3> HIDE DEF Return, Meets, access, response
    <3> QED
      BY <3>1, <3>2 DEF Level
  <2>6. FailInv(r)'
    BY <1>0, <1>1, <2>2, <2>3, <2>4, <2>5 DEF ReqInv, FailInv
  <2>7. CountInv(r)'
    <3>1. CASE chain[depth[r]] = "metrics"
      BY <1>0, <1>1, <3>1, ChainIsSeq DEF CountInv
    <3>2. CASE chain[depth[r]] # "metrics"
      BY <1>0, <1>1, <3>2 DEF ReqInv, CountInv
    <3> QED
      BY <3>1, <3>2
  <2> QED
    BY <2>1, <2>6, <2>7 DEF ReqInv
<1>7. GaugeFollows(r)
  BY <1>0, <1>1, UpGauge
<1> QED
  BY <1>4, <1>5, <1>6, <1>7 DEF Step

\* A panic passes a middleware, which runs what it deferred, or is recovered.
LEMMA UnwindStep ==
  ASSUME IndInv, NEW r \in Requests, Unwind(r)
  PROVE  Step(r)
<1> USE DEF Unwind, Meets, access, records
<1>0. TypeOK /\ ReqInv(r) /\ Len(chain) \in Nat
  BY ChainIsSeq DEF IndInv
<1>1. depth[r] \in 1..Len(chain) /\ depth'[r] = depth[r] - 1
  BY <1>0 DEF TypeOK, ReqInv, ShapeInv
<1>2. \/ at'[r] = "panic" /\ err'[r] = err[r]
      \/ at'[r] = "up" /\ err'[r] = "internal"
  BY <1>0 DEF TypeOK
<1>3. OtherTypes'
  <2>1. OtherTypes
    BY <1>0, TypeParts
  <2>2. depth' \in [Requests -> 0 .. Len(chain) + 1]
    BY <1>0, <1>1 DEF TypeOK
  <2>3. at' \in [Requests -> {"idle", "down", "up", "panic", "answered"}]
          /\ err' \in [Requests -> Errors \cup {"none"}]
    BY <1>0 DEF TypeOK, Errors
  <2> QED
    BY <2>1, <2>2, <2>3 DEF OtherTypes, lifecycleVars, LifecycleTypeOK
<1>4. Frame(r)
  BY <1>0 DEF Frame, TypeOK
<1>5. ReqInv(r)'
  BY <1>0, <1>1, <1>2 DEF ReqInv, ShapeInv, GuardInv, FailInv, CountInv
<1>6. GaugeFollows(r)
  BY <1>0, <1>1, <1>2, UpGauge
<1> QED
  BY <1>3, <1>4, <1>5, <1>6 DEF Step

\* A panic nobody recovers ends the process.
LEMMA CrashStep ==
  ASSUME IndInv, NEW r \in Requests, Crash(r)
  PROVE  Step(r)
<1> USE DEF Crash, travel, access, response, records
<1>0. TypeOK /\ ReqInv(r)
  BY DEF IndInv
<1>1. OtherTypes'
  BY <1>0 DEF TypeOK, OtherTypes, lifecycleVars, LifecycleTypeOK
<1>2. Frame(r)
  BY DEF Frame
<1>3. ReqInv(r)'
  BY <1>0 DEF ReqInv, ShapeInv, GuardInv, FailInv, CountInv
<1>4. GaugeFollows(r)
  BY DEF GaugeFollows, Inside
<1> QED
  BY <1>1, <1>2, <1>3, <1>4 DEF Step

\* The error handler sets the status of the answer.
LEMMA AnswerStep ==
  ASSUME IndInv, NEW r \in Requests, Answer(r)
  PROVE  Step(r)
<1> USE DEF Answer, access, records
<1>0. TypeOK /\ ReqInv(r) /\ Len(chain) \in Nat
  BY ChainIsSeq DEF IndInv
<1>1. HTTPStatusOf(err[r]) \in Statuses /\ HTTPStatusOf(err[r]) >= 400
  BY DEF HTTPStatusOf, Statuses
<1>2. OtherTypes'
  BY <1>0, <1>1 DEF TypeOK, OtherTypes, lifecycleVars, LifecycleTypeOK
<1>3. Frame(r)
  BY <1>0 DEF Frame, TypeOK
<1>4. ReqInv(r)'
  <2>1. \/ ~failed[r] /\ status'[r] = status[r]
        \/ failed[r] /\ status'[r] >= 400
    BY <1>0, <1>1 DEF TypeOK, ReqInv, FailInv
  <2>2. at'[r] = "answered"
    BY <1>0 DEF TypeOK
  <2>3. FailInv(r)'
    BY <1>0, <2>1, <2>2 DEF ReqInv, FailInv, TypeOK, Statuses
  <2>4. ShapeInv(r)' /\ GuardInv(r)' /\ CountInv(r)'
    BY <1>0, <2>2 DEF ReqInv, ShapeInv, GuardInv, CountInv
  <2> QED
    BY <2>3, <2>4 DEF ReqInv
<1>5. GaugeFollows(r)
  BY <1>0 DEF GaugeFollows, Inside, TypeOK
<1> QED
  BY <1>2, <1>3, <1>4, <1>5 DEF Step

\* All steps of a request.
LEMMA RequestStep ==
  ASSUME IndInv, NEW r \in Requests, Request(r)
  PROVE  Step(r)
BY ArriveStep, EnterStep, AuthenticateStep, CheckStep, HandlerSteps,
   ReturnStep, UnwindStep, CrashStep, AnswerStep DEF Request

-----------------------------------------------------------------------------
(* The whole state. *)

\* A step of one request leaves the others as they are.
LEMMA OthersKeep ==
  ASSUME TypeOK, NEW r \in Requests, Frame(r),
         NEW q \in Requests \ {r}, ReqInv(q)
  PROVE  ReqInv(q)' /\ (Inside(q, "metrics")' <=> Inside(q, "metrics"))
<1> USE DEF Frame
<1>1. ShapeInv(q)' /\ GuardInv(q)'
  BY DEF ReqInv, ShapeInv, GuardInv
<1>2. FailInv(q)' /\ CountInv(q)'
  BY DEF ReqInv, FailInv, CountInv
<1>3. Inside(q, "metrics")' <=> Inside(q, "metrics")
  BY DEF Inside
<1> QED
  BY <1>1, <1>2, <1>3 DEF ReqInv

InMetrics == {q \in Requests : Inside(q, "metrics")}

\* The gauge stays the number of requests inside the metrics, and so within
\* its bound.
LEMMA GaugeStep ==
  ASSUME TypeOK, GaugeCountsInside, NEW r \in Requests, GaugeFollows(r),
         \A q \in Requests \ {r} :
           Inside(q, "metrics")' <=> Inside(q, "metrics")
  PROVE  GaugeCountsInside'
<1>1. IsFiniteSet(InMetrics) /\ inflight = Cardinality(InMetrics)
        /\ Cardinality(InMetrics) \in Nat
  BY PipelineAssumption, FS_Subset, FS_CardinalityType
     DEF InMetrics, GaugeCountsInside
<1>2. CASE /\ inflight' = inflight + 1
           /\ ~Inside(r, "metrics") /\ Inside(r, "metrics")'
  <2>1. InMetrics' = InMetrics \cup {r} /\ r \notin InMetrics
    BY <1>2 DEF InMetrics
  <2> QED
    BY <1>1, <1>2, <2>1, FS_AddElement DEF GaugeCountsInside, InMetrics
<1>3. CASE /\ inflight' = inflight - 1
           /\ Inside(r, "metrics") /\ ~Inside(r, "metrics")'
  <2>1. InMetrics' = InMetrics \ {r} /\ r \in InMetrics
    BY <1>3 DEF InMetrics
  <2> QED
    BY <1>1, <1>3, <2>1, FS_RemoveElement DEF GaugeCountsInside, InMetrics
<1>4. CASE inflight' = inflight
           /\ (Inside(r, "metrics")' <=> Inside(r, "metrics"))
  <2>1. InMetrics' = InMetrics
    BY <1>4 DEF InMetrics
  <2> QED
    BY <1>1, <1>4, <2>1 DEF GaugeCountsInside, InMetrics
<1> QED
  BY <1>2, <1>3, <1>4 DEF GaugeFollows

\* A gauge that counts requests is bounded by their number.
LEMMA GaugeBound ==
  ASSUME GaugeCountsInside
  PROVE  inflight \in 0..Cardinality(Requests)
<1>1. InMetrics \subseteq Requests
  BY DEF InMetrics
<1> QED
  BY <1>1, PipelineAssumption, FS_Subset, FS_CardinalityType
     DEF GaugeCountsInside, InMetrics

\* Requests arrive at a server that serves, and do not move the lifecycle.
LEMMA RequestKeepsStop ==
  ASSUME IndInv, NEW r \in Requests, Request(r), Frame(r)
  PROVE  StopInv' /\ NilStopIsQuiet'
<1>1. lifecycleVars' = lifecycleVars
  BY DEF Request, Arrive, Enter, Authenticate, Check, Handle, HandlerPanics,
         NoRoute, Return, Unwind, Crash, Answer
<1>2. at[r] = "idle" => listen = "serving"
  BY DEF Request, Arrive, Enter, Authenticate, Check, Handle, HandlerPanics,
         NoRoute, Return, Unwind, Crash, Answer, AtHandler
<1>3. at[r] # "answered"
  BY DEF Request, Arrive, Enter, Authenticate, Check, Handle, HandlerPanics,
         NoRoute, Return, Unwind, Crash, Answer, AtHandler
<1>4. ASSUME stop = "nil", listen = "closed"
      PROVE  Open' = {}
  <2>1. Open = {}
    BY <1>4 DEF IndInv, NilStopIsQuiet
  <2>2. at[r] \in {"idle", "answered"}
    BY <2>1 DEF Open
  <2> QED
    BY <1>2, <1>3, <1>4, <2>2
<1> QED
  BY <1>1, <1>4 DEF IndInv, StopInv, NilStopIsQuiet, lifecycleVars

\* Start, Listen and stop leave the requests alone.
LEMMA LifecycleKeeps ==
  ASSUME IndInv, Lifecycle
  PROVE  IndInv'
<1> USE DEF Lifecycle, travel, access, response, records
<1>1. Open' = Open /\ GaugeCountsInside'
  BY DEF Open, IndInv, GaugeCountsInside, Inside
<1>2. TypeOK' /\ StopInv' /\ NilStopIsQuiet'
  <2>1. LifecycleTypeOK'
    BY DEF IndInv, TypeOK, LifecycleTypeOK, OnStart, ListenBegins, ListenFails,
           OnStop, OnStopEnds, OnStopExpires
  <2>2. StopInv' /\ NilStopIsQuiet'
    BY <1>1 DEF IndInv, TypeOK, LifecycleTypeOK, StopInv, NilStopIsQuiet,
                OnStart, ListenBegins, ListenFails, OnStop, OnStopEnds,
                OnStopExpires
  <2> QED
    BY <2>1, <2>2 DEF IndInv, TypeOK
<1>3. \A q \in Requests : ReqInv(q)'
  BY DEF IndInv, ReqInv, ShapeInv, GuardInv, FailInv, CountInv
<1> QED
  BY <1>1, <1>2, <1>3 DEF IndInv

\* No request is there at first.
LEMMA InitInd == Init => IndInv
<1> SUFFICES ASSUME Init PROVE IndInv
  OBVIOUS
<1> USE DEF Init, LifecycleInit
<1>1. chain \in Seq(Middleware) /\ Len(chain) \in Nat
  BY PipelineAssumption
<1>2. OtherTypes
  <2>1. depth \in [Requests -> 0 .. Len(chain) + 1]
          /\ counted \in [Requests -> 0..1]
    BY <1>1
  <2>2. status \in [Requests -> Statuses] /\ spanCode \in [Requests -> Statuses]
    BY DEF Statuses
  <2>3. token \in [Requests -> Tokens]
    BY DEF Tokens, Outsiders
  <2> QED
    BY <2>1, <2>2, <2>3 DEF OtherTypes, LifecycleTypeOK
<1>3. \A q \in Requests : ReqInv(q)
  BY DEF ReqInv, ShapeInv, GuardInv, FailInv, CountInv
<1>4. GaugeCountsInside
  <2>1. InMetrics = {}
    BY DEF InMetrics, Inside
  <2> QED
    BY <2>1, FS_EmptySet DEF GaugeCountsInside, InMetrics
<1>5. StopInv /\ NilStopIsQuiet
  BY DEF StopInv, NilStopIsQuiet
<1> QED
  BY <1>2, <1>3, <1>4, <1>5, TypeParts, GaugeBound DEF IndInv

\* Requests one by one, the gauge over all of them, and the lifecycle.
LEMMA StepInd == IndInv /\ [Next]_vars => IndInv'
<1> SUFFICES ASSUME IndInv, [Next]_vars PROVE IndInv'
  OBVIOUS
<1>1. CASE Lifecycle
  BY <1>1, LifecycleKeeps
<1>2. ASSUME NEW r \in Requests, Request(r)
      PROVE  IndInv'
  <2>1. Step(r)
    BY <1>2, RequestStep
  <2>2. \A q \in Requests \ {r} :
          ReqInv(q)' /\ (Inside(q, "metrics")' <=> Inside(q, "metrics"))
    BY <2>1, OthersKeep DEF Step, IndInv
  <2>3. \A q \in Requests : ReqInv(q)'
    BY <2>1, <2>2 DEF Step
  <2>4. GaugeCountsInside'
    BY <2>1, <2>2, GaugeStep DEF Step, IndInv
  <2>5. (inflight \in 0..Cardinality(Requests))'
    BY <2>4, GaugeBound, PTL
  <2>6. TypeOK'
    BY <2>1, <2>5 DEF Step, TypeOK, OtherTypes
  <2>7. StopInv' /\ NilStopIsQuiet'
    BY <1>2, <2>1, RequestKeepsStop DEF Step
  <2> QED
    BY <2>3, <2>4, <2>6, <2>7 DEF IndInv
<1>3. CASE UNCHANGED vars
  <2> USE <1>3 DEF vars, travel, access, response, records, lifecycleVars
  <2>1. \A q \in Requests : ReqInv(q)'
    BY DEF IndInv, ReqInv, ShapeInv, GuardInv, FailInv, CountInv
  <2>2. TypeOK' /\ StopInv'
    BY DEF IndInv, TypeOK, LifecycleTypeOK, StopInv
  <2>3. GaugeCountsInside' /\ NilStopIsQuiet'
    BY DEF IndInv, GaugeCountsInside, Inside, NilStopIsQuiet, Open
  <2> QED
    BY <2>1, <2>2, <2>3 DEF IndInv
<1> QED
  BY <1>1, <1>2, <1>3 DEF Next

\* The invariant holds of every run.
LEMMA Invariance == Spec => []IndInv
BY InitInd, StepInd, PTL DEF Spec

-----------------------------------------------------------------------------
(* Theorems. *)

\* Type correctness: the statuses, the counter and the gauge keep their ranges
\* whatever chain is installed.
THEOREM TypeCorrect == Spec => []TypeOK
<1>1. IndInv => TypeOK
  BY DEF IndInv
<1> QED
  BY <1>1, Invariance, PTL

\* For any number of requests the gauge of NewRequestMetricsMiddleware is the
\* number of them inside it.
THEOREM GaugeIsExact == Spec => []GaugeCountsInside
<1>1. IndInv => GaugeCountsInside
  BY DEF IndInv
<1> QED
  BY <1>1, Invariance, PTL

\* In any chain the answer, the span and the log of a request agree on whether
\* it failed.
THEOREM FailuresAreTold == Spec => []FailureIsTold
<1>1. IndInv => FailureIsTold
  <2> SUFFICES ASSUME IndInv, NEW r \in Requests, at[r] = "answered"
               PROVE  /\ ~handled[r] \/ failed[r] => status[r] >= 400
                      /\ span[r] \in {"ok", "error"}
                           => (span[r] = "error" <=> status[r] >= 400)
                      /\ level[r] # "none"
                           => (level[r] = "info" <=> status[r] < 400)
    BY DEF FailureIsTold
  <2>1. status[r] \in Int /\ FailInv(r)
    BY StatusIsInt DEF IndInv, ReqInv
  <2> QED
    BY <2>1 DEF FailInv
<1> QED
  BY <1>1, Invariance, PTL

\* In any chain, in any order, no handler runs but behind every check of
\* Authenticate, Optional, RequireContour and RequirePermission installed.
THEOREM HandlersAreGuarded == Spec => []HandlerIsGuarded
<1>1. IndInv => HandlerIsGuarded
  BY DEF IndInv, ReqInv, GuardInv, Passed, HandlerIsGuarded
<1> QED
  BY <1>1, Invariance, PTL

\* A nil answer of OnStop for a server that served leaves no request under way.
THEOREM NilStops == Spec => []NilStopIsQuiet
<1>1. IndInv => NilStopIsQuiet
  BY DEF IndInv
<1> QED
  BY <1>1, Invariance, PTL
=============================================================================
