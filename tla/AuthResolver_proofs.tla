------------------------ MODULE AuthResolver_proofs ------------------------
(***************************************************************************)
(* The safety of AuthResolver for any keys, requests, TTL and timeout, and *)
(* its refinement of KeyTrust.                                             *)
(***************************************************************************)
EXTENDS AuthResolver, TLAPS

-----------------------------------------------------------------------------
(* The inductive invariant. *)

\* The history of publication never runs ahead of the clock, and is up to
\* date for the keys that are published.
ClockInv ==
  \A k \in Kids : /\ lastPublished[k] <= now
                  /\ k \in published => lastPublished[k] = now

\* A fetch is as old as its timeout allows, and the set it brought was
\* published since it began.
FetchInv ==
  \A r \in Requests :
    /\ InFlight(r) => startedAt[r] <= now /\ now - startedAt[r] <= Timeout
    /\ pc[r] = "reading" =>
         \A k \in answer[r] : lastPublished[k] >= startedAt[r]

\* The cached set was published at most a fetch before it was installed.
CacheInv ==
  \A k \in keys : lastPublished[k] >= fetchedAt - Timeout

\* Who looks again has installed, and finds its own set or another's.
InstallerInv ==
  \A r \in Requests :
    pc[r] = "again" => /\ installer # NoRequest
                       /\ installer = r => keys = answer[r]

StatusInv == \A r \in Requests : pc[r] # "done" => status[r] = "open"

IndInv == /\ TypeOK /\ ClockInv /\ FetchInv /\ CacheInv
          /\ InstallerInv /\ StatusInv

-----------------------------------------------------------------------------
(* It holds. *)

\* The cache is empty at first.
LEMMA InitInd == Init => IndInv
<1>1. CacheTTL \in Nat /\ Timeout \in Nat
  BY ResolverAssumption
<1> QED
  BY <1>1 DEF Init, EndpointInit, IndInv, TypeOK, ClockInv, FetchInv, CacheInv,
              InstallerInv, StatusInv, InFlight, LongAgo

\* No failure of Resolve is anything but a refusal.
LEMMA RefuseIsUnauthorized ==
  ASSUME NEW r, NEW err, Refuse(r, err)
  PROVE  Finish(r, "unauthorized")
BY DEF Refuse, AsStatus, Resolved

\* A request that is given its verdict disturbs nothing else.
LEMMA FinishKeeps ==
  ASSUME IndInv, NEW r \in Requests, NEW verdict \in {"accepted", "unauthorized"},
         Finish(r, verdict), UNCHANGED <<endpointVars, cacheVars>>
  PROVE  IndInv'
<1>1. TypeOK'
  BY DEF IndInv, TypeOK, Finish, endpointVars, cacheVars
<1>2. ClockInv' /\ CacheInv'
  BY DEF IndInv, ClockInv, CacheInv, endpointVars, cacheVars
<1>3. FetchInv'
  BY DEF IndInv, TypeOK, FetchInv, Finish, InFlight, endpointVars
<1>4. InstallerInv' /\ StatusInv'
  BY DEF IndInv, TypeOK, InstallerInv, StatusInv, Finish, cacheVars
<1> QED
  BY <1>1, <1>2, <1>3, <1>4 DEF IndInv

\* The steps that only move a request on.
LEMMA StepKeeps ==
  ASSUME IndInv, NEW r \in Requests, Step(r)
  PROVE  IndInv'
<1>1. ASSUME \/ RefuseEarly(r) \/ Hit(r) \/ FetchFails(r)
             \/ HitAgain(r) \/ MissAgain(r)
      PROVE  IndInv'
  <2>1. UNCHANGED <<endpointVars, cacheVars>>
    BY <1>1 DEF RefuseEarly, Hit, FetchFails, HitAgain, MissAgain
  <2>2. Finish(r, "accepted") \/ Finish(r, "unauthorized")
    BY <1>1, RefuseIsUnauthorized
       DEF RefuseEarly, Hit, FetchFails, HitAgain, MissAgain, UseKey
  <2> QED
    BY <2>1, <2>2, FinishKeeps
<1>2. ASSUME Miss(r)
      PROVE  IndInv'
  <2>1. TypeOK'
    BY <1>2 DEF IndInv, TypeOK, Miss, endpointVars, cacheVars
  <2>2. ClockInv' /\ CacheInv'
    BY <1>2 DEF IndInv, ClockInv, CacheInv, Miss, endpointVars, cacheVars
  <2>3. FetchInv'
    BY <1>2, ResolverAssumption
       DEF IndInv, TypeOK, FetchInv, Miss, InFlight, endpointVars
  <2>4. InstallerInv' /\ StatusInv'
    BY <1>2 DEF IndInv, TypeOK, InstallerInv, StatusInv, Miss, cacheVars
  <2> QED
    BY <2>1, <2>2, <2>3, <2>4 DEF IndInv
<1>3. ASSUME Respond(r)
      PROVE  IndInv'
  <2>1. TypeOK'
    BY <1>3 DEF IndInv, TypeOK, Respond, endpointVars, cacheVars
  <2>2. ClockInv' /\ CacheInv'
    BY <1>3 DEF IndInv, ClockInv, CacheInv, Respond, endpointVars, cacheVars
  <2>3. FetchInv'
    BY <1>3 DEF IndInv, TypeOK, ClockInv, FetchInv, Respond, InFlight, endpointVars
  <2>4. InstallerInv' /\ StatusInv'
    BY <1>3 DEF IndInv, TypeOK, InstallerInv, StatusInv, Respond, cacheVars
  <2> QED
    BY <2>1, <2>2, <2>3, <2>4 DEF IndInv
<1>4. ASSUME Install(r)
      PROVE  IndInv'
  <2>1. TypeOK'
    BY <1>4 DEF IndInv, TypeOK, Install, endpointVars
  <2>2. ClockInv' /\ FetchInv'
    BY <1>4 DEF IndInv, TypeOK, ClockInv, FetchInv, Install, InFlight, endpointVars
  <2>3. CacheInv'
    <3>1. \A k \in answer[r] : lastPublished[k] >= now - Timeout
      BY <1>4, ResolverAssumption DEF IndInv, TypeOK, FetchInv, Install, InFlight
    <3> QED
      BY <1>4, <3>1 DEF CacheInv, Install, endpointVars
  <2>4. InstallerInv' /\ StatusInv'
    BY <1>4, ResolverAssumption DEF IndInv, TypeOK, InstallerInv, StatusInv, Install
  <2> QED
    BY <2>1, <2>2, <2>3, <2>4 DEF IndInv
<1> QED
  BY <1>1, <1>2, <1>3, <1>4 DEF Step

\* The clock and the issuer only move publication forward.
LEMMA EnvironmentKeeps ==
  ASSUME IndInv, Time \/ Rotation
  PROVE  IndInv'
<1>1. UNCHANGED <<pc, kid, startedAt, answer, status, keys, fetchedAt, installer>>
  BY DEF Time, Rotation, requestVars, cacheVars
<1>2. /\ TypeOK' /\ ClockInv'
      /\ \A k \in Kids : lastPublished'[k] >= lastPublished[k]
  <2>1. CASE Time
    BY <1>1, <2>1 DEF IndInv, TypeOK, ClockInv, Time, Tick
  <2>2. CASE Rotation
    BY <1>1, <2>2 DEF IndInv, TypeOK, ClockInv, Rotation, Rotate
  <2> QED
    BY <2>1, <2>2
<1>3. FetchInv'
  <2>1. CASE Time
    BY <1>1, <1>2, <2>1, ResolverAssumption
       DEF IndInv, TypeOK, FetchInv, Time, Tick, InFlight
  <2>2. CASE Rotation
    BY <1>1, <1>2, <2>2 DEF IndInv, TypeOK, FetchInv, Rotation, Rotate, InFlight
  <2> QED
    BY <2>1, <2>2
<1>4. CacheInv'
  BY <1>1, <1>2, ResolverAssumption DEF IndInv, TypeOK, CacheInv
<1>5. InstallerInv' /\ StatusInv'
  BY <1>1 DEF IndInv, InstallerInv, StatusInv
<1> QED
  BY <1>2, <1>3, <1>4, <1>5 DEF IndInv

\* Requests, time and the issuer keep the invariant.
LEMMA NextKeeps == IndInv /\ [Next]_vars => IndInv'
<1> SUFFICES ASSUME IndInv, [Next]_vars PROVE IndInv'
  OBVIOUS
<1>1. CASE UNCHANGED vars
  BY <1>1 DEF IndInv, TypeOK, ClockInv, FetchInv, CacheInv, InstallerInv,
              StatusInv, InFlight, vars, endpointVars, requestVars, cacheVars
<1>2. CASE Next
  BY <1>2, StepKeeps, EnvironmentKeeps DEF Next
<1> QED
  BY <1>1, <1>2

\* So it holds of every run.
LEMMA Inductive == Spec => []IndInv
BY InitInd, NextKeeps, PTL DEF Spec

-----------------------------------------------------------------------------
(* What follows from it. *)

\* The state of the cache and of the requests keeps its types.
THEOREM TypeCorrect == Spec => []TypeOK
<1>1. IndInv => TypeOK
  BY DEF IndInv
<1> QED
  BY <1>1, Inductive, PTL

\* A key the cache would serve was published at most CacheTTL + Timeout ago.
THEOREM CacheIsRecent == Spec => []ServedKeysAreRecent
<1>1. IndInv => ServedKeysAreRecent
  BY ResolverAssumption
     DEF IndInv, TypeOK, CacheInv, ServedKeysAreRecent, Cached, Fresh
<1> QED
  BY <1>1, Inductive, PTL

\* A request loses the key it fetched only to another's fetch.
THEOREM LostToAnotherOnly == Spec => []OvertakenOnly
<1>1. IndInv => OvertakenOnly
  BY DEF IndInv, InstallerInv, OvertakenOnly
<1> QED
  BY <1>1, Inductive, PTL

-----------------------------------------------------------------------------
(* The refinement. *)

\* Being let in is a decision KeyTrust allows: the key was served.
LEMMA AcceptedIsTrusted ==
  ASSUME IndInv, NEW r \in Requests, pc[r] # "done", Cached(kid[r]),
         Finish(r, "accepted"), UNCHANGED endpointVars
  PROVE  Trust!Decide(r)
<1>1. kid[r] \in Kids /\ now - lastPublished[kid[r]] <= CacheTTL + Timeout
  BY ResolverAssumption
     DEF IndInv, TypeOK, CacheInv, Cached, Fresh
<1>2. status[r] = "open"
  BY DEF IndInv, StatusInv
<1> QED
  BY <1>1, <1>2
     DEF Trust!Decide, Trust!Trusted, Trust!endpointVars, endpointVars, Finish

\* So is every refusal.
LEMMA RefusedIsAllowed ==
  ASSUME IndInv, NEW r \in Requests, pc[r] # "done",
         Finish(r, "unauthorized"), UNCHANGED endpointVars
  PROVE  Trust!Decide(r)
<1>1. status[r] = "open"
  BY DEF IndInv, StatusInv
<1> QED
  BY <1>1 DEF Trust!Decide, Trust!endpointVars, endpointVars, Finish

\* Every step of a request decides it or is invisible.
LEMMA StepRefines ==
  ASSUME IndInv, NEW r \in Requests, Step(r)
  PROVE  Trust!Decide(r) \/ UNCHANGED Trust!trustVars
<1>1. ASSUME Hit(r) \/ HitAgain(r)
      PROVE  Trust!Decide(r)
  <2>1. /\ pc[r] # "done" /\ Cached(kid[r])
        /\ Finish(r, "accepted") \/ Finish(r, "unauthorized")
        /\ UNCHANGED endpointVars
    BY <1>1, RefuseIsUnauthorized DEF Hit, HitAgain, UseKey
  <2> QED
    BY <2>1, AcceptedIsTrusted, RefusedIsAllowed
<1>2. ASSUME RefuseEarly(r) \/ FetchFails(r) \/ MissAgain(r)
      PROVE  Trust!Decide(r)
  <2>1. pc[r] # "done" /\ Finish(r, "unauthorized") /\ UNCHANGED endpointVars
    BY <1>2, RefuseIsUnauthorized DEF RefuseEarly, FetchFails, MissAgain, InFlight
  <2> QED
    BY <2>1, RefusedIsAllowed
<1>3. ASSUME Miss(r) \/ Respond(r) \/ Install(r)
      PROVE  UNCHANGED Trust!trustVars
  BY <1>3 DEF Miss, Respond, Install, Trust!trustVars, Trust!endpointVars, endpointVars
<1> QED
  BY <1>1, <1>2, <1>3 DEF Step

\* Requests are let in on keys published at most CacheTTL + Timeout ago, and
\* refused with a 401 otherwise: the resolver implements KeyTrust.
THEOREM Implements == Spec => RefinesKeyTrust
<1>1. Init => Trust!TrustInit
  BY DEF Init, Trust!TrustInit, EndpointInit, Trust!EndpointInit
<1>2. IndInv /\ [Next]_vars => [Trust!TrustNext]_(Trust!trustVars)
  <2> SUFFICES ASSUME IndInv, [Next]_vars
               PROVE  [Trust!TrustNext]_(Trust!trustVars)
    OBVIOUS
  <2>1. CASE UNCHANGED vars
    BY <2>1 DEF vars, endpointVars, requestVars, Trust!trustVars, Trust!endpointVars
  <2>2. CASE Time \/ Rotation
    BY <2>2 DEF Time, Rotation, Tick, Trust!Tick, Rotate, Trust!Rotate,
                requestVars, Trust!TrustNext
  <2>3. CASE \E r \in Requests : Step(r)
    BY <2>3, StepRefines DEF Trust!TrustNext
  <2> QED
    BY <2>1, <2>2, <2>3 DEF Next
<1> QED
  BY <1>1, <1>2, Inductive, PTL DEF Spec, RefinesKeyTrust, Trust!TrustSpec
=============================================================================
