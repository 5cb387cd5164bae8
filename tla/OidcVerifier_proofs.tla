------------------------- MODULE OidcVerifier_proofs -------------------------
(***************************************************************************)
(* The safety of OidcVerifier for any keys, calls, TTL, timeout and pause, *)
(* and its refinement of KeyTrust.                                         *)
(***************************************************************************)
EXTENDS OidcVerifier, TLAPS

-----------------------------------------------------------------------------
(* The inductive invariant. *)

\* The history of publication never runs ahead of the clock, and is up to
\* date for the keys that are published.
ClockInv ==
  \A k \in Kids : /\ lastPublished[k] <= now
                  /\ k \in published => lastPublished[k] = now

\* A fetch is as old as its timeout allows, and the set it brought was
\* published since it began.
FetchInv ==
  \A r \in Requests :
    /\ InFlight(r) => since[r] <= now /\ now - since[r] <= Timeout
    /\ pc[r] = "reading" =>
         \A k \in answer[r] : lastPublished[k] >= since[r]

\* The cached set was published at most a fetch before it was installed.
CacheInv ==
  \A k \in keys : lastPublished[k] >= fetchedAt - Timeout

\* What a call looks at again was installed by it or later, a pause ago at
\* most.
AgainInv ==
  \A r \in Requests :
    pc[r] = "again" => /\ since[r] <= fetchedAt /\ since[r] <= now
                       /\ now - since[r] <= Pause

\* Who is let in passed the two checks of the algorithm.
AlgorithmInv ==
  \A r \in Requests :
    /\ pc[r] \notin {"lookup", "done"} => Admissible(r)
    /\ status[r] = "accepted" =>
         Admissible(r) /\ KeyForAlgorithm(kid[r], alg[r])

StatusInv == \A r \in Requests : pc[r] # "done" => status[r] = "open"

IndInv == /\ TypeOK /\ ClockInv /\ FetchInv /\ CacheInv
          /\ AgainInv /\ StatusInv /\ AlgorithmInv

-----------------------------------------------------------------------------
(* It holds. *)

\* The cache is empty at first.
LEMMA InitInd == Init => IndInv
<1>1. CacheTTL \in Nat /\ Timeout \in Nat /\ Pause \in Nat
  BY VerifierAssumption
<1> QED
  BY <1>1 DEF Init, EndpointInit, IndInv, TypeOK, ClockInv, FetchInv, CacheInv,
              AgainInv, StatusInv, AlgorithmInv, InFlight, LongAgo

\* The verdicts, and what being let in takes.
Verdict(r) ==
  \/ /\ Admissible(r) /\ KeyForAlgorithm(kid[r], alg[r])
     /\ Finish(r, "accepted")
  \/ Finish(r, "unauthorized")

\* A call that is given its verdict disturbs nothing else.
LEMMA VerdictKeeps ==
  ASSUME IndInv, NEW r \in Requests, Verdict(r),
         UNCHANGED <<endpointVars, cacheVars>>
  PROVE  IndInv'
<1>1. PICK verdict \in {"accepted", "unauthorized"} : Finish(r, verdict)
  BY DEF Verdict
<1>2. TypeOK'
  BY <1>1 DEF IndInv, TypeOK, Finish, endpointVars, cacheVars
<1>3. ClockInv' /\ CacheInv'
  BY DEF IndInv, ClockInv, CacheInv, endpointVars, cacheVars
<1>4. FetchInv' /\ AgainInv'
  BY <1>1 DEF IndInv, TypeOK, FetchInv, AgainInv, Finish, InFlight,
              endpointVars, cacheVars
<1>5. StatusInv'
  BY <1>1 DEF IndInv, TypeOK, StatusInv, Finish
<1>6. AlgorithmInv'
  BY DEF IndInv, TypeOK, AlgorithmInv, Admissible, KeyForAlgorithm,
         Verdict, Finish
<1> QED
  BY <1>2, <1>3, <1>4, <1>5, <1>6 DEF IndInv

\* Which steps give a verdict.
LEMMA StepVerdict ==
  ASSUME IndInv, NEW r \in Requests,
         \/ RefuseEarly(r) \/ Hit(r) \/ FetchFails(r)
         \/ HitAgain(r) \/ MissAgain(r)
  PROVE  Verdict(r) /\ pc[r] # "done" /\ UNCHANGED <<endpointVars, cacheVars>>
<1>1. pc[r] = "again" => Admissible(r)
  BY DEF IndInv, AlgorithmInv
<1> QED
  BY <1>1 DEF Verdict, RefuseEarly, Hit, FetchFails, HitAgain, MissAgain,
              UseKey, Refuse, InFlight

\* The steps of a call.
LEMMA StepKeeps ==
  ASSUME IndInv, NEW r \in Requests, Step(r)
  PROVE  IndInv'
<1>1. ASSUME \/ RefuseEarly(r) \/ Hit(r) \/ FetchFails(r)
             \/ HitAgain(r) \/ MissAgain(r)
      PROVE  IndInv'
  BY <1>1, StepVerdict, VerdictKeeps
<1>2. ASSUME Miss(r)
      PROVE  IndInv'
  <2>1. TypeOK'
    BY <1>2 DEF IndInv, TypeOK, Miss, endpointVars, cacheVars
  <2>2. ClockInv' /\ CacheInv'
    BY <1>2 DEF IndInv, ClockInv, CacheInv, Miss, endpointVars, cacheVars
  <2>3. FetchInv' /\ AgainInv'
    BY <1>2, VerifierAssumption
       DEF IndInv, TypeOK, FetchInv, AgainInv, Miss, InFlight,
           endpointVars, cacheVars
  <2>4. StatusInv' /\ AlgorithmInv'
    BY <1>2 DEF IndInv, TypeOK, StatusInv, AlgorithmInv, Admissible, Miss
  <2> QED
    BY <2>1, <2>2, <2>3, <2>4 DEF IndInv
<1>3. ASSUME Respond(r)
      PROVE  IndInv'
  <2>1. TypeOK'
    BY <1>3 DEF IndInv, TypeOK, Respond, endpointVars, cacheVars
  <2>2. ClockInv' /\ CacheInv'
    BY <1>3 DEF IndInv, ClockInv, CacheInv, Respond, endpointVars, cacheVars
  <2>3. FetchInv' /\ AgainInv'
    BY <1>3 DEF IndInv, TypeOK, ClockInv, FetchInv, AgainInv, Respond, InFlight,
                endpointVars, cacheVars
  <2>4. StatusInv' /\ AlgorithmInv'
    BY <1>3 DEF IndInv, TypeOK, StatusInv, AlgorithmInv, Admissible, Respond
  <2> QED
    BY <2>1, <2>2, <2>3, <2>4 DEF IndInv
<1>4. ASSUME Install(r)
      PROVE  IndInv'
  <2>1. TypeOK'
    BY <1>4 DEF IndInv, TypeOK, Install, endpointVars
  <2>2. ClockInv' /\ FetchInv'
    BY <1>4 DEF IndInv, TypeOK, ClockInv, FetchInv, Install, InFlight, endpointVars
  <2>3. CacheInv'
    <3>1. \A k \in answer[r] : lastPublished[k] >= now - Timeout
      BY <1>4, VerifierAssumption DEF IndInv, TypeOK, FetchInv, Install, InFlight
    <3> QED
      BY <1>4, <3>1 DEF CacheInv, Install, endpointVars
  <2>4. AgainInv'
    BY <1>4, VerifierAssumption DEF IndInv, TypeOK, AgainInv, Install, endpointVars
  <2>5. StatusInv' /\ AlgorithmInv'
    BY <1>4 DEF IndInv, TypeOK, StatusInv, AlgorithmInv, Admissible, Install
  <2> QED
    BY <2>1, <2>2, <2>3, <2>4, <2>5 DEF IndInv
<1> QED
  BY <1>1, <1>2, <1>3, <1>4 DEF Step

\* The clock and the issuer only move publication forward.
LEMMA EnvironmentKeeps ==
  ASSUME IndInv, Time \/ Rotation
  PROVE  IndInv'
<1>1. UNCHANGED <<pc, kid, alg, since, answer, status, keys, fetchedAt>>
  BY DEF Time, Rotation, callVars, cacheVars
<1>2. /\ TypeOK' /\ ClockInv'
      /\ \A k \in Kids : lastPublished'[k] >= lastPublished[k]
  <2>1. CASE Time
    BY <1>1, <2>1 DEF IndInv, TypeOK, ClockInv, Time, Tick
  <2>2. CASE Rotation
    BY <1>1, <2>2 DEF IndInv, TypeOK, ClockInv, Rotation, Rotate
  <2> QED
    BY <2>1, <2>2
<1>3. FetchInv' /\ AgainInv'
  <2>1. CASE Time
    BY <1>1, <1>2, <2>1, VerifierAssumption
       DEF IndInv, TypeOK, FetchInv, AgainInv, Time, Tick, InFlight
  <2>2. CASE Rotation
    BY <1>1, <1>2, <2>2
       DEF IndInv, TypeOK, FetchInv, AgainInv, Rotation, Rotate, InFlight
  <2> QED
    BY <2>1, <2>2
<1>4. CacheInv'
  BY <1>1, <1>2, VerifierAssumption DEF IndInv, TypeOK, CacheInv
<1>5. StatusInv' /\ AlgorithmInv'
  BY <1>1 DEF IndInv, StatusInv, AlgorithmInv, Admissible, KeyForAlgorithm
<1> QED
  BY <1>2, <1>3, <1>4, <1>5 DEF IndInv

\* Requests, time and the issuer keep the invariant.
LEMMA NextKeeps == IndInv /\ [Next]_vars => IndInv'
<1> SUFFICES ASSUME IndInv, [Next]_vars PROVE IndInv'
  OBVIOUS
<1>1. CASE UNCHANGED vars
  BY <1>1 DEF IndInv, TypeOK, ClockInv, FetchInv, CacheInv, AgainInv,
              StatusInv, AlgorithmInv, Admissible, KeyForAlgorithm, InFlight,
              vars, endpointVars, callVars, cacheVars
<1>2. CASE Next
  BY <1>2, StepKeeps, EnvironmentKeeps DEF Next
<1> QED
  BY <1>1, <1>2

\* So it holds of every run.
LEMMA Inductive == Spec => []IndInv
BY InitInd, NextKeeps, PTL DEF Spec

-----------------------------------------------------------------------------
(* What follows from it. *)

\* The state of the cache and of the calls keeps its types.
THEOREM TypeCorrect == Spec => []TypeOK
<1>1. IndInv => TypeOK
  BY DEF IndInv
<1> QED
  BY <1>1, Inductive, PTL

\* A key served at either look was published at most a window ago.
LEMMA ServedInWindow ==
  ASSUME IndInv, NEW r \in Requests, Served(r)
  PROVE  kid[r] \in Kids /\ now - lastPublished[kid[r]] <= Window
<1>1. kid[r] \in keys /\ kid[r] \in Kids
  BY DEF IndInv, TypeOK, Served
<1>2. /\ lastPublished[kid[r]] \in Int /\ now \in Int /\ fetchedAt \in Int
      /\ lastPublished[kid[r]] >= fetchedAt - Timeout
  BY <1>1 DEF IndInv, TypeOK, CacheInv
<1>3. now - fetchedAt <= CacheTTL - 1 \/ now - fetchedAt <= Pause
  <2>1. CASE pc[r] = "lookup"
    BY <2>1, <1>2, VerifierAssumption DEF Served, Fresh
  <2>2. CASE pc[r] = "again"
    BY <2>2, <1>2, VerifierAssumption DEF IndInv, TypeOK, AgainInv
  <2> QED
    BY <2>1, <2>2 DEF Served
<1> QED
  BY <1>1, <1>2, <1>3, VerifierAssumption DEF Window, Larger

\* No call is served a key published longer ago than the window, not even at
\* the look that does not check the age of the set.
THEOREM CacheIsRecent == Spec => []ServedKeysAreRecent
<1>1. IndInv => ServedKeysAreRecent
  BY ServedInWindow DEF ServedKeysAreRecent
<1> QED
  BY <1>1, Inductive, PTL

\* A key is used with an allowed algorithm it was made for, and no other.
THEOREM NoConfusion == Spec => []NoAlgorithmConfusion
<1>1. IndInv => NoAlgorithmConfusion
  BY DEF IndInv, AlgorithmInv, Admissible, KeyForAlgorithm, NoAlgorithmConfusion
<1> QED
  BY <1>1, Inductive, PTL

-----------------------------------------------------------------------------
(* The refinement. *)

\* Every step of a call decides it or is invisible.
LEMMA StepRefines ==
  ASSUME IndInv, NEW r \in Requests, Step(r)
  PROVE  Trust!Decide(r) \/ UNCHANGED Trust!trustVars
<1>1. pc[r] # "done" => status[r] = "open"
  BY DEF IndInv, StatusInv
<1>2. ASSUME Hit(r) \/ HitAgain(r)
      PROVE  Trust!Decide(r)
  <2>1. Served(r)
    BY <1>2 DEF Served, Hit, HitAgain
  <2>2. Trust!Trusted(r)
    BY <2>1, ServedInWindow DEF Trust!Trusted
  <2> QED
    BY <1>1, <1>2, <2>2 DEF Hit, HitAgain, UseKey, Refuse, Finish, Trust!Decide,
                            Trust!endpointVars, endpointVars
<1>3. ASSUME RefuseEarly(r) \/ FetchFails(r) \/ MissAgain(r)
      PROVE  Trust!Decide(r)
  BY <1>1, <1>3 DEF RefuseEarly, FetchFails, MissAgain, InFlight, Refuse, Finish,
                    Trust!Decide, Trust!endpointVars, endpointVars
<1>4. ASSUME Miss(r) \/ Respond(r) \/ Install(r)
      PROVE  UNCHANGED Trust!trustVars
  BY <1>4 DEF Miss, Respond, Install, Trust!trustVars, Trust!endpointVars, endpointVars
<1> QED
  BY <1>2, <1>3, <1>4 DEF Step

\* Calls are let in on keys published at most a window ago and are refused as
\* Unauthenticated otherwise: the verifier implements KeyTrust.
THEOREM Implements == Spec => RefinesKeyTrust
<1>1. Init => Trust!TrustInit
  BY DEF Init, Trust!TrustInit, EndpointInit, Trust!EndpointInit
<1>2. IndInv /\ [Next]_vars => [Trust!TrustNext]_(Trust!trustVars)
  <2> SUFFICES ASSUME IndInv, [Next]_vars
               PROVE  [Trust!TrustNext]_(Trust!trustVars)
    OBVIOUS
  <2>1. CASE UNCHANGED vars
    BY <2>1 DEF vars, endpointVars, callVars, Trust!trustVars, Trust!endpointVars
  <2>2. CASE Time \/ Rotation
    BY <2>2 DEF Time, Rotation, Tick, Trust!Tick, Rotate, Trust!Rotate,
                callVars, Trust!TrustNext
  <2>3. CASE \E r \in Requests : Step(r)
    BY <2>3, StepRefines DEF Trust!TrustNext
  <2> QED
    BY <2>1, <2>2, <2>3 DEF Next
<1> QED
  BY <1>1, <1>2, Inductive, PTL DEF Spec, RefinesKeyTrust, Trust!TrustSpec
=============================================================================
