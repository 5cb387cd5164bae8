------------------------ MODULE TokenProvider_proofs ------------------------
(***************************************************************************)
(* The safety of TokenProvider for any calls, lifetimes, margin and        *)
(* timeout.                                                                *)
(***************************************************************************)
EXTENDS TokenProvider, FiniteSetTheorems, TLAPS

-----------------------------------------------------------------------------
(* The inductive invariant. *)

InRequest(c) == pc[c] \in {"requesting", "reading"}

\* The mutex is held over a request, and by nobody else.
MutexInv == \A c \in Callers : InRequest(c) <=> mu = c

\* A request is no older than its timeout, and a token it brought was issued
\* since it began, after the cached one.
RequestInv ==
  \A c \in Callers :
    /\ InRequest(c) => startedAt[c] <= now /\ now - startedAt[c] <= Timeout
    /\ pc[c] = "reading" =>
         /\ token < brought[c].token
         /\ brought[c].dies >= startedAt[c] + ParseExpiresIn(brought[c].report)

\* The cache gives a token at most a timeout more than its lifetime.
CacheInv == expiry - dies <= Timeout

\* The cached token only gets newer.
NewestInv == \A c \in Callers : newest[c] <= token

\* Nothing is returned before the end.
ReturnInv == \A c \in Callers : pc[c] # "done" => ret[c] = 0

IndInv == /\ TypeOK /\ MutexInv /\ RequestInv
          /\ CacheInv /\ NewestInv /\ ReturnInv

-----------------------------------------------------------------------------
(* It holds. *)

\* No token is cached at first.
LEMMA InitInd == Init => IndInv
<1> SUFFICES ASSUME Init PROVE IndInv
  OBVIOUS
<1>1. TypeOK
  BY ProviderAssumption DEF Init, TypeOK, NoAnswer, Reports
<1>2. MutexInv /\ RequestInv /\ CacheInv /\ NewestInv /\ ReturnInv
  BY ProviderAssumption
     DEF Init, MutexInv, RequestInv, CacheInv, NewestInv, ReturnInv, InRequest
<1> QED
  BY <1>1, <1>2 DEF IndInv

\* What ParseExpiresIn makes of a report is a lifetime.
LEMMA ParsedLifetime ==
  ASSUME NEW report \in Reports
  PROVE  ParseExpiresIn(report) \in Nat
BY ProviderAssumption DEF ParseExpiresIn, Reports

\* A call waits for the mutex or takes it.
LEMMA CallKeeps ==
  ASSUME IndInv, NEW c \in Callers, Call(c)
  PROVE  IndInv'
<1>1. TypeOK'
  BY DEF IndInv, TypeOK, Call, cacheVars, requestVars
<1>2. MutexInv' /\ RequestInv'
  BY DEF IndInv, TypeOK, MutexInv, RequestInv, InRequest, Call, cacheVars, requestVars
<1>3. CacheInv' /\ NewestInv' /\ ReturnInv'
  BY DEF IndInv, TypeOK, CacheInv, NewestInv, ReturnInv, Call, cacheVars
<1> QED
  BY <1>1, <1>2, <1>3 DEF IndInv

\* A cached token that lives is returned.
LEMMA HitKeeps ==
  ASSUME IndInv, NEW c \in Callers, Hit(c)
  PROVE  IndInv'
<1>1. TypeOK'
  BY DEF IndInv, TypeOK, Hit, Return, cacheVars, requestVars
<1>2. MutexInv' /\ RequestInv'
  BY DEF IndInv, TypeOK, MutexInv, RequestInv, InRequest, Hit, Return, cacheVars, requestVars
<1>3. CacheInv' /\ NewestInv' /\ ReturnInv'
  BY DEF IndInv, TypeOK, CacheInv, NewestInv, ReturnInv, Hit, Return, cacheVars
<1> QED
  BY <1>1, <1>2, <1>3 DEF IndInv

\* The holder of the mutex asks the endpoint.
LEMMA RequestKeeps ==
  ASSUME IndInv, NEW c \in Callers, Request(c)
  PROVE  IndInv'
<1>1. TypeOK'
  BY DEF IndInv, TypeOK, Request, cacheVars, historyVars
<1>2. MutexInv'
  BY ProviderAssumption DEF IndInv, TypeOK, MutexInv, InRequest, Request
<1>3. RequestInv'
  BY ProviderAssumption
     DEF IndInv, TypeOK, RequestInv, InRequest, Request, cacheVars
<1>4. CacheInv' /\ NewestInv' /\ ReturnInv'
  BY DEF IndInv, TypeOK, CacheInv, NewestInv, ReturnInv, Request, cacheVars, historyVars
<1> QED
  BY <1>1, <1>2, <1>3, <1>4 DEF IndInv

\* The endpoint issues a token, newer than those before it.
LEMMA IssueKeeps ==
  ASSUME IndInv, NEW c \in Callers, Issue(c)
  PROVE  IndInv'
<1>1. PICK report \in Reports :
        brought' = [brought EXCEPT ![c] =
          [token |-> issued + 1, report |-> report,
           dies |-> now + (IF report = Unusable THEN Default ELSE report)]]
  BY DEF Issue
<1> DEFINE b == [token |-> issued + 1, report |-> report,
                 dies |-> now + (IF report = Unusable THEN Default ELSE report)]
<1>2. b \in [token : 0..(issued + 1), report : Reports, dies : Nat]
  BY ProviderAssumption DEF IndInv, TypeOK, Reports
<1>3. TypeOK'
  <2>1. brought' \in [Callers -> [token : 0..issued', report : Reports,
                                  dies : Nat]]
    <3>1. issued' = issued + 1 /\ issued \in Nat
      BY DEF Issue, IndInv, TypeOK
    <3>2. \A d \in Callers :
            brought[d] \in [token : 0..issued', report : Reports,
                            dies : Nat]
      BY <3>1 DEF IndInv, TypeOK
    <3> QED
      BY <1>1, <1>2, <3>1, <3>2 DEF IndInv, TypeOK
  <2> QED
    BY <2>1 DEF IndInv, TypeOK, Issue, cacheVars, historyVars
<1>4. MutexInv'
  BY DEF IndInv, TypeOK, MutexInv, InRequest, Issue
<1>5. RequestInv'
  <2> SUFFICES ASSUME NEW d \in Callers
               PROVE  RequestInv!(d)'
    BY DEF RequestInv
  <2>1. CASE d = c
    <3>1. brought'[d] = b
      BY <1>1, <2>1 DEF IndInv, TypeOK
    <3>2. startedAt' = startedAt /\ now' = now /\ token' = token
      BY DEF Issue, cacheVars
    <3>3. startedAt[d] <= now /\ now - startedAt[d] <= Timeout
      BY <2>1 DEF IndInv, RequestInv, InRequest, Issue
    <3>4. b.dies >= startedAt[d] + ParseExpiresIn(b.report)
      BY <3>3, ProviderAssumption DEF IndInv, TypeOK, Reports, ParseExpiresIn
    <3>5. token < b.token
      BY DEF IndInv, TypeOK
    <3> HIDE DEF b
    <3> QED
      BY <3>1, <3>2, <3>3, <3>4, <3>5
  <2>2. CASE d # c
    BY <1>1, <2>2 DEF IndInv, TypeOK, RequestInv, InRequest, Issue, cacheVars
  <2> QED
    BY <2>1, <2>2
<1>6. CacheInv' /\ NewestInv' /\ ReturnInv'
  BY DEF IndInv, TypeOK, CacheInv, NewestInv, ReturnInv, Issue, cacheVars, historyVars
<1> QED
  BY <1>3, <1>4, <1>5, <1>6 DEF IndInv

\* While c holds the mutex no other call is in a request.
LEMMA Alone ==
  ASSUME IndInv, NEW c \in Callers, InRequest(c)
  PROVE  /\ mu = c /\ mu # NoCaller
         /\ \A d \in Callers \ {c} : ~InRequest(d)
BY ProviderAssumption DEF IndInv, MutexInv

\* The part of TypeOK that concerns neither the tokens nor the answers.
RestOK ==
  /\ now \in Nat
  /\ mu \in Callers \cup {NoCaller}
  /\ pc \in [Callers -> {"idle", "waiting", "requesting", "reading", "done"}]
  /\ issued \in Nat
  /\ startedAt \in [Callers -> Nat]
  /\ arrived \in [Callers -> Nat]
  /\ newest \in [Callers -> 0..issued]

\* The mutex goes with the return.
LEMMA ReleaseKeepsRest ==
  ASSUME IndInv, NEW c \in Callers, NEW t, Return(c, t), Release(c)
  PROVE  RestOK'
BY DEF IndInv, TypeOK, RestOK, Return, Release

\* The answer is cached with the lifetime it is given.
LEMMA StoreKeeps ==
  ASSUME IndInv, NEW c \in Callers, Store(c)
  PROVE  IndInv'
<1>1. brought[c] \in [token : 0..issued, report : Reports, dies : Nat]
  BY DEF IndInv, TypeOK
<1>2. ParseExpiresIn(brought[c].report) \in Nat
  BY <1>1, ParsedLifetime
<1>3. NoAnswer \in [token : 0..issued, report : Reports, dies : Nat]
  BY DEF NoAnswer, Reports, IndInv, TypeOK
<1>4. InRequest(c)
  BY DEF InRequest, Store
<1>5. RestOK'
  BY <1>4, ReleaseKeepsRest DEF Store
<1>6. TypeOK'
  <2>1. /\ token' \in 0..issued' /\ expiry' \in Nat /\ dies' \in Nat
        /\ ret' \in [Callers -> 0..issued']
    BY <1>1, <1>2 DEF IndInv, TypeOK, Store, Return, Release
  <2>2. brought' \in [Callers -> [token : 0..issued', report : Reports,
                                  dies : Nat]]
    BY <1>3 DEF IndInv, TypeOK, Store, Release
  <2> QED
    BY <1>5, <2>1, <2>2 DEF TypeOK, RestOK
<1>7. MutexInv' /\ RequestInv'
  BY <1>4, Alone, ProviderAssumption
     DEF IndInv, TypeOK, MutexInv, RequestInv, InRequest, Store, Return, Release
<1>8. CacheInv'
  BY <1>1, <1>2, <1>4, ProviderAssumption
     DEF IndInv, TypeOK, RequestInv, CacheInv, InRequest, Store, Release
<1>9. NewestInv' /\ ReturnInv'
  BY <1>1 DEF IndInv, TypeOK, RequestInv, NewestInv, ReturnInv, Store, Return
<1> QED
  BY <1>6, <1>7, <1>8, <1>9 DEF IndInv

\* An error releases the mutex and leaves the cache.
LEMMA RequestFailsKeeps ==
  ASSUME IndInv, NEW c \in Callers, RequestFails(c)
  PROVE  IndInv'
<1>1. NoAnswer \in [token : 0..issued, report : Reports, dies : Nat]
  BY DEF NoAnswer, Reports, IndInv, TypeOK
<1>2. InRequest(c)
  BY DEF InRequest, RequestFails
<1>3. TypeOK'
  <2>1. RestOK'
    BY <1>2, ReleaseKeepsRest DEF RequestFails
  <2>2. /\ token' \in 0..issued' /\ expiry' \in Nat /\ dies' \in Nat
        /\ ret' \in [Callers -> 0..issued']
    BY DEF IndInv, TypeOK, RequestFails, Return, Release, cacheVars
  <2>3. brought' \in [Callers -> [token : 0..issued', report : Reports,
                                  dies : Nat]]
    BY <1>1 DEF IndInv, TypeOK, RequestFails, Release
  <2> QED
    BY <2>1, <2>2, <2>3 DEF TypeOK, RestOK
<1>4. MutexInv' /\ RequestInv'
  BY <1>2, Alone, ProviderAssumption
     DEF IndInv, TypeOK, MutexInv, RequestInv, InRequest, RequestFails, Return,
         Release, cacheVars
<1>5. CacheInv' /\ NewestInv' /\ ReturnInv'
  BY DEF IndInv, TypeOK, CacheInv, NewestInv, ReturnInv, RequestFails, Return, Release, cacheVars
<1> QED
  BY <1>3, <1>4, <1>5 DEF IndInv

\* Time passes a request within its timeout only.
LEMMA TimeKeeps == IndInv /\ Time => IndInv'
<1> SUFFICES ASSUME IndInv, Time PROVE IndInv'
  OBVIOUS
<1>1. TypeOK'
  BY DEF IndInv, TypeOK, Time, cacheVars, requestVars, historyVars
<1>2. MutexInv' /\ CacheInv' /\ NewestInv' /\ ReturnInv'
  BY DEF IndInv, MutexInv, CacheInv, NewestInv, ReturnInv, InRequest, Time, cacheVars, historyVars
<1>3. RequestInv'
  BY ProviderAssumption
     DEF IndInv, TypeOK, RequestInv, InRequest, Time, cacheVars, requestVars
<1> QED
  BY <1>1, <1>2, <1>3 DEF IndInv

\* All steps keep the invariant,
LEMMA NextKeeps == IndInv /\ [Next]_vars => IndInv'
<1> SUFFICES ASSUME IndInv, [Next]_vars PROVE IndInv'
  OBVIOUS
<1>1. CASE UNCHANGED vars
  BY <1>1 DEF IndInv, TypeOK, MutexInv, RequestInv, CacheInv, NewestInv,
              ReturnInv, InRequest, vars, cacheVars, requestVars, historyVars
<1>2. CASE Next
  BY <1>2, CallKeeps, HitKeeps, RequestKeeps, IssueKeeps, StoreKeeps,
     RequestFailsKeeps, TimeKeeps DEF Next, Step
<1> QED
  BY <1>1, <1>2

\* so it holds of every run.
LEMMA Inductive == Spec => []IndInv
BY InitInd, NextKeeps, PTL DEF Spec

-----------------------------------------------------------------------------
(* What follows from it. *)

\* The cache, the mutex and the calls keep their types.
THEOREM TypeCorrect == Spec => []TypeOK
<1>1. IndInv => TypeOK
  BY DEF IndInv
<1> QED
  BY <1>1, Inductive, PTL

\* The step form of CachedTokenLives and NewestTokenStays.
LivesStep ==
  \A c \in Callers :
    (pc[c] = "waiting" /\ pc'[c] = "done") => dies - now > Margin - Timeout

NewestStep ==
  \A c \in Callers : (pc[c] # "done" /\ ret'[c] # 0) => newest[c] <= ret'[c]

\* A token returned from the cache outlives the call by Margin - Timeout.
THEOREM CachedTokensLive == Spec => CachedTokenLives
<1>1. IndInv /\ [Next]_vars => [LivesStep]_vars
  <2> SUFFICES ASSUME IndInv, Next, NEW c \in Callers,
                      pc[c] = "waiting", pc'[c] = "done"
               PROVE  dies - now > Margin - Timeout
    BY DEF LivesStep
  <2>1. Usable
    <3>1. PICK d \in Callers : Hit(d) \/ pc'[c] = pc[c] \/ (d = c /\ pc[c] # "waiting")
      BY DEF IndInv, TypeOK, Next, Step, Time, Call, Hit, Request, Issue, Store,
             RequestFails, Return
    <3> QED
      BY <3>1 DEF Hit
  <2> QED
    BY <2>1, ProviderAssumption DEF IndInv, TypeOK, CacheInv, Usable
<1> QED
  BY <1>1, Inductive, PTL DEF Spec, CachedTokenLives, LivesStep

\* No call returns a token older than the one cached when it was made.
THEOREM NewestStays == Spec => NewestTokenStays
<1>1. IndInv /\ [Next]_vars => [NewestStep]_vars
  <2> SUFFICES ASSUME IndInv, Next, NEW c \in Callers,
                      pc[c] # "done", ret'[c] # 0
               PROVE  newest[c] <= ret'[c]
    BY DEF NewestStep
  <2>1. newest[c] \in 0..issued /\ newest[c] <= token /\ ret[c] \in 0..issued
    BY DEF IndInv, TypeOK, NewestInv
  <2>2. pc[c] # "done" => ret[c] = 0
    BY DEF IndInv, ReturnInv
  <2>3. PICK d \in Callers : Hit(d) \/ Store(d) \/ RequestFails(d)
    BY <2>2 DEF Next, Step, Time, Call, Request, Issue, historyVars
  <2>4. CASE Hit(d)
    BY <2>1, <2>2, <2>4 DEF IndInv, TypeOK, Hit, Return
  <2>5. CASE Store(d)
    BY <2>1, <2>2, <2>5 DEF IndInv, TypeOK, RequestInv, Store, Return
  <2>6. CASE RequestFails(d)
    BY <2>1, <2>2, <2>6 DEF IndInv, TypeOK, RequestFails, Return
  <2> QED
    BY <2>3, <2>4, <2>5, <2>6
<1> QED
  BY <1>1, Inductive, PTL DEF Spec, NewestTokenStays, NewestStep

-----------------------------------------------------------------------------
(* How long a call waits.  The clock stands still while the mutex is free   *)
(* and calls wait, so all the time since a call was made was spent in       *)
(* requests, a timeout each at most, and the caller of each is done.        *)

DoneCalls == {c \in Callers : pc[c] = "done"}
Spent == Cardinality(DoneCalls) * Timeout
Active(c) == pc[c] \in {"waiting", "requesting", "reading"}

WaitInv ==
  \A c \in Callers : Active(c) =>
    /\ arrived[c] <= now
    /\ mu = NoCaller => now - arrived[c] <= Spent
    /\ mu # NoCaller => startedAt[mu] - arrived[c] <= Spent

\* A product grows with its factor.
LEMMA TimesGrows ==
  ASSUME NEW T \in Nat, NEW m \in Nat, NEW n \in Nat, m <= n
  PROVE  m * T \in Nat /\ m * T <= n * T
<1>1. PICK k \in Nat : n = m + k
  <2>1. n - m \in Nat /\ n = m + (n - m)
    OBVIOUS
  <2> QED
    BY <2>1
<1>2. (m + k) * T = m * T + k * T /\ k * T \in Nat /\ m * T \in Nat
  OBVIOUS
<1> QED
  BY <1>1, <1>2

\* What has been waited, and for how many, are numbers.
LEMMA SpentIsNat == Spent \in Nat /\ Cardinality(DoneCalls) \in Nat
<1>1. IsFiniteSet(DoneCalls)
  BY FS_Subset, ProviderAssumption DEF DoneCalls
<1>2. Cardinality(DoneCalls) \in Nat
  BY <1>1, FS_CardinalityType
<1> QED
  BY <1>2, TimesGrows, ProviderAssumption DEF Spent

\* A call that ends adds a timeout to what may be spent.
LEMMA EndAddsTimeout ==
  ASSUME IndInv, NEW c \in Callers, pc[c] # "done",
         pc' = [pc EXCEPT ![c] = "done"]
  PROVE  Spent' = Spent + Timeout
<1>1. DoneCalls' = DoneCalls \cup {c} /\ c \notin DoneCalls
  BY DEF DoneCalls, IndInv, TypeOK
<1>2. IsFiniteSet(DoneCalls)
  BY FS_Subset, ProviderAssumption DEF DoneCalls
<1>3. Cardinality(DoneCalls') = Cardinality(DoneCalls) + 1
  BY <1>1, <1>2, FS_AddElement
<1>4. \A n \in Nat : (n + 1) * Timeout = n * Timeout + Timeout
  BY ProviderAssumption
<1> QED
  BY <1>3, <1>4, SpentIsNat DEF Spent

\* A step that ends no call leaves it as it is.
LEMMA SpentStays ==
  ASSUME IndInv, NEW c \in Callers, pc[c] # "done", NEW s, s # "done",
         pc' = [pc EXCEPT ![c] = s]
  PROVE  Spent' = Spent
<1>1. DoneCalls' = DoneCalls
  BY DEF DoneCalls, IndInv, TypeOK
<1> QED
  BY <1>1 DEF Spent

\* Who comes in finds a holder with a timeout at most,
LEMMA WaitCall ==
  ASSUME IndInv, WaitInv, NEW c \in Callers, Call(c)
  PROVE  WaitInv'
<1>1. Spent' = Spent
  BY SpentStays DEF Call
<1>2. mu # NoCaller => startedAt[mu] <= now /\ startedAt[mu] \in Nat
  BY ProviderAssumption DEF IndInv, TypeOK, MutexInv, RequestInv
<1> QED
  BY <1>1, <1>2, SpentIsNat
     DEF IndInv, TypeOK, WaitInv, Active, Call, cacheVars, requestVars

\* a hit ends a call that waited for others only,
LEMMA WaitHit ==
  ASSUME IndInv, WaitInv, NEW c \in Callers, Hit(c)
  PROVE  WaitInv'
<1>1. Spent' = Spent + Timeout
  BY EndAddsTimeout DEF Hit, Return
<1> QED
  BY <1>1, SpentIsNat, ProviderAssumption
     DEF IndInv, TypeOK, WaitInv, Active, Hit, Return, cacheVars, requestVars

\* a request costs a timeout of its own,
LEMMA WaitRequest ==
  ASSUME IndInv, WaitInv, NEW c \in Callers, Request(c)
  PROVE  WaitInv'
<1>1. Spent' = Spent
  BY SpentStays DEF Request
<1> QED
  BY <1>1, SpentIsNat, ProviderAssumption
     DEF IndInv, TypeOK, WaitInv, Active, Request, cacheVars, historyVars

\* its answer none,
LEMMA WaitIssue ==
  ASSUME IndInv, WaitInv, NEW c \in Callers, Issue(c)
  PROVE  WaitInv'
<1>1. Spent' = Spent
  BY SpentStays DEF Issue
<1> QED
  BY <1>1, SpentIsNat DEF IndInv, TypeOK, WaitInv, Active, Issue, cacheVars, historyVars

\* The request of c ends: it took a timeout at most, and c is done.
LEMMA WaitEnd ==
  ASSUME IndInv, WaitInv, NEW c \in Callers, InRequest(c),
         NEW t, Return(c, t), Release(c)
  PROVE  WaitInv'
<1>1. Spent' = Spent + Timeout
  BY EndAddsTimeout DEF InRequest, Return
<1>2. mu = c /\ mu # NoCaller /\ now - startedAt[c] <= Timeout
  BY Alone DEF IndInv, RequestInv
<1> SUFFICES ASSUME NEW d \in Callers, Active(d)'
             PROVE  arrived[d]' <= now' /\ (now - arrived[d] <= Spent)'
  BY <1>2, ProviderAssumption DEF WaitInv, Release
<1>3. d # c /\ Active(d) /\ arrived'[d] = arrived[d] /\ now' = now
  BY DEF Active, Return, Release, IndInv, TypeOK
<1>4. arrived[d] <= now /\ startedAt[c] - arrived[d] <= Spent
  BY <1>2, <1>3 DEF WaitInv
<1> QED
  BY <1>1, <1>2, <1>3, <1>4, SpentIsNat, ProviderAssumption DEF IndInv, TypeOK

\* and time passes on the holder's account.
LEMMA WaitTime ==
  ASSUME IndInv, WaitInv, Time
  PROVE  WaitInv'
<1>1. Spent' = Spent
  BY DEF Time, Spent, DoneCalls
<1>2. mu = NoCaller => \A c \in Callers : ~Active(c)
  BY ProviderAssumption DEF Time, Waiting, Active, IndInv, MutexInv, InRequest
<1> QED
  BY <1>1, <1>2, SpentIsNat
     DEF IndInv, TypeOK, WaitInv, Active, Time, requestVars, historyVars

\* The bound holds of every run.
LEMMA WaitInductive == Spec => []WaitInv
<1>1. Init => WaitInv
  BY DEF Init, WaitInv, Active
<1>2. IndInv /\ WaitInv /\ [Next]_vars => WaitInv'
  <2> SUFFICES ASSUME IndInv, WaitInv, [Next]_vars PROVE WaitInv'
    OBVIOUS
  <2>1. CASE UNCHANGED vars
    BY <2>1 DEF WaitInv, Active, Spent, DoneCalls, vars, requestVars, historyVars
  <2>2. CASE Time
    BY <2>2, WaitTime
  <2>3. CASE \E c \in Callers : Call(c) \/ Hit(c) \/ Request(c) \/ Issue(c)
    BY <2>3, WaitCall, WaitHit, WaitRequest, WaitIssue
  <2>4. CASE \E c \in Callers : Store(c) \/ RequestFails(c)
    BY <2>4, WaitEnd DEF Store, RequestFails, InRequest
  <2> QED
    BY <2>1, <2>2, <2>3, <2>4 DEF Next, Step
<1> QED
  BY <1>1, <1>2, Inductive, PTL DEF Spec

\* A call waits a timeout for each call at most, its own request included.
THEOREM WaitsAreBounded == Spec => []WaitIsBounded
<1>1. IndInv /\ WaitInv => WaitIsBounded
  <2> SUFFICES ASSUME IndInv, WaitInv, NEW c \in Callers, Active(c)
               PROVE  now - arrived[c] <= Cardinality(Callers) * Timeout
    BY DEF WaitIsBounded, Active
  <2>1. Cardinality(DoneCalls) + 1 <= Cardinality(Callers)
        /\ Cardinality(Callers) \in Nat
    <3>1. DoneCalls \subseteq Callers \ {c} /\ DoneCalls \subseteq Callers
      BY DEF DoneCalls, Active
    <3>2. IsFiniteSet(Callers) /\ IsFiniteSet(Callers \ {c})
      BY FS_RemoveElement, ProviderAssumption
    <3>3. Cardinality(Callers \ {c}) = Cardinality(Callers) - 1
      BY FS_RemoveElement, ProviderAssumption
    <3>4. Cardinality(DoneCalls) <= Cardinality(Callers \ {c})
      BY <3>1, <3>2, FS_Subset
    <3> QED
      BY <3>2, <3>3, <3>4, FS_CardinalityType, SpentIsNat
  <2>2. Spent + Timeout <= Cardinality(Callers) * Timeout
        /\ Cardinality(Callers) * Timeout \in Nat
    <3>1. (Cardinality(DoneCalls) + 1) * Timeout = Spent + Timeout
      BY SpentIsNat, ProviderAssumption DEF Spent
    <3> QED
      BY <2>1, <3>1, SpentIsNat, TimesGrows, ProviderAssumption
  <2>3. now - arrived[c] <= Spent + Timeout
    <3>1. CASE mu = NoCaller
      BY <3>1, SpentIsNat, ProviderAssumption DEF IndInv, TypeOK, WaitInv
    <3>2. CASE mu # NoCaller
      <4>1. mu \in Callers /\ now - startedAt[mu] <= Timeout
        BY <3>2 DEF IndInv, TypeOK, MutexInv, RequestInv
      <4> QED
        BY <3>2, <4>1, SpentIsNat, ProviderAssumption DEF IndInv, TypeOK, WaitInv
    <3> QED
      BY <3>1, <3>2
  <2> QED
    BY <2>2, <2>3, SpentIsNat, ProviderAssumption DEF IndInv, TypeOK
<1> QED
  BY <1>1, Inductive, WaitInductive, PTL
=============================================================================
