--------------------------- MODULE TokenProvider ---------------------------
(***************************************************************************)
(* pkg/oidc/token_provider.go: concurrent calls of Token that share one    *)
(* cached service token under a mutex.  The mutex is held over the request *)
(* to the token endpoint, so a call waits behind the requests of others    *)
(* whatever its own context says.                                          *)
(*                                                                         *)
(* The endpoint is outside the code: it issues tokens one after another,   *)
(* and reports a lifetime or nothing usable.  Tokens are numbered in the   *)
(* order they are issued; 0 is no token.                                   *)
(***************************************************************************)
EXTENDS Integers, FiniteSets

CONSTANTS
  Callers,     \* calls of Token
  NoCaller,    \* the mutex is free
  Lifetimes,   \* the lifetimes the endpoint reports
  Unusable,    \* a report that is missing, not positive or no number
  Default,     \* the lifetime assumed then
  Margin,      \* how long before its expiry a token is given up
  Timeout,     \* the HTTP client's limit for one request
  MaxTime      \* bound: the clock stops here

ASSUME ProviderAssumption ==
  /\ IsFiniteSet(Callers) /\ NoCaller \notin Callers
  /\ Lifetimes \subseteq Nat \ {0} /\ Unusable \notin Nat
  /\ Default \in Nat \ {0}
  /\ Margin \in Nat /\ Timeout \in Nat \ {0}
  /\ MaxTime \in Nat

VARIABLES
  now,         \* the clock
  mu,          \* who holds the mutex
  pc,          \* where a call is
  token,       \* the cached token
  expiry,      \* until when the cache takes it to live
  issued,      \* the endpoint's last token
  dies,        \* when the cached token expires: after the lifetime reported,
               \* or after the default where none is
  brought,     \* the answer to a call's request, and when its token expires
  startedAt,   \* when a call began its request
  ret,         \* the token a call returned, 0 for an error
  arrived,     \* history: when a call was made
  newest       \* history: the token cached when it was made

cacheVars   == <<token, expiry, dies>>
requestVars == <<issued, brought, startedAt>>
historyVars == <<arrived, newest>>
vars == <<now, mu, pc, cacheVars, requestVars, ret, historyVars>>

Reports == Lifetimes \cup {Unusable}
NoAnswer == [token |-> 0, report |-> Unusable, dies |-> 0]

TypeOK ==
  /\ now \in Nat
  /\ mu \in Callers \cup {NoCaller}
  /\ pc \in [Callers -> {"idle", "waiting", "requesting", "reading", "done"}]
  /\ token \in 0..issued
  /\ expiry \in Nat
  /\ issued \in Nat
  /\ dies \in Nat
  /\ brought \in [Callers -> [token : 0..issued, report : Reports,
                              dies : Nat]]
  /\ startedAt \in [Callers -> Nat]
  /\ ret \in [Callers -> 0..issued]
  /\ arrived \in [Callers -> Nat]
  /\ newest \in [Callers -> 0..issued]

Init ==
  /\ now = 0
  /\ mu = NoCaller
  /\ pc = [c \in Callers |-> "idle"]
  /\ token = 0 /\ expiry = 0 /\ dies = 0
  /\ issued = 0
  /\ brought = [c \in Callers |-> NoAnswer]
  /\ startedAt = [c \in Callers |-> 0]
  /\ ret = [c \in Callers |-> 0]
  /\ arrived = [c \in Callers |-> 0]
  /\ newest = [c \in Callers |-> 0]

-----------------------------------------------------------------------------

\* Mutant of ParseExpiresIn: a lifetime is taken to start a unit later.
ParseExpiresInLate(report) ==
  IF report = Unusable THEN Default ELSE report + 1

ParseExpiresIn(report) == IF report = Unusable THEN Default ELSE report

Waiting == {c \in Callers : pc[c] = "waiting"}

Call(c) ==
  /\ pc[c] = "idle"
  /\ pc' = [pc EXCEPT ![c] = "waiting"]
  /\ arrived' = [arrived EXCEPT ![c] = now]
  /\ newest' = [newest EXCEPT ![c] = token]
  /\ UNCHANGED <<now, mu, cacheVars, requestVars, ret>>

Usable == token # 0 /\ expiry - now > Margin

\* What a call returns, a token or 0; its history is forgotten.
Return(c, t) ==
  /\ pc' = [pc EXCEPT ![c] = "done"]
  /\ ret' = [ret EXCEPT ![c] = t]
  /\ arrived' = [arrived EXCEPT ![c] = 0]
  /\ newest' = [newest EXCEPT ![c] = 0]

\* The cached token is returned: the mutex is taken and released.
Hit(c) ==
  /\ pc[c] = "waiting"
  /\ mu = NoCaller
  /\ Usable
  /\ Return(c, token)
  /\ UNCHANGED <<now, mu, cacheVars, requestVars>>

\* Mutant of Request: the mutex is not held over the request.
RequestUnlocked(c) ==
  /\ pc[c] = "waiting"
  /\ mu = NoCaller
  /\ ~Usable
  /\ pc' = [pc EXCEPT ![c] = "requesting"]
  /\ startedAt' = [startedAt EXCEPT ![c] = now]
  /\ UNCHANGED <<now, mu, cacheVars, issued, brought, ret, historyVars>>

\* Nothing usable is cached: the call asks the endpoint and keeps the mutex.
Request(c) ==
  /\ pc[c] = "waiting"
  /\ mu = NoCaller
  /\ ~Usable
  /\ mu' = c
  /\ pc' = [pc EXCEPT ![c] = "requesting"]
  /\ startedAt' = [startedAt EXCEPT ![c] = now]
  /\ UNCHANGED <<now, cacheVars, issued, brought, ret, historyVars>>

\* The endpoint issues a token: its life begins now, not when it is read.
Issue(c) ==
  /\ pc[c] = "requesting"
  /\ pc' = [pc EXCEPT ![c] = "reading"]
  /\ issued' = issued + 1
  /\ \E report \in Reports :
       brought' = [brought EXCEPT ![c] =
         [token |-> issued + 1, report |-> report,
          dies |-> now + (IF report = Unusable THEN Default ELSE report)]]
  /\ UNCHANGED <<now, mu, cacheVars, startedAt, ret, historyVars>>

\* A call with the mutex releases it.
Release(c) ==
  /\ mu' = NoCaller
  /\ brought' = [brought EXCEPT ![c] = NoAnswer]
  /\ startedAt' = [startedAt EXCEPT ![c] = 0]
  /\ UNCHANGED <<now, issued>>

\* The answer is read: the token is cached, from now for its lifetime.
Store(c) ==
  /\ pc[c] = "reading"
  /\ token' = brought[c].token
  /\ expiry' = now + ParseExpiresIn(brought[c].report)
  /\ dies' = brought[c].dies
  /\ Return(c, brought[c].token)
  /\ Release(c)

\* Mutant of RequestFails: the mutex is not released.
RequestFailsLocked(c) ==
  /\ pc[c] \in {"requesting", "reading"}
  /\ pc' = [pc EXCEPT ![c] = "done"]
  /\ UNCHANGED <<now, mu, cacheVars, requestVars, ret, historyVars>>

\* No answer in time, a status other than 200, a body that cannot be decoded
\* or has no token, or a context that ended.  The cached token stays.
RequestFails(c) ==
  /\ pc[c] \in {"requesting", "reading"}
  /\ Return(c, 0)
  /\ Release(c)
  /\ UNCHANGED cacheVars

-----------------------------------------------------------------------------

\* A request ends within the timeout, and a mutex that is free does not stay
\* free while calls wait for it.
Time ==
  /\ now < MaxTime
  /\ \A c \in Callers :
       pc[c] \in {"requesting", "reading"} => now + 1 - startedAt[c] <= Timeout
  /\ mu = NoCaller => Waiting = {}
  /\ now' = now + 1
  /\ UNCHANGED <<mu, pc, cacheVars, requestVars, ret, historyVars>>

Step(c) == Hit(c) \/ Request(c) \/ Issue(c) \/ Store(c) \/ RequestFails(c)

Next == Time \/ \E c \in Callers : Call(c) \/ Step(c)

Spec == Init /\ [][Next]_vars

\* A request ends.  Who waits gets the mutex at last: it can be passed over
\* only while it is handed to others, and the runtime queues those who wait
\* longer than a millisecond.
Fairness == \A c \in Callers :
  /\ WF_vars(Issue(c) \/ Store(c) \/ RequestFails(c))
  /\ SF_vars(Hit(c) \/ Request(c))

FairSpec == Spec /\ Fairness

-----------------------------------------------------------------------------
(* Properties. *)

\* A token returned from the cache still lives for Margin - Timeout at least,
\* although the provider counts its lifetime from the time the answer is read;
\* one whose expires_in is missing, zero or no number is given up as well.
CachedTokenLives ==
  [][\A c \in Callers :
       (pc[c] = "waiting" /\ pc'[c] = "done") => dies - now > Margin - Timeout]_vars

\* No call returns a token older than the one cached when it was made: of the
\* tokens that two calls requested the later one stays.
NewestTokenStays ==
  [][\A c \in Callers :
       (pc[c] # "done" /\ ret'[c] # 0) => newest[c] <= ret'[c]]_vars

\* A call waits for the requests of the other calls and its own, a timeout
\* each, and no longer; its own context does not shorten that.
WaitIsBounded ==
  \A c \in Callers :
    pc[c] \in {"waiting", "requesting", "reading"}
      => now - arrived[c] <= Cardinality(Callers) * Timeout

\* Every call returns, with or without a token.
CallReturns == \A c \in Callers : pc[c] = "waiting" ~> pc[c] = "done"
=============================================================================
