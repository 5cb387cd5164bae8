------------------------ MODULE ServiceStart_proofs ------------------------
(***************************************************************************)
(* The safety of ServiceStart for any replicas, operators and versions,    *)
(* and, in its second half, of the configuration a service starts with     *)
(* (ServiceConfig) for any environment and any files.                      *)
(***************************************************************************)
EXTENDS ServiceStart, ServiceConfig, SequenceTheorems, FiniteSetTheorems, TLAPS

\* Who runs migrations holds the lock.
LockInv == \A c \in Callers : phase[c] = "run" => lock = c

\* A replica on its way to its client knows of its success before it has it.
ReadyInv ==
  ~rolledBack =>
    \A r \in Migrates :
      \/ client[r] = "ready"
      \/ client[r] \in {"first", "second"} /\ phase[r] = "nil"
      => version = Last

Building == {"none", "first", "schema", "second"}

\* Where the client is, and where the application that has it.
PlaceInv(r) ==
  /\ client[r] = "none" => pool[r] = "none"
  /\ client[r] \in {"first", "schema", "second", "ready"} => pool[r] # "none"
  /\ client[r] = "failed" => pool[r] \in {"none", "closed"}
  /\ client[r] \in Building => app[r] \in {"building", "failed"}
  /\ client[r] = "failed" => app[r] = "failed"
  /\ lent[r] => /\ pool[r] \in {"open", "closing"}
                /\ app[r] \notin {"building", "failed"}

\* While the hooks may run, whatever is open has its hook.
HookInv(r) ==
  /\ app[r] \in {"building", "started", "stopping", "troubled"} =>
       /\ pool[r] \in {"open", "closing"} =>
            \E i \in 1..Len(hooks[r]) : hooks[r][i] = "postgres"
       /\ redis[r] = "open" =>
            \E i \in 1..Len(hooks[r]) : hooks[r][i] = "redis"
  /\ pool[r] = "closing" => /\ app[r] \in {"stopping", "troubled", "error"}
                            /\ Stopping(r) => LastHook(r, "postgres")
  /\ app[r] = "nil" => pool[r] = "closed" /\ redis[r] # "open"

\* Shutdown has its answer when it has been through both providers.
EndInv(r) ==
  /\ told[r] # "none" => /\ tracer[r] \in {"ending", "ended"}
                         /\ meter[r] \in {"ended", "failed"}
  /\ told[r] = "nil" => meter[r] = "ended" /\ tracer[r] # "ending"

-----------------------------------------------------------------------------
(* The migrator. *)

MigratorInv == MigratorTypeOK /\ LockInv /\ MigrationsAreSerial

\* Nobody migrates at first.
LEMMA MigratorStart == MigratorInit => MigratorInv
<1> SUFFICES ASSUME MigratorInit PROVE MigratorInv
  OBVIOUS
<1>1. MigratorTypeOK
  <2>1. /\ phase \in [Callers -> {"none", "ping", "lock", "run", "nil", "error"}]
        /\ next \in [Callers -> 0 .. Last + 1]
    BY MigratorAssumption DEF MigratorInit
  <2>2. schema \in BOOLEAN /\ version \in 0..Last
    BY DEF MigratorInit
  <2>3. lock \in Callers \cup {NoOne} /\ rolledBack \in BOOLEAN
    BY DEF MigratorInit
  <2> QED
    BY <2>1, <2>2, <2>3 DEF MigratorTypeOK
<1>2. LockInv /\ MigrationsAreSerial
  BY DEF MigratorInit, LockInv, MigrationsAreSerial
<1> QED
  BY <1>1, <1>2 DEF MigratorInv

\* Whoever runs migrations holds the lock, so nobody else moves the version.
LEMMA MigrateStep ==
  ASSUME MigratorInv, NEW c \in Callers, Migrate(c)
  PROVE  MigratorInv'
<1> USE MigratorAssumption
    DEF MigratorInv, MigratorTypeOK, LockInv, MigrationsAreSerial, Goes,
        database, Unlocked, Callers
<1>1. CASE Look(c)
  BY <1>1 DEF Look
<1>2. CASE GiveUp(c)
  BY <1>2 DEF GiveUp
<1>3. CASE TakeLock(c)
  BY <1>3 DEF TakeLock
<1>4. CASE Apply(c)
  <2>1. /\ next[c] = version + 1 /\ version' = version + 1
        /\ version' \in 0..Last
        /\ next' = [next EXCEPT ![c] = version' + 1]
    BY <1>4 DEF Apply
  <2>2. MigratorTypeOK'
    BY <1>4, <2>1 DEF Apply
  <2>3. \A d \in Callers : phase'[d] = "run" => d = c
    BY <1>4 DEF Apply
  <2>4. LockInv'
    BY <1>4 DEF Apply
  <2>5. next'[c] = version' + 1 /\ c \in Upgrades
    BY <1>4, <2>1 DEF Apply
  <2>6. MigrationsAreSerial'
    BY <2>3, <2>5
  <2> QED
    BY <2>2, <2>4, <2>6
<1>5. CASE Remove(c)
  <2>1. next[c] = version /\ c \notin Upgrades /\ lock = c
    BY <1>5 DEF Remove
  <2>2. version' \in 0..Last /\ rolledBack' \in BOOLEAN
    <3>1. CASE version > 0
      BY <1>5, <2>1, <3>1 DEF Remove
    <3>2. CASE ~(version > 0)
      BY <1>5, <2>1, <3>2 DEF Remove
    <3> QED
      BY <3>1, <3>2
  <2>3. MigratorTypeOK'
    BY <1>5, <2>2 DEF Remove
  <2>4. \A d \in Callers : phase'[d] # "run"
    BY <1>5 DEF Remove
  <2> QED
    BY <2>3, <2>4
<1>6. CASE UpEnds(c)
  BY <1>6 DEF UpEnds
<1>7. CASE RunFails(c)
  BY <1>7 DEF RunFails
<1> QED
  BY <1>1, <1>2, <1>3, <1>4, <1>5, <1>6, <1>7 DEF Migrate

\* What a step of a migration means to those who wait for one: success tells
\* that every version is there, and only a Down takes one away.
LEMMA MigrateTells ==
  ASSUME MigratorInv, NEW c \in Callers, Migrate(c)
  PROVE  /\ \A d \in Callers \ {c} : phase'[d] = phase[d]
         /\ phase[c] \in {"ping", "lock", "run"}
         /\ c \in Upgrades /\ phase'[c] = "nil" => version' = Last
         /\ version = Last => version' = Last \/ rolledBack'
         /\ rolledBack => rolledBack'
<1> USE MigratorAssumption
    DEF MigratorInv, MigratorTypeOK, LockInv, MigrationsAreSerial, Goes,
        database, Unlocked, Callers
<1>1. CASE Look(c)
  BY <1>1 DEF Look
<1>2. CASE GiveUp(c)
  BY <1>2 DEF GiveUp
<1>3. CASE TakeLock(c)
  BY <1>3 DEF TakeLock
<1>4. CASE Apply(c)
  BY <1>4 DEF Apply
<1>5. CASE Remove(c)
  BY <1>5 DEF Remove
<1>6. CASE UpEnds(c)
  BY <1>6 DEF UpEnds
<1>7. CASE RunFails(c)
  BY <1>7 DEF RunFails
<1> QED
  BY <1>1, <1>2, <1>3, <1>4, <1>5, <1>6, <1>7 DEF Migrate

-----------------------------------------------------------------------------
(* Sequences of hooks. *)

\* A sequence without its last entry,
LEMMA Shorter ==
  ASSUME NEW S, NEW s \in Seq(S), s # <<>>
  PROVE  /\ Len(s) \in Nat \ {0}
         /\ SubSeq(s, 1, Len(s) - 1) \in Seq(S)
         /\ Len(SubSeq(s, 1, Len(s) - 1)) = Len(s) - 1
         /\ \A i \in 1 .. Len(s) - 1 : SubSeq(s, 1, Len(s) - 1)[i] = s[i]
<1>1. Len(s) \in Nat \ {0}
  BY EmptySeq
<1>2. \A i \in 1 .. Len(s) - 1 : s[i] \in S
  BY <1>1, ElementOfSeq
<1> DEFINE n == Len(s) - 1
<1>3. 1 \in Int /\ n \in Int /\ n \in Nat
  BY <1>1
<1>4. \A i \in 1..n : s[i] \in S
  BY <1>2
<1> HIDE DEF n
<1>5. /\ SubSeq(s, 1, n) \in Seq(S)
      /\ Len(SubSeq(s, 1, n)) = IF 1 <= n THEN n - 1 + 1 ELSE 0
      /\ \A i \in 1 .. n - 1 + 1 : SubSeq(s, 1, n)[i] = s[1 + i - 1]
  BY <1>3, <1>4, SubSeqProperties
<1>6. /\ Len(SubSeq(s, 1, n)) = n
      /\ \A i \in 1..n : SubSeq(s, 1, n)[i] = s[i]
  BY <1>3, <1>5
<1> QED
  BY <1>1, <1>5, <1>6 DEF n

\* and one with an entry more.
LEMMA Longer ==
  ASSUME NEW S, NEW s \in Seq(S), NEW e \in S
  PROVE  /\ Len(s) \in Nat
         /\ Append(s, e) \in Seq(S)
         /\ Len(Append(s, e)) = Len(s) + 1
         /\ Append(s, e)[Len(s) + 1] = e
         /\ \A i \in 1..Len(s) : Append(s, e)[i] = s[i]
BY LenProperties, AppendProperties

-----------------------------------------------------------------------------
(* The replicas. *)

LocalInv(r) == PlaceInv(r) /\ HookInv(r) /\ EndInv(r)

IndInv ==
  /\ TypeOK
  /\ MigratorInv
  /\ ReadyInv
  /\ \A r \in Replicas : LocalInv(r)

\* A step of r leaves the other replicas alone.
Same(q) ==
  /\ client'[q] = client[q] /\ pool'[q] = pool[q]
  /\ tracer'[q] = tracer[q] /\ meter'[q] = meter[q] /\ told'[q] = told[q]
  /\ redis'[q] = redis[q] /\ hooks'[q] = hooks[q]
  /\ app'[q] = app[q] /\ lent'[q] = lent[q]

Step(r) ==
  /\ TypeOK'
  /\ MigratorInv'
  /\ ReadyInv'
  /\ LocalInv(r)'
  /\ \A q \in Replicas \ {r} : Same(q)

\* A replica that does not move keeps what is its own,
LEMMA SameStays ==
  ASSUME NEW q \in Replicas, LocalInv(q), Same(q)
  PROVE  LocalInv(q)'
BY DEF Same, LocalInv, PlaceInv, HookInv, EndInv, Stopping, LastHook

\* the migrator as well,
LEMMA MigratorSame ==
  ASSUME MigratorInv, UNCHANGED migratorVars
  PROVE  MigratorInv'
BY DEF MigratorInv, MigratorTypeOK, LockInv, MigrationsAreSerial,
       migratorVars, database

\* and who is ready.
LEMMA ReadySame ==
  ASSUME ReadyInv, UNCHANGED <<migratorVars, client>>
  PROVE  ReadyInv'
BY DEF ReadyInv, migratorVars, database

\* The telemetry providers are built, or the application fails.
LEMMA BuildTelemetryStep ==
  ASSUME IndInv, NEW r \in Replicas, BuildTelemetry(r)
  PROVE  Step(r)
<1> USE DEF IndInv, BuildTelemetry, Constructs, BuildFails, NewProviders,
            NewProvidersFails, clientVars
<1>1. MigratorInv' /\ ReadyInv'
  BY MigratorSame, ReadySame
<1>2. TypeOK'
  BY <1>1, StartAssumption
     DEF TypeOK, ClientTypeOK, TelemetryTypeOK, MigratorInv
<1>3. LocalInv(r)'
  BY StartAssumption DEF TypeOK, ClientTypeOK, TelemetryTypeOK, LocalInv,
     PlaceInv, HookInv, EndInv, Building, Stopping, LastHook
<1>4. \A q \in Replicas \ {r} : Same(q)
  BY StartAssumption DEF TypeOK, TelemetryTypeOK, Same
<1> QED
  BY <1>1, <1>2, <1>3, <1>4 DEF Step

\* The Redis client comes with its hook.
LEMMA NewRedisClientStep ==
  ASSUME IndInv, NEW r \in Replicas, NewRedisClient(r)
  PROVE  Step(r)
<1> USE DEF IndInv, NewRedisClient, Constructs, BuildFails, AppendHook,
            clientVars, telemetryVars
<1>1. MigratorInv' /\ ReadyInv'
  BY MigratorSame, ReadySame
<1>2. /\ hooks[r] \in Seq({"redis", "postgres"})
      /\ Append(hooks[r], "redis") \in Seq({"redis", "postgres"})
      /\ Len(hooks[r]) \in Nat
      /\ Len(Append(hooks[r], "redis")) = Len(hooks[r]) + 1
      /\ Append(hooks[r], "redis")[Len(hooks[r]) + 1] = "redis"
      /\ \A i \in 1..Len(hooks[r]) :
           Append(hooks[r], "redis")[i] = hooks[r][i]
  <2>1. /\ hooks[r] \in Seq({"redis", "postgres"})
        /\ "redis" \in {"redis", "postgres"}
    BY DEF TypeOK
  <2> QED
    BY <2>1, Longer
<1>3. TypeOK'
  <2>1. hooks' \in [Replicas -> Seq({"redis", "postgres"})]
    BY <1>2 DEF TypeOK
  <2>2. MigratorTypeOK' /\ ClientTypeOK' /\ TelemetryTypeOK'
    BY <1>1 DEF TypeOK, ClientTypeOK, TelemetryTypeOK, MigratorInv
  <2> QED
    BY <2>1, <2>2 DEF TypeOK
<1>4. LocalInv(r)'
  <2>1. CASE app'[r] = "failed"
    BY <2>1 DEF TypeOK, ClientTypeOK, LocalInv, PlaceInv, HookInv, EndInv,
       Building, Stopping
  <2>2. CASE app'[r] # "failed"
    <3>1. /\ hooks'[r] = Append(hooks[r], "redis")
          /\ app'[r] = "building"
      BY <2>2 DEF TypeOK
    <3>2. \E i \in 1..Len(hooks'[r]) : hooks'[r][i] = "redis"
      BY <1>2, <3>1
    <3>3. pool[r] \in {"open", "closing"} =>
            \E i \in 1..Len(hooks'[r]) : hooks'[r][i] = "postgres"
      BY <1>2, <3>1 DEF LocalInv, HookInv
    <3> QED
      BY <3>1, <3>2, <3>3 DEF LocalInv, PlaceInv, HookInv, EndInv, Building
  <2> QED
    BY <2>1, <2>2
<1>5. \A q \in Replicas \ {r} : Same(q)
  BY DEF TypeOK, Same
<1> QED
  BY <1>1, <1>3, <1>4, <1>5 DEF Step

\* The pool comes with its hook, or not at all.
LEMMA BuildPostgresStep ==
  ASSUME IndInv, NEW r \in Replicas, BuildPostgres(r)
  PROVE  Step(r)
<1> USE DEF IndInv, BuildPostgres, Constructs, BuildFails, AppendHook,
            telemetryVars
<1>1. CASE ConnectFails(r) /\ BuildFails(r) /\ UNCHANGED hooks
  <2> USE <1>1 DEF ConnectFails, BuildFails
  <2>1. MigratorInv'
    BY MigratorSame
  <2>2. TypeOK'
    BY <2>1 DEF TypeOK, ClientTypeOK, TelemetryTypeOK, MigratorInv
  <2>3. ReadyInv'
    BY DEF TypeOK, ClientTypeOK, ReadyInv, migratorVars, database
  <2>4. LocalInv(r)'
    BY DEF TypeOK, ClientTypeOK, LocalInv, PlaceInv, HookInv, EndInv, Building,
       Stopping
  <2>5. \A q \in Replicas \ {r} : Same(q)
    BY DEF TypeOK, ClientTypeOK, Same
  <2> QED
    BY <2>1, <2>2, <2>3, <2>4, <2>5 DEF Step
<1>2. CASE Connect(r) /\ AppendHook(r, "postgres") /\ UNCHANGED app
  <2> USE <1>2 DEF Connect, Goes
  <2>1. /\ hooks[r] \in Seq({"redis", "postgres"})
        /\ Append(hooks[r], "postgres") \in Seq({"redis", "postgres"})
        /\ Len(hooks[r]) \in Nat
        /\ Len(Append(hooks[r], "postgres")) = Len(hooks[r]) + 1
        /\ Append(hooks[r], "postgres")[Len(hooks[r]) + 1] = "postgres"
        /\ \A i \in 1..Len(hooks[r]) :
             Append(hooks[r], "postgres")[i] = hooks[r][i]
    <3>1. /\ hooks[r] \in Seq({"redis", "postgres"})
          /\ "postgres" \in {"redis", "postgres"}
      BY DEF TypeOK
    <3> QED
      BY <3>1, Longer
  <2>2. MigratorInv'
    BY DEF MigratorInv, MigratorTypeOK, LockInv, MigrationsAreSerial, database,
       Callers, Replicas
  <2>3. hooks' \in [Replicas -> Seq({"redis", "postgres"})]
    BY <2>1 DEF TypeOK
  <2>4. ClientTypeOK' /\ TelemetryTypeOK'
    BY DEF TypeOK, ClientTypeOK, TelemetryTypeOK
  <2>5. TypeOK'
    BY <2>2, <2>3, <2>4 DEF TypeOK, MigratorInv
  <2>6. ReadyInv'
    BY StartAssumption DEF TypeOK, ClientTypeOK, MigratorTypeOK, Callers,
       Replicas, ReadyInv, database
  <2>7. LocalInv(r)'
    <3>1. /\ hooks'[r] = Append(hooks[r], "postgres")
          /\ app'[r] = "building" /\ pool'[r] = "open" /\ ~lent'[r]
          /\ client'[r] \in {"first", "ready"}
      BY DEF TypeOK, ClientTypeOK, LocalInv, PlaceInv
    <3>2. \E i \in 1..Len(hooks'[r]) : hooks'[r][i] = "postgres"
      BY <2>1, <3>1
    <3>3. redis'[r] = "open" =>
            \E i \in 1..Len(hooks'[r]) : hooks'[r][i] = "redis"
      BY <2>1, <3>1 DEF LocalInv, HookInv
    <3> QED
      BY <3>1, <3>2, <3>3 DEF LocalInv, PlaceInv, HookInv, EndInv
  <2>8. \A q \in Replicas \ {r} : Same(q)
    BY DEF TypeOK, ClientTypeOK, Same
  <2> QED
    BY <2>2, <2>5, <2>6, <2>7, <2>8 DEF Step
<1> QED
  BY <1>1, <1>2

\* What a step of NewPostgresClient does to its replica.
LEMMA ClientMoves ==
  ASSUME IndInv, NEW r \in Replicas, NewPostgresClient(r)
  PROVE  /\ MigratorInv' /\ ClientTypeOK' /\ ReadyInv'
         /\ client[r] \in {"first", "schema", "second"} \/ UNCHANGED clientVars
         /\ \/ client'[r] = "failed" /\ pool'[r] = "closed"
            \/ client'[r] \in {"first", "schema", "second", "ready"}
               /\ pool'[r] = pool[r]
            \/ UNCHANGED clientVars
         /\ \A q \in Replicas \ {r} :
              client'[q] = client[q] /\ pool'[q] = pool[q]
<1> USE DEF IndInv, TypeOK, ClientTypeOK
<1>0. r \in Callers /\ r \in Upgrades /\ Migrates \subseteq Callers
  BY StartAssumption DEF Replicas, Callers
<1>1. CASE Migrated(r)
  <2>1. MigratorInv'
    BY <1>1, MigratorSame DEF Migrated
  <2> QED
    BY <1>1, <2>1 DEF Migrated, ReadyInv, migratorVars, database
<1>2. CASE FirstFails(r)
  <2>1. MigratorInv'
    BY <1>2, MigratorSame DEF FirstFails
  <2> QED
    BY <1>2, <2>1 DEF FirstFails, ReadyInv, migratorVars, database
<1>3. CASE CreateSchema(r)
  <2> USE <1>3 DEF CreateSchema, Goes, Fail
  <2>1. MigratorInv'
    BY <1>0
       DEF MigratorInv, MigratorTypeOK, LockInv, MigrationsAreSerial, database
  <2>2. ReadyInv'
    <3>1. client'[r] # "ready" /\ (client'[r] = "failed" \/ phase'[r] = "ping")
      BY <1>0 DEF MigratorInv, MigratorTypeOK
    <3>2. \A m \in Migrates \ {r} :
            client'[m] = client[m] /\ phase'[m] = phase[m]
      BY <1>0, StartAssumption DEF MigratorInv, MigratorTypeOK
    <3> QED
      BY <3>1, <3>2 DEF ReadyInv
  <2> QED
    BY <2>1, <2>2
<1>4. CASE SecondFails(r)
  <2>1. MigratorInv'
    BY <1>4, MigratorSame DEF SecondFails
  <2> QED
    BY <1>4, <2>1 DEF SecondFails, Fail, ReadyInv, migratorVars, database
<1>5. CASE Migrate(r) /\ UNCHANGED clientVars
  <2>1. MigratorInv'
    BY <1>0, <1>5, MigrateStep
  <2>2. ReadyInv'
    <3> SUFFICES ASSUME ~rolledBack', NEW m \in Migrates,
                        \/ client'[m] = "ready"
                        \/ client'[m] \in {"first", "second"}
                           /\ phase'[m] = "nil"
                 PROVE  version' = Last
      BY DEF ReadyInv
    <3>1. CASE phase'[m] = phase[m]
      BY <1>0, <1>5, <3>1, MigrateTells DEF ReadyInv, clientVars
    <3>2. CASE client'[m] = "ready"
      BY <1>0, <1>5, <3>2, MigrateTells DEF ReadyInv, clientVars
    <3>3. CASE phase'[m] # phase[m] /\ phase'[m] = "nil"
      BY <1>0, <1>5, <3>3, MigrateTells
    <3> QED
      BY <3>1, <3>2, <3>3
  <2> QED
    BY <1>5, <2>1, <2>2 DEF clientVars
<1> QED
  BY <1>1, <1>2, <1>3, <1>4, <1>5 DEF NewPostgresClient

\* A constructor that fails has closed its pool and fails the application.
LEMMA PostgresGoesOnStep ==
  ASSUME IndInv, NEW r \in Replicas, PostgresGoesOn(r)
  PROVE  Step(r)
<1> USE DEF IndInv, PostgresGoesOn, BuildFails, telemetryVars
<1>1. /\ MigratorInv' /\ ClientTypeOK' /\ ReadyInv'
      /\ client[r] \in {"first", "schema", "second"} \/ UNCHANGED clientVars
      /\ \/ client'[r] = "failed" /\ pool'[r] = "closed"
         \/ client'[r] \in {"first", "schema", "second", "ready"}
            /\ pool'[r] = pool[r]
         \/ UNCHANGED clientVars
      /\ \A q \in Replicas \ {r} : client'[q] = client[q] /\ pool'[q] = pool[q]
  BY ClientMoves
<1>2. TypeOK'
  BY <1>1 DEF TypeOK, TelemetryTypeOK, MigratorInv
<1>3. LocalInv(r)'
  BY <1>1 DEF TypeOK, ClientTypeOK, LocalInv, PlaceInv, HookInv, EndInv,
     Building, Stopping, clientVars
<1>4. \A q \in Replicas \ {r} : Same(q)
  BY <1>1 DEF TypeOK, Same
<1> QED
  BY <1>1, <1>2, <1>3, <1>4 DEF Step

\* A stop ends with nil only when no hook is left, so nothing is open.
LEMMA StartStopStep ==
  ASSUME IndInv, NEW r \in Replicas,
         \/ Start(r) \/ Stop(r) \/ StopEnds(r) \/ StopExpires(r) \/ Lend(r)
  PROVE  Step(r)
<1> USE DEF IndInv, clientVars, telemetryVars, fxVars
<1>0. UNCHANGED migratorVars /\ UNCHANGED clientVars
  BY DEF Start, Stop, StopEnds, StopExpires, Lend
<1>1. MigratorInv' /\ ReadyInv'
  BY <1>0, MigratorSame, ReadySame
<1>2. TypeOK'
  <2>1. MigratorTypeOK' /\ ClientTypeOK'
    BY <1>0, <1>1 DEF TypeOK, ClientTypeOK, MigratorInv
  <2>2. UNCHANGED <<telemetryVars, hooks, redis, restarts>>
    BY DEF Start, Stop, StopEnds, StopExpires, Lend
  <2>3. /\ TelemetryTypeOK'
        /\ redis' \in [Replicas -> {"none", "open", "closed"}]
        /\ hooks' \in [Replicas -> Seq({"redis", "postgres"})]
        /\ restarts' \in 0..MaxRestarts
    BY <2>2 DEF TypeOK, TelemetryTypeOK
  <2>4. app' \in [Replicas -> {"building", "failed", "started", "stopping",
                              "troubled", "nil", "error"}]
    BY DEF TypeOK, Start, Stop, StopEnds, StopExpires, Lend
  <2>5. lent' \in [Replicas -> BOOLEAN]
    BY DEF TypeOK, Start, Stop, StopEnds, StopExpires, Lend
  <2> QED
    BY <2>1, <2>3, <2>4, <2>5 DEF TypeOK
<1>3. LocalInv(r)'
  <2>1. LocalInv(r)
    OBVIOUS
  <2>2. CASE Lend(r)
    <3>1. hooks'[r] = hooks[r] /\ app'[r] = app[r] /\ redis'[r] = redis[r]
      BY <2>2 DEF Lend
    <3>2. /\ tracer'[r] = tracer[r] /\ meter'[r] = meter[r]
          /\ told'[r] = told[r]
      BY <2>2 DEF Lend
    <3>3. lent'[r] => /\ pool[r] \in {"open", "closing"}
                      /\ app[r] \notin {"building", "failed"}
      BY <2>1, <2>2 DEF Lend, TypeOK, LocalInv, PlaceInv
    <3> HIDE DEF IndInv
    <3> QED
      BY <1>0, <2>1, <3>1, <3>2, <3>3 DEF LocalInv, PlaceInv, HookInv, EndInv,
         Stopping, LastHook, Building
  <2>3. CASE Start(r) \/ Stop(r) \/ StopEnds(r) \/ StopExpires(r)
    <3>1. /\ hooks'[r] = hooks[r] /\ lent'[r] = lent[r] /\ redis'[r] = redis[r]
          /\ tracer'[r] = tracer[r] /\ meter'[r] = meter[r]
          /\ told'[r] = told[r]
      BY <2>3 DEF Start, Stop, StopEnds, StopExpires
    <3>2. \/ app[r] = "building" /\ client[r] = "ready" /\ app'[r] = "started"
          \/ app[r] = "started" /\ app'[r] = "stopping"
          \/ /\ Stopping(r) /\ app'[r] \in {"nil", "error"}
             /\ app'[r] = "nil" => hooks[r] = <<>>
      BY <2>3 DEF Start, Stop, StopEnds, StopExpires, TypeOK
    <3>3. hooks[r] = <<>> /\ Stopping(r) =>
            pool[r] \notin {"open", "closing"} /\ redis[r] # "open"
      BY <2>1 DEF LocalInv, HookInv, Stopping
    <3>4. pool[r] \in {"none", "open", "closing", "closed"}
      BY DEF TypeOK, ClientTypeOK
    <3>5. client[r] \in Building \cup {"ready", "failed"}
      BY DEF TypeOK, ClientTypeOK, Building
    <3> HIDE DEF IndInv
    <3> QED
      BY <1>0, <2>1, <3>1, <3>2, <3>3, <3>4, <3>5 DEF LocalInv, PlaceInv,
         HookInv, EndInv, Stopping, LastHook, Building
  <2> QED
    BY <2>2, <2>3
<1>4. \A q \in Replicas \ {r} : Same(q)
  BY <1>0 DEF TypeOK, Same, Start, Stop, StopEnds, StopExpires, Lend
<1> QED
  BY <1>1, <1>2, <1>3, <1>4 DEF Step

\* A hook that ends leaves those before it.
LEMMA HookEndsLeaves ==
  ASSUME IndInv, NEW r \in Replicas, hooks[r] # <<>>, HookEnds(r)
  PROVE  /\ hooks' \in [Replicas -> Seq({"redis", "postgres"})]
         /\ \A q \in Replicas \ {r} : hooks'[q] = hooks[q]
         /\ Len(hooks[r]) \in Nat \ {0}
         /\ Len(hooks'[r]) = Len(hooks[r]) - 1
         /\ \A i \in 1 .. Len(hooks[r]) - 1 : hooks'[r][i] = hooks[r][i]
<1> USE DEF IndInv, HookEnds
<1>1. hooks[r] \in Seq({"redis", "postgres"})
  BY DEF TypeOK
<1>2. /\ Len(hooks[r]) \in Nat \ {0}
      /\ SubSeq(hooks[r], 1, Len(hooks[r]) - 1) \in Seq({"redis", "postgres"})
      /\ Len(SubSeq(hooks[r], 1, Len(hooks[r]) - 1)) = Len(hooks[r]) - 1
      /\ \A i \in 1 .. Len(hooks[r]) - 1 :
           SubSeq(hooks[r], 1, Len(hooks[r]) - 1)[i] = hooks[r][i]
  BY <1>1, Shorter
<1> QED
  BY <1>2 DEF TypeOK

\* The hook of Redis closes its client, whatever Close returns.
LEMMA StopRedisStep ==
  ASSUME IndInv, NEW r \in Replicas, StopRedis(r)
  PROVE  Step(r)
<1> USE DEF IndInv, StopRedis, clientVars, telemetryVars
<1>1. MigratorInv' /\ ReadyInv'
  BY MigratorSame, ReadySame
<1>2. /\ hooks' \in [Replicas -> Seq({"redis", "postgres"})]
      /\ \A q \in Replicas \ {r} : hooks'[q] = hooks[q]
      /\ Len(hooks[r]) \in Nat \ {0}
      /\ Len(hooks'[r]) = Len(hooks[r]) - 1
      /\ \A i \in 1 .. Len(hooks[r]) - 1 : hooks'[r][i] = hooks[r][i]
  BY HookEndsLeaves DEF LastHook
<1>3. TypeOK'
  BY <1>1, <1>2 DEF TypeOK, ClientTypeOK, TelemetryTypeOK, MigratorInv
<1>4. LocalInv(r)'
  <2>1. /\ pool[r] # "closing" /\ redis'[r] = "closed"
        /\ app'[r] \in {"stopping", "troubled"}
    BY DEF LocalInv, HookInv, LastHook, Stopping, TypeOK
  <2>2. pool[r] = "open" => \E i \in 1..Len(hooks'[r]) : hooks'[r][i] = "postgres"
    <3> SUFFICES ASSUME pool[r] = "open"
                 PROVE  \E i \in 1..Len(hooks'[r]) : hooks'[r][i] = "postgres"
      OBVIOUS
    <3>1. PICK i \in 1..Len(hooks[r]) : hooks[r][i] = "postgres"
      BY DEF LocalInv, HookInv, Stopping
    <3>2. i \in 1..Len(hooks'[r]) /\ hooks'[r][i] = "postgres"
      BY <1>2, <3>1 DEF LastHook
    <3> QED
      BY <3>2
  <2> QED
    BY <2>1, <2>2 DEF LocalInv, PlaceInv, HookInv, EndInv, Building, Stopping
<1>5. \A q \in Replicas \ {r} : Same(q)
  BY <1>2 DEF TypeOK, Same
<1> QED
  BY <1>1, <1>3, <1>4, <1>5 DEF Step

\* The hook of the pool begins to close it and stays the last.
LEMMA StopPostgresStep ==
  ASSUME IndInv, NEW r \in Replicas, StopPostgres(r)
  PROVE  Step(r)
<1> USE DEF IndInv, StopPostgres, telemetryVars, fxVars
<1>1. MigratorInv' /\ ReadyInv'
  BY MigratorSame, ReadySame
<1>2. TypeOK'
  BY <1>1 DEF TypeOK, ClientTypeOK, TelemetryTypeOK, MigratorInv
<1>3. LocalInv(r)'
  BY DEF TypeOK, ClientTypeOK, LocalInv, PlaceInv, HookInv, EndInv, Building,
     Stopping, LastHook
<1>4. \A q \in Replicas \ {r} : Same(q)
  BY DEF TypeOK, ClientTypeOK, Same
<1> QED
  BY <1>1, <1>2, <1>3, <1>4 DEF Step

\* The pool closes when no connection is lent, and takes its hook along.
LEMMA PoolClosesStep ==
  ASSUME IndInv, NEW r \in Replicas, PoolCloses(r)
  PROVE  Step(r)
<1> USE DEF IndInv, PoolCloses, telemetryVars
<1>1. MigratorInv' /\ ReadyInv'
  BY MigratorSame, ReadySame
<1>2. pool'[r] = "closed" /\ app'[r] = app[r] /\ redis'[r] = redis[r]
  BY DEF TypeOK, ClientTypeOK
<1>3. CASE Stopping(r)
  <2>1. /\ hooks' \in [Replicas -> Seq({"redis", "postgres"})]
        /\ \A q \in Replicas \ {r} : hooks'[q] = hooks[q]
        /\ Len(hooks[r]) \in Nat \ {0}
        /\ Len(hooks'[r]) = Len(hooks[r]) - 1
        /\ \A i \in 1 .. Len(hooks[r]) - 1 : hooks'[r][i] = hooks[r][i]
    BY <1>3, HookEndsLeaves DEF LocalInv, HookInv, LastHook
  <2>2. TypeOK'
    BY <1>1, <2>1 DEF TypeOK, ClientTypeOK, TelemetryTypeOK, MigratorInv
  <2>3. redis[r] = "open" => \E i \in 1..Len(hooks'[r]) : hooks'[r][i] = "redis"
    <3> SUFFICES ASSUME redis[r] = "open"
                 PROVE  \E i \in 1..Len(hooks'[r]) : hooks'[r][i] = "redis"
      OBVIOUS
    <3>1. PICK i \in 1..Len(hooks[r]) : hooks[r][i] = "redis"
      BY <1>3 DEF LocalInv, HookInv, Stopping
    <3>2. hooks[r][Len(hooks[r])] = "postgres"
      BY <1>3 DEF LocalInv, HookInv, LastHook
    <3>3. i \in 1..Len(hooks'[r]) /\ hooks'[r][i] = "redis"
      BY <2>1, <3>1, <3>2
    <3> QED
      BY <3>3
  <2>4. LocalInv(r)'
    BY <1>2, <1>3, <2>3
       DEF LocalInv, PlaceInv, HookInv, EndInv, Building, Stopping
  <2>5. \A q \in Replicas \ {r} : Same(q)
    BY <2>1 DEF TypeOK, ClientTypeOK, Same
  <2> QED
    BY <1>1, <2>2, <2>4, <2>5 DEF Step
<1>4. CASE ~Stopping(r)
  <2>1. TypeOK'
    BY <1>1, <1>4 DEF TypeOK, ClientTypeOK, TelemetryTypeOK, MigratorInv
  <2>2. LocalInv(r)'
    BY <1>2, <1>4 DEF LocalInv, PlaceInv, HookInv, EndInv, Building, Stopping
  <2>3. \A q \in Replicas \ {r} : Same(q)
    BY <1>4 DEF TypeOK, ClientTypeOK, Same
  <2> QED
    BY <1>1, <2>1, <2>2, <2>3 DEF Step
<1> QED
  BY <1>3, <1>4

\* The meter is ended, then the tracer, and then Shutdown returns.
LEMMA ShutdownStep ==
  ASSUME NEW r \in Replicas, TelemetryTypeOK, EndInv(r),
         ShutdownMeter(r) \/ ShutdownTracer(r) \/ TracerEnds(r)
  PROVE  /\ TelemetryTypeOK' /\ EndInv(r)'
         /\ \A q \in Replicas \ {r} :
              tracer'[q] = tracer[q] /\ meter'[q] = meter[q] /\ told'[q] = told[q]
<1> USE StartAssumption DEF TelemetryTypeOK, EndInv
<1>1. CASE ShutdownMeter(r)
  <2>1. PICK m \in {"ended", "failed"} : meter' = [meter EXCEPT ![r] = m]
    BY <1>1 DEF ShutdownMeter
  <2>2. meter[r] = "on" /\ tracer' = tracer /\ told' = told
    BY <1>1 DEF ShutdownMeter
  <2> QED
    BY <2>1, <2>2
<1>2. CASE ShutdownTracer(r)
  <2>1. PICK t \in {"ending", "ended"}, v \in {"nil", "error"} :
          /\ tracer' = [tracer EXCEPT ![r] = t]
          /\ told' = [told EXCEPT ![r] = v]
          /\ v = "nil" => meter[r] = "ended" /\ t # "ending"
    BY <1>2 DEF ShutdownTracer
  <2>2. meter[r] \in {"ended", "failed"} /\ meter' = meter
    BY <1>2 DEF ShutdownTracer
  <2> QED
    BY <2>1, <2>2
<1>3. CASE TracerEnds(r)
  BY <1>3 DEF TracerEnds
<1> QED
  BY <1>1, <1>2, <1>3

\* It concerns the telemetry of its replica only.
LEMMA EndTelemetryStep ==
  ASSUME IndInv, NEW r \in Replicas, EndTelemetry(r)
  PROVE  Step(r)
<1> USE DEF IndInv, EndTelemetry, clientVars, fxVars
<1>1. MigratorInv' /\ ReadyInv'
  BY MigratorSame, ReadySame
<1>2. /\ TelemetryTypeOK' /\ EndInv(r)'
      /\ \A q \in Replicas \ {r} :
           tracer'[q] = tracer[q] /\ meter'[q] = meter[q] /\ told'[q] = told[q]
  BY ShutdownStep DEF TypeOK, LocalInv
<1>3. TypeOK'
  BY <1>1, <1>2 DEF TypeOK, ClientTypeOK, MigratorInv
<1>4. LocalInv(r)'
  BY <1>2 DEF LocalInv, PlaceInv, HookInv, Building, Stopping, LastHook
<1>5. \A q \in Replicas \ {r} : Same(q)
  BY <1>2 DEF Same
<1> QED
  BY <1>1, <1>3, <1>4, <1>5 DEF Step

\* A process that ends leaves its lock and everything it had.
LEMMA RestartStep ==
  ASSUME IndInv, NEW r \in Replicas, Restart(r)
  PROVE  Step(r)
<1> USE DEF IndInv, Restart, Disconnect, Goes, Unlocked
<1>0. r \in Callers
  BY DEF Replicas, Callers
<1>1. MigratorInv'
  BY <1>0, MigratorAssumption
     DEF MigratorInv, MigratorTypeOK, LockInv, MigrationsAreSerial
<1>2. ReadyInv'
  BY <1>0 DEF ReadyInv, TypeOK, MigratorTypeOK, ClientTypeOK, Callers,
     Replicas
<1>3. TypeOK'
  <2>1. hooks' \in [Replicas -> Seq({"redis", "postgres"})]
    BY DEF TypeOK
  <2>2. restarts' \in 0..MaxRestarts
    BY StartAssumption DEF TypeOK
  <2> QED
    BY <1>1, <2>1, <2>2, StartAssumption
       DEF TypeOK, ClientTypeOK, TelemetryTypeOK, MigratorInv
<1>4. LocalInv(r)'
  BY StartAssumption DEF TypeOK, ClientTypeOK, TelemetryTypeOK, LocalInv,
     PlaceInv, HookInv, EndInv, Building, Stopping, LastHook
<1>5. \A q \in Replicas \ {r} : Same(q)
  BY StartAssumption DEF TypeOK, ClientTypeOK, TelemetryTypeOK, Same
<1> QED
  BY <1>1, <1>2, <1>3, <1>4, <1>5 DEF Step

\* A rollback counts as one before the version is less than the last.
LEMMA OperateStep ==
  ASSUME IndInv, NEW c \in Rollbacks, Operate(c)
  PROVE  IndInv'
<1> USE DEF IndInv, Operate, clientVars, telemetryVars, fxVars
<1>0. /\ c \in Callers /\ c \notin Upgrades
      /\ \A m \in Migrates : m \in Callers \ {c}
  BY MigratorAssumption, StartAssumption DEF Callers, Replicas
<1>1. MigratorInv'
  <2>1. CASE CallDown(c)
    BY <1>0, <2>1 DEF CallDown, Goes, database, MigratorInv, MigratorTypeOK,
       LockInv, MigrationsAreSerial
  <2>2. CASE Migrate(c)
    BY <1>0, <2>2, MigrateStep
  <2> QED
    BY <2>1, <2>2
<1>2. ReadyInv'
  <2>1. CASE CallDown(c)
    BY <1>0, <2>1 DEF CallDown, Goes, database, ReadyInv, MigratorInv,
       MigratorTypeOK
  <2>2. CASE Migrate(c)
    BY <1>0, <2>2, MigrateTells DEF ReadyInv
  <2> QED
    BY <2>1, <2>2
<1>3. TypeOK'
  BY <1>1 DEF TypeOK, ClientTypeOK, TelemetryTypeOK, MigratorInv
<1>4. \A r \in Replicas : LocalInv(r)'
  <2> SUFFICES ASSUME NEW r \in Replicas PROVE LocalInv(r)'
    OBVIOUS
  <2>1. Same(r)
    BY DEF Same
  <2> QED
    BY <2>1, SameStays
<1> QED
  BY <1>1, <1>2, <1>3, <1>4

-----------------------------------------------------------------------------
(* Theorems. *)

\* Replicas begin with nothing.
LEMMA Start0 == Init => IndInv
<1> SUFFICES ASSUME Init PROVE IndInv
  OBVIOUS
<1> USE DEF Init
<1>1. MigratorInv
  BY MigratorStart
<1>2. TypeOK
  <2>1. hooks \in [Replicas -> Seq({"redis", "postgres"})]
    BY EmptySeq
  <2> QED
    BY <1>1, <2>1, StartAssumption DEF TypeOK, ClientTypeOK, TelemetryTypeOK,
       ClientInit, TelemetryInit, MigratorInv
<1>3. ReadyInv
  BY StartAssumption DEF ReadyInv, ClientInit
<1>4. \A r \in Replicas : LocalInv(r)
  BY StartAssumption DEF LocalInv, PlaceInv, HookInv, EndInv, Building,
     ClientInit, TelemetryInit, Stopping
<1> QED
  BY <1>1, <1>2, <1>3, <1>4 DEF IndInv

\* All steps of replicas and operators.
LEMMA NextStep ==
  ASSUME IndInv, [Next]_vars
  PROVE  IndInv'
<1>1. ASSUME NEW r \in Replicas, Step(r)
      PROVE  IndInv'
  <2>1. \A q \in Replicas : LocalInv(q)'
    BY <1>1, SameStays DEF IndInv, Step
  <2> QED
    BY <1>1, <2>1 DEF IndInv, Step
<1>2. CASE \E r \in Replicas :
             \/ BuildTelemetry(r) \/ NewRedisClient(r)
             \/ BuildPostgres(r) \/ PostgresGoesOn(r)
             \/ Start(r) \/ Lend(r) \/ Stop(r)
             \/ StopRedis(r) \/ StopPostgres(r) \/ PoolCloses(r)
             \/ StopEnds(r) \/ StopExpires(r) \/ EndTelemetry(r)
             \/ Restart(r)
  <2>1. PICK r \in Replicas :
             \/ BuildTelemetry(r) \/ NewRedisClient(r)
             \/ BuildPostgres(r) \/ PostgresGoesOn(r)
             \/ Start(r) \/ Lend(r) \/ Stop(r)
             \/ StopRedis(r) \/ StopPostgres(r) \/ PoolCloses(r)
             \/ StopEnds(r) \/ StopExpires(r) \/ EndTelemetry(r)
             \/ Restart(r)
    BY <1>2
  <2>2. Step(r)
    BY <2>1, BuildTelemetryStep, NewRedisClientStep, BuildPostgresStep,
       PostgresGoesOnStep, StartStopStep, StopRedisStep, StopPostgresStep,
       PoolClosesStep, EndTelemetryStep, RestartStep
  <2> QED
    BY <1>1, <2>2
<1>3. CASE \E c \in Rollbacks : Operate(c)
  BY <1>3, OperateStep
<1>4. CASE UNCHANGED vars
  <2>1. MigratorInv' /\ ReadyInv'
    BY <1>4, MigratorSame, ReadySame DEF IndInv, vars, clientVars
  <2>2. TypeOK'
    BY <1>4, <2>1 DEF IndInv, TypeOK, ClientTypeOK, TelemetryTypeOK,
       MigratorInv, vars, clientVars, telemetryVars, fxVars
  <2>3. \A q \in Replicas : Same(q)
    BY <1>4 DEF Same, vars, clientVars, telemetryVars, fxVars
  <2>4. \A q \in Replicas : LocalInv(q)'
    BY <2>3, SameStays DEF IndInv
  <2> QED
    BY <2>1, <2>2, <2>4 DEF IndInv
<1> QED
  BY <1>2, <1>3, <1>4 DEF Next

\* The invariant holds of every run.
LEMMA Inductive == Spec => []IndInv
BY Start0, NextStep, PTL DEF Spec

\* Every variable keeps its type.
THEOREM TypeCorrect == Spec => []TypeOK
<1>1. IndInv => TypeOK
  BY DEF IndInv
<1> QED
  BY <1>1, Inductive, PTL

\* However many replicas and operators migrate one database at a time, and
\* wherever they fail: each version is run when it is the next one.
THEOREM Serial == Spec => []MigrationsAreSerial
<1>1. IndInv => MigrationsAreSerial
  BY DEF IndInv, MigratorInv
<1> QED
  BY <1>1, Inductive, PTL

\* A replica that migrates is not ready before every version is there.
THEOREM ReadyIsMigrated == Spec => []MigratedWhenReady
<1>1. IndInv => MigratedWhenReady
  BY DEF IndInv, ReadyInv, MigratedWhenReady
<1> QED
  BY <1>1, Inductive, PTL

\* Failed constructors and successful stops leave no connection.
THEOREM StopsClose == Spec => []NothingStaysOpen
<1>1. IndInv => NothingStaysOpen
  BY DEF IndInv, LocalInv, PlaceInv, HookInv, NothingStaysOpen
<1> QED
  BY <1>1, Inductive, PTL

\* Shutdown of the telemetry providers ends the tracer after a meter that fails,
\* and answers nil only when both have ended without an error of their own.
THEOREM BothProvidersEnd == Spec => []TelemetryEnds
<1>1. IndInv => TelemetryEnds
  BY DEF IndInv, LocalInv, EndInv, TelemetryEnds
<1> QED
  BY <1>1, Inductive, PTL

-----------------------------------------------------------------------------
(* The configuration. *)

\* The environment f has all that e has, with the same texts.
Keeps(e, f) == \A v \in DOMAIN e : v \in DOMAIN f /\ f[v] = e[v]

\* When the head of a sequence is in S, it is the first that is.
LEMMA FirstIsHead ==
  ASSUME NEW seq, NEW n \in Nat \ {0}, DOMAIN seq = 1..n, NEW S, seq[1] \in S
  PROVE  FirstIn(seq, S) = seq[1]
<1> DEFINE First(i) == seq[i] \in S /\ \A j \in DOMAIN seq : seq[j] \in S => i <= j
<1>1. 1 \in DOMAIN seq /\ First(1)
  OBVIOUS
<1>2. \A i \in DOMAIN seq : First(i) => i = 1
  OBVIOUS
<1>3. (CHOOSE i \in DOMAIN seq : First(i)) = 1
  <2> HIDE DEF First
  <2> QED
    BY <1>1, <1>2
<1> QED
  BY <1>3 DEF FirstIn

\* Of the names that can give the environment, the first in S is in S.
LEMMA FirstDetected ==
  ASSUME NEW S, S # {}, S \subseteq Entries(DetectOrder)
  PROVE  FirstIn(DetectOrder, S) \in S
<1> DEFINE First(i) == /\ DetectOrder[i] \in S
                       /\ \A j \in DOMAIN DetectOrder : DetectOrder[j] \in S => i <= j
<1>1. DOMAIN DetectOrder = 1..4
  BY DEF DetectOrder
<1>2. \E i \in 1..4 : DetectOrder[i] \in S
  BY <1>1 DEF Entries
<1>3. \E i \in 1..4 : First(i)
  <2>1. CASE DetectOrder[1] \in S
    BY <2>1, <1>1
  <2>2. CASE DetectOrder[1] \notin S /\ DetectOrder[2] \in S
    BY <2>2, <1>1
  <2>3. CASE DetectOrder[1] \notin S /\ DetectOrder[2] \notin S /\ DetectOrder[3] \in S
    BY <2>3, <1>1
  <2>4. CASE DetectOrder[1] \notin S /\ DetectOrder[2] \notin S /\ DetectOrder[3] \notin S
    BY <2>4, <1>1, <1>2
  <2> QED
    BY <2>1, <2>2, <2>3, <2>4
<1>4. First(CHOOSE i \in DOMAIN DetectOrder : First(i))
  <2> HIDE DEF First
  <2> QED
    BY <1>1, <1>3
<1> QED
  BY <1>4 DEF FirstIn

\* There are four of these names at most.
LEMMA DetectedAreFew ==
  /\ IsFiniteSet(Entries(DetectOrder))
  /\ Cardinality(Entries(DetectOrder)) <= 4
<1>1. Entries(DetectOrder) = {"APP_ENV", "GO_ENV", "ENVIRONMENT"} \cup {"NODE_ENV"}
  <2>1. DOMAIN DetectOrder = 1..4
    BY DEF DetectOrder
  <2>2. \A i \in 1..4 : i = 1 \/ i = 2 \/ i = 3 \/ i = 4
    OBVIOUS
  <2>3. 1 \in 1..4 /\ 2 \in 1..4 /\ 3 \in 1..4 /\ 4 \in 1..4
    OBVIOUS
  <2> QED
    BY <2>1, <2>2, <2>3 DEF Entries, DetectOrder
<1> DEFINE Two == {"APP_ENV"} \cup {"GO_ENV"}
           Three == Two \cup {"ENVIRONMENT"}
<1>2. {"APP_ENV", "GO_ENV", "ENVIRONMENT"} = Three
  OBVIOUS
<1>3. IsFiniteSet({"APP_ENV"}) /\ Cardinality({"APP_ENV"}) = 1
  BY FS_Singleton
<1>4. IsFiniteSet(Two) /\ Cardinality(Two) \in 0..2
  BY <1>3, FS_AddElement
<1>5. IsFiniteSet(Three) /\ Cardinality(Three) \in 0..3
  <2> HIDE DEF Two
  <2> QED
    BY <1>4, FS_AddElement
<1>6. /\ IsFiniteSet(Three \cup {"NODE_ENV"})
      /\ Cardinality(Three \cup {"NODE_ENV"}) <= 4
  <2> HIDE DEF Three
  <2> QED
    BY <1>5, FS_AddElement
<1> QED
  BY <1>1, <1>2, <1>6

-----------------------------------------------------------------------------
\* A variable that is not blank stays so in an environment that keeps it.
LEMMA KeepsNames ==
  ASSUME NEW e, NEW f, Keeps(e, f)
  PROVE  /\ \A v : NotBlank(e, v) => v \in DOMAIN e /\ NotBlank(f, v) /\ f[v] = e[v]
         /\ Given(e) \subseteq Given(f)
<1>1. ASSUME NEW v, NotBlank(e, v)
      PROVE  v \in DOMAIN e /\ NotBlank(f, v) /\ f[v] = e[v]
  BY <1>1 DEF Keeps, NotBlank, Getenv, TrimSpace
<1> QED
  BY <1>1 DEF Given

\* Environments that give the same of the four names detect the same name.
LEMMA SameGivenSameName ==
  ASSUME NEW e, NEW f, Keeps(e, f), Given(e) = Given(f)
  PROVE  detectServiceAppEnv(f) = detectServiceAppEnv(e)
<1>1. CASE Given(e) = {}
  BY <1>1 DEF detectServiceAppEnv
<1>2. CASE Given(e) # {}
  <2> DEFINE v == FirstIn(DetectOrder, Given(e))
  <2>1. v \in Given(e)
    BY <1>2, FirstDetected DEF Given
  <2>2. f[v] = e[v]
    BY <2>1, KeepsNames DEF Given
  <2> QED
    BY <2>2, <1>2 DEF detectServiceAppEnv
<1> QED
  BY <1>1, <1>2

\* Preloading only adds: the variables of the .env files that are found.
LEMMA PreloadKeeps ==
  ASSUME NEW e
  PROVE  /\ Keeps(e, preloadServiceEnvFiles(e))
         /\ DOMAIN preloadServiceEnvFiles(e) = DOMAIN e \cup Named(e)
BY DEF Keeps, preloadServiceEnvFiles

\* Unless it gives one more of the four names, a load leaves nothing to the next:
\* the same .env files are found, and what they say is there already.
LEMMA SecondLoadFindsNothing ==
  ASSUME NEW e, Given(preloadServiceEnvFiles(e)) = Given(e)
  PROVE  preloadServiceEnvFiles(preloadServiceEnvFiles(e)) = preloadServiceEnvFiles(e)
<1> DEFINE f == preloadServiceEnvFiles(e)
<1>1. detectServiceAppEnv(f) = detectServiceAppEnv(e)
  BY PreloadKeeps, SameGivenSameName
<1>2. Named(f) = Named(e)
  BY <1>1 DEF Named, Found, EnvFiles
<1>3. DOMAIN f \cup Named(f) = DOMAIN f
  BY <1>2, PreloadKeeps
<1>4. f = [v \in DOMAIN f |-> f[v]]
  BY DEF preloadServiceEnvFiles
<1>5. preloadServiceEnvFiles(f) = [v \in DOMAIN f |-> f[v]]
  <2> HIDE DEF f
  <2> QED
    BY <1>3 DEF preloadServiceEnvFiles
<1> QED
  BY <1>4, <1>5

-----------------------------------------------------------------------------
(* The invariant. *)

\* What a load makes of an environment; the .env files have been read.
Outcome(e) ==
  LET c == Unmarshal(e)
  IN \/ ~Readable(e) /\ cfg = <<>> /\ err = "read"
     \/ Readable(e) /\ ~Decodable(c) /\ cfg = <<>> /\ err = "unmarshal"
     \/ /\ Readable(e) /\ Decodable(c) /\ ~Validate(Normalize(c))
        /\ cfg = <<>> /\ err = "validate"
     \/ /\ Readable(e) /\ Decodable(c) /\ Validate(Normalize(c))
        /\ cfg = Normalize(c) /\ err = "none"

\* Each load that does not leave the environment as it is gives one more of the
\* four names, and there are four.
SettleInv ==
  \/ preloadServiceEnvFiles(env) = env
  \/ Cardinality(Given(env)) >= loads

ConfigInv ==
  /\ loads \in Nat
  /\ Keeps(world.env, env)
  /\ SettleInv
  /\ IF loads = 0 THEN cfg = <<>> ELSE file = ConfigFile(env) /\ Outcome(env)

\* The four ways a load can end.
LEMMA LoadEnds ==
  ASSUME LoadServiceConfig
  PROVE  Load(preloadServiceEnvFiles(env)) /\ Outcome(env)'
<1> DEFINE e == preloadServiceEnvFiles(env)
           c == Unmarshal(e)
<1>1. Load(e)
  BY DEF LoadServiceConfig, ReadFails, DecodeFails, Refused, Accepted, LoadFails
<1>2. env' = e /\ world' = world
  BY <1>1 DEF Load
<1>3. Readable(env)' <=> Readable(e)
  BY <1>2 DEF Readable, ConfigFile, NotBlank, Getenv, serviceAppEnv,
              detectServiceAppEnv, Given
<1>4. Unmarshal(env)' = c
  BY <1>2 DEF Unmarshal, ConfigFile, NotBlank, Getenv, serviceAppEnv,
              detectServiceAppEnv, Given
<1>5. \/ ~Readable(e) /\ cfg' = <<>> /\ err' = "read"
      \/ Readable(e) /\ ~Decodable(c) /\ cfg' = <<>> /\ err' = "unmarshal"
      \/ /\ Readable(e) /\ Decodable(c) /\ ~Validate(Normalize(c))
         /\ cfg' = <<>> /\ err' = "validate"
      \/ /\ Readable(e) /\ Decodable(c) /\ Validate(Normalize(c))
         /\ cfg' = Normalize(c) /\ err' = "none"
  BY DEF LoadServiceConfig, ReadFails, DecodeFails, Refused, Accepted, LoadFails
<1> QED
  BY <1>1, <1>3, <1>4, <1>5 DEF Outcome

\* A load keeps the measure: it settles the environment or names one more.
LEMMA SettleKeeps ==
  ASSUME loads \in Nat, SettleInv, LoadServiceConfig
  PROVE  SettleInv'
<1> DEFINE e == preloadServiceEnvFiles(env)
<1>1. env' = e /\ loads' = loads + 1 /\ world' = world
  BY LoadEnds DEF Load
<1>2. preloadServiceEnvFiles(env)' = preloadServiceEnvFiles(e)
  BY <1>1 DEF preloadServiceEnvFiles, Named, Said, Found
<1>3. Given(env)' = Given(e)
  BY <1>1
<1>4. CASE preloadServiceEnvFiles(env) = env
  BY <1>1, <1>2, <1>4 DEF SettleInv
<1>5. CASE Given(e) = Given(env)
  BY <1>1, <1>2, <1>5, SecondLoadFindsNothing DEF SettleInv
<1>6. CASE Given(e) # Given(env) /\ Cardinality(Given(env)) >= loads
  <2>1. Given(env) \subseteq Given(e)
    BY PreloadKeeps, KeepsNames
  <2>2. PICK v \in Given(e) : v \notin Given(env)
    BY <2>1, <1>6
  <2>3. IsFiniteSet(Given(e)) /\ IsFiniteSet(Given(env))
    BY DetectedAreFew, FS_Subset DEF Given
  <2>4. Cardinality(Given(env) \cup {v}) = Cardinality(Given(env)) + 1
    BY <2>2, <2>3, FS_AddElement
  <2>5. Cardinality(Given(env) \cup {v}) <= Cardinality(Given(e))
    BY <2>1, <2>2, <2>3, FS_Subset
  <2>6. Cardinality(Given(env)) \in Nat /\ Cardinality(Given(e)) \in Nat
    BY <2>3, FS_CardinalityType
  <2> QED
    BY <1>1, <1>3, <1>6, <2>4, <2>5, <2>6 DEF SettleInv
<1> QED
  BY <1>4, <1>5, <1>6 DEF SettleInv

\* The invariant holds of every run, whatever the worlds.
LEMMA ConfigInductive == ConfigSpec => []ConfigInv
<1>1. ConfigInit => ConfigInv
  <2> SUFFICES ASSUME ConfigInit PROVE ConfigInv
    OBVIOUS
  <2>1. IsFiniteSet(Given(env))
    BY DetectedAreFew, FS_Subset DEF Given
  <2>2. Cardinality(Given(env)) \in Nat
    BY <2>1, FS_CardinalityType
  <2>3. SettleInv
    <3>1. loads = 0
      BY DEF ConfigInit
    <3> QED
      BY <2>2, <3>1 DEF SettleInv
  <2>4. Keeps(world.env, env)
    BY DEF ConfigInit, Keeps
  <2> QED
    BY <2>3, <2>4 DEF ConfigInit, ConfigInv
<1>2. ASSUME ConfigInv, LoadServiceConfig
      PROVE  ConfigInv'
  <2>1. Load(preloadServiceEnvFiles(env)) /\ Outcome(env)'
    BY <1>2, LoadEnds
  <2>2. SettleInv'
    BY <1>2, SettleKeeps DEF ConfigInv
  <2>3. Keeps(world.env, env)'
    BY <1>2, <2>1, PreloadKeeps DEF ConfigInv, Load, Keeps
  <2>4. file' = ConfigFile(env)'
    BY <2>1 DEF Load
  <2> QED
    BY <1>2, <2>1, <2>2, <2>3, <2>4 DEF ConfigInv, Load
<1>3. ASSUME ConfigInv, UNCHANGED configVars
      PROVE  ConfigInv'
  <2> USE <1>3 DEF configVars
  <2>1. preloadServiceEnvFiles(env)' = preloadServiceEnvFiles(env)
    BY DEF preloadServiceEnvFiles, Named, Said, Found
  <2>2. SettleInv <=> SettleInv'
    BY <2>1 DEF SettleInv
  <2>3. (Readable(env)' <=> Readable(env)) /\ Unmarshal(env)' = Unmarshal(env)
    BY DEF Readable, Unmarshal
  <2>4. Outcome(env)' <=> Outcome(env)
    BY <2>3 DEF Outcome
  <2> QED
    BY <2>2, <2>4 DEF ConfigInv
<1> QED
  BY <1>1, <1>2, <1>3, PTL DEF ConfigSpec

\* A variable the process has keeps its value through every load.
THEOREM GivenValuesStay == ConfigSpec => GivenStays
<1>1. [LoadServiceConfig]_configVars =>
        [\A v \in DOMAIN env : v \in DOMAIN env' /\ env'[v] = env[v]]_configVars
  BY LoadEnds, PreloadKeeps DEF Load, Keeps
<1> QED
  BY <1>1, PTL DEF ConfigSpec, GivenStays

\* After four loads no .env file adds anything, whatever the files say.
THEOREM LoadsSettleSoon == ConfigSpec => []LoadsSettle
<1>1. ASSUME ConfigInv PROVE LoadsSettle
  <2> SUFFICES ASSUME loads > 4, Cardinality(Given(env)) >= loads PROVE FALSE
    BY <1>1 DEF ConfigInv, SettleInv, LoadsSettle
  <2>1. /\ Cardinality(Given(env)) <= Cardinality(Entries(DetectOrder))
        /\ IsFiniteSet(Given(env))
    BY DetectedAreFew, FS_Subset DEF Given
  <2>2. Cardinality(Given(env)) \in Nat /\ Cardinality(Entries(DetectOrder)) \in Nat
    BY <2>1, DetectedAreFew, FS_CardinalityType
  <2> QED
    BY <1>1, <2>1, <2>2, DetectedAreFew DEF ConfigInv
<1> QED
  BY <1>1, ConfigInductive, PTL

\* From then on every load gives what the one before it gave.
THEOREM LaterLoadsAgree == ConfigSpec => ReloadsAgree
<1>1. ASSUME ConfigInv, LoadsSettle, LoadServiceConfig, loads > 4
      PROVE  UNCHANGED <<env, cfg, file, err>>
  <2>1. Load(env) /\ Outcome(env)'
    BY <1>1, LoadEnds DEF LoadsSettle
  <2>2. env' = env /\ world' = world /\ file' = ConfigFile(env)
    BY <2>1 DEF Load
  <2>3. file = ConfigFile(env) /\ Outcome(env)
    BY <1>1 DEF ConfigInv
  <2>4. (Readable(env)' <=> Readable(env)) /\ Unmarshal(env)' = Unmarshal(env)
    BY <2>2 DEF Readable, Unmarshal, ConfigFile
  <2>5. cfg' = cfg /\ err' = err
    BY <2>1, <2>3, <2>4 DEF Outcome
  <2> QED
    BY <2>2, <2>3, <2>5
<1>2. ConfigInv /\ LoadsSettle /\ [LoadServiceConfig]_configVars =>
        [loads > 4 => UNCHANGED <<env, cfg, file, err>>]_configVars
  BY <1>1
<1> QED
  BY <1>2, ConfigInductive, LoadsSettleSoon, PTL DEF ConfigSpec, ReloadsAgree

-----------------------------------------------------------------------------
(* Texts and settings. *)

\* Blanks around the name of an environment say nothing.
LEMMA TrimNames ==
  \A t : NormalizeServiceEnvironment(TrimSpace(t)) = NormalizeServiceEnvironment(t)
BY DEF NormalizeServiceEnvironment, TrimSpace

\* The exporter trims once more what Normalize has trimmed.
LEMMA TrimURLTwice == \A t : TrimURL(TrimURL(t)) = TrimURL(t)
BY DEF TrimURL, TrimSpace

\* A list of one name or of two.
LEMMA NamesLength ==
  /\ 1 \in Nat \ {0} /\ 2 \in Nat \ {0}
  /\ DOMAIN Names("app.env") = 1..1
  /\ DOMAIN Names("http.port") = 1..2
  /\ DOMAIN Names("auth.timeout") = 1..2
BY DEF Names

\* The three settings the theorems are about.
LEMMA ThreeAreSettings ==
  "app.env" \in Settings /\ "http.port" \in Settings /\ "auth.timeout" \in Settings
<1>1. "http.port" \in Always
  BY DEF Always
<1>2. "auth.timeout" \in FallsBack
  BY DEF FallsBack
<1>3. "app.env" \in Plain
  BY DEF Plain
<1> QED
  BY <1>1, <1>2, <1>3 DEF Settings

\* The head of a sequence is one of its entries.
LEMMA HeadIsEntry ==
  ASSUME NEW seq, NEW n \in Nat \ {0}, DOMAIN seq = 1..n
  PROVE  seq[1] \in Entries(seq)
<1>1. 1 \in DOMAIN seq
  OBVIOUS
<1> QED
  BY <1>1, Zenon DEF Entries

\* Of variables in an order, the first is taken when it has a text.
LEMMA FirstTaken ==
  ASSUME NEW e, NEW seq, NEW n \in Nat \ {0}, DOMAIN seq = 1..n, Getenv(e, seq[1]) # ""
  PROVE  /\ {v \in Entries(seq) : Getenv(e, v) # ""} # {}
         /\ FirstIn(seq, {v \in Entries(seq) : Getenv(e, v) # ""}) = seq[1]
<1>1. seq[1] \in {v \in Entries(seq) : Getenv(e, v) # ""}
  BY HeadIsEntry
<1> QED
  BY <1>1, FirstIsHead

\* A variable of a setting's first name is what viper takes for it.
LEMMA FirstNameWins ==
  ASSUME NEW e, NEW s \in Settings, NEW n \in Nat \ {0}, DOMAIN Names(s) = 1..n,
         Getenv(e, Names(s)[1]) # ""
  PROVE  Unmarshal(e)[s] = e[Names(s)[1]]
<1> DEFINE set == {v \in Entries(Names(s)) : Getenv(e, v) # ""}
           yaml == IF ConfigFile(e) \in DOMAIN world.yaml
                   THEN world.yaml[ConfigFile(e)] ELSE <<>>
<1>1. set # {} /\ FirstIn(Names(s), set) = Names(s)[1]
  BY FirstTaken
<1>2. Unmarshal(e)[s] =
        IF set # {} THEN e[FirstIn(Names(s), set)]
        ELSE IF s \in DOMAIN yaml THEN yaml[s] ELSE Default(s, serviceAppEnv(e))
  BY DEF Unmarshal
<1> HIDE DEF set, yaml
<1> QED
  BY <1>1, <1>2

\* Each setting is put in order in one way.
LEMMA KindsApart ==
  /\ URLs \cap (Paths \cup FallsBack \cup Identity) = {}
  /\ Paths \cap (FallsBack \cup Identity) = {}
  /\ FallsBack \cap Identity = {}
  /\ {"app.env", "app.name", "redpanda.client_id"}
       \cap (URLs \cup Paths \cup FallsBack \cup Identity) = {}
<1>1. Identity = {"verifier.issuer", "verifier.jwks_url", "verifier.audience",
                  "verifier.allowed_callers", "verifier.allowed_algorithms",
                  "client.token_url", "client.client_id", "client.client_secret"}
  <2>1. "verifier.enabled" \in Switches /\ "client.enabled" \in Switches
    BY DEF Switches
  <2>2. Required["verifier.enabled"] =
          {"verifier.issuer", "verifier.jwks_url", "verifier.audience",
           "verifier.allowed_callers", "verifier.allowed_algorithms"}
    BY <2>1 DEF Required
  <2>3. Required["client.enabled"] =
          {"client.token_url", "client.client_id", "client.client_secret"}
    BY <2>1 DEF Required
  <2> QED
    BY <2>2, <2>3 DEF Identity
<1>2. URLs \cap (Paths \cup FallsBack \cup Identity) = {}
  BY <1>1 DEF URLs, Paths, FallsBack
<1>3. Paths \cap (FallsBack \cup Identity) = {}
  BY <1>1 DEF Paths, FallsBack
<1>4. FallsBack \cap Identity = {}
  BY <1>1 DEF FallsBack
<1>5. {"app.env", "app.name", "redpanda.client_id"}
        \cap (URLs \cup Paths \cup FallsBack \cup Identity) = {}
  BY <1>1 DEF URLs, Paths, FallsBack
<1> QED
  BY <1>2, <1>3, <1>4, <1>5

\* What Normalize does to a setting, kind by kind.
LEMMA NormalizeByKind ==
  ASSUME NEW c, NEW s \in Settings
  PROVE  /\ s = "app.env" => Normalize(c)[s] = NormalizeServiceEnvironment(c[s])
         /\ s \in URLs => Normalize(c)[s] = TrimURL(c[s])
         /\ s \in Paths => Normalize(c)[s] = ensureLeadingSlash(TrimSpace(c[s]))
         /\ s \in FallsBack => Normalize(c)[s] = IF c[s] = "0" THEN "1" ELSE c[s]
         /\ s \in Identity => Normalize(c)[s] = c[s]
         /\ s = "redpanda.client_id" =>
              Normalize(c)[s] = IF TrimSpace(c[s]) = "" THEN TrimSpace(c["app.name"])
                                                         ELSE TrimSpace(c[s])
         /\ s \notin {"app.env", "redpanda.client_id"} \cup URLs \cup Paths
                        \cup FallsBack \cup Identity =>
              Normalize(c)[s] = TrimSpace(c[s])
<1>1. CASE s = "app.env"
  BY <1>1, KindsApart DEF Normalize
<1>2. CASE s \in URLs
  BY <1>2, KindsApart DEF Normalize
<1>3. CASE s \in Paths
  BY <1>3, KindsApart DEF Normalize
<1>4. CASE s \in FallsBack
  BY <1>4, KindsApart DEF Normalize
<1>5. CASE s \in Identity
  BY <1>5, KindsApart DEF Normalize
<1>6. CASE s = "redpanda.client_id"
  BY <1>6, KindsApart DEF Normalize
<1>7. CASE s \notin {"app.env", "redpanda.client_id"} \cup URLs \cup Paths
                       \cup FallsBack \cup Identity
  BY <1>7 DEF Normalize
<1> QED
  BY <1>1, <1>2, <1>3, <1>4, <1>5, <1>6, <1>7

\* Three settings after Normalize.
LEMMA NormalizedSettings ==
  ASSUME NEW c
  PROVE  /\ Normalize(c)["app.env"] = NormalizeServiceEnvironment(c["app.env"])
         /\ Normalize(c)["http.port"] = TrimSpace(c["http.port"])
         /\ Normalize(c)["auth.timeout"] =
              IF c["auth.timeout"] = "0" THEN "1" ELSE c["auth.timeout"]
<1>1. "auth.timeout" \in FallsBack
  BY DEF FallsBack
<1>2. "http.port" \notin URLs \cup Paths \cup FallsBack \cup Identity
  <2>1. "http.port" \notin Identity
    <3>1. "verifier.enabled" \in Switches /\ "client.enabled" \in Switches
      BY DEF Switches
    <3> QED
      BY <3>1 DEF Identity, Required
  <2> QED
    BY <2>1 DEF URLs, Paths, FallsBack
<1> QED
  BY <1>1, <1>2, ThreeAreSettings, NormalizeByKind

\* The YAML file that was read and the name the service bears are those of the
\* environment's APP_ENV.
THEOREM FileAndNameAreOne == ConfigSpec => []FileAndNameAgree
<1>1. ASSUME ConfigInv, loads > 0, NotBlank(env, "APP_ENV"), ~NotBlank(env, "CONFIG_PATH")
      PROVE  /\ file = NormalizeServiceEnvironment(env["APP_ENV"])
             /\ cfg # <<>> => cfg["app.env"] = file
  <2>1. "APP_ENV" \in Given(env)
    <3>1. 1 \in DOMAIN DetectOrder /\ DetectOrder[1] = "APP_ENV"
      BY DEF DetectOrder
    <3> QED
      BY <1>1, <3>1, Zenon DEF Given, Entries
  <2>2. FirstIn(DetectOrder, Given(env)) = "APP_ENV"
    <3>1. DOMAIN DetectOrder = 1..4 /\ DetectOrder[1] = "APP_ENV"
      BY DEF DetectOrder
    <3>2. 4 \in Nat \ {0}
      OBVIOUS
    <3> QED
      BY <2>1, <3>1, <3>2, FirstIsHead
  <2>3. detectServiceAppEnv(env) = TrimSpace(env["APP_ENV"])
    BY <2>1, <2>2 DEF detectServiceAppEnv
  <2>4. file = NormalizeServiceEnvironment(env["APP_ENV"])
    BY <1>1, <2>3, TrimNames DEF ConfigInv, ConfigFile, serviceAppEnv
  <2>5. ASSUME cfg # <<>> PROVE cfg["app.env"] = file
    <3>1. cfg = Normalize(Unmarshal(env))
      BY <1>1, <2>5 DEF ConfigInv, Outcome
    <3>2. Names("app.env")[1] = "APP_ENV"
      BY DEF Names
    <3>3. Getenv(env, "APP_ENV") # ""
      BY <1>1 DEF NotBlank, TrimSpace
    <3>4. Unmarshal(env)["app.env"] = env["APP_ENV"]
      BY <3>2, <3>3, NamesLength, ThreeAreSettings, FirstNameWins
    <3> QED
      BY <3>1, <3>4, <2>4, NormalizedSettings
  <2> QED
    BY <2>4, <2>5
<1>2. ConfigInv => FileAndNameAgree
  BY <1>1 DEF FileAndNameAgree
<1> QED
  BY <1>2, ConfigInductive, PTL

\* What the process was started with under a setting's own name is what the
\* configuration has, whatever the files and the other name of it say.
THEOREM OwnNameWins == ConfigSpec => []GivenSettingWins
<1>1. ASSUME ConfigInv, cfg # <<>>
      PROVE  GivenSettingWins
  <2>1. cfg = Normalize(Unmarshal(env))
    BY <1>1 DEF ConfigInv, Outcome
  <2>2. Names("http.port")[1] = "HTTP_PORT" /\ Names("auth.timeout")[1] = "AUTH_TIMEOUT"
    BY DEF Names
  <2>3. ASSUME NEW v, Getenv(world.env, v) # ""
        PROVE  Getenv(env, v) # "" /\ env[v] = world.env[v]
    BY <1>1, <2>3 DEF ConfigInv, Keeps, Getenv
  <2>4. ASSUME Getenv(world.env, "HTTP_PORT") # ""
        PROVE  cfg["http.port"] = TrimSpace(world.env["HTTP_PORT"])
    <3>1. Getenv(env, "HTTP_PORT") # "" /\ env["HTTP_PORT"] = world.env["HTTP_PORT"]
      BY <2>3, <2>4
    <3>2. Unmarshal(env)["http.port"] = env["HTTP_PORT"]
      BY <3>1, <2>2, NamesLength, ThreeAreSettings, FirstNameWins
    <3> QED
      BY <2>1, <3>1, <3>2, NormalizedSettings
  <2>5. ASSUME Getenv(world.env, "AUTH_TIMEOUT") \in {"1", "70000"}
        PROVE  cfg["auth.timeout"] = world.env["AUTH_TIMEOUT"]
    <3>1. /\ Getenv(env, "AUTH_TIMEOUT") # ""
          /\ env["AUTH_TIMEOUT"] = world.env["AUTH_TIMEOUT"]
      BY <2>3, <2>5
    <3>2. Unmarshal(env)["auth.timeout"] = env["AUTH_TIMEOUT"]
      BY <3>1, <2>2, NamesLength, ThreeAreSettings, FirstNameWins
    <3>3. world.env["AUTH_TIMEOUT"] # "0"
      BY <2>5 DEF Getenv
    <3> QED
      BY <2>1, <3>1, <3>2, <3>3, NormalizedSettings
  <2> QED
    BY <2>4, <2>5 DEF GivenSettingWins
<1>2. ConfigInv => GivenSettingWins
  BY <1>1 DEF GivenSettingWins
<1> QED
  BY <1>2, ConfigInductive, PTL

-----------------------------------------------------------------------------
(* What validation promises the constructors. *)

\* What a validated section has is not blank.
LEMMA NotMissing ==
  ASSUME NEW c, NEW w \in Switches, NEW s \in Required[w], Validate(c), c[w] = "true"
  PROVE  ~Missing(c, s) /\ TrimSpace(c[s]) # "" /\ c[s] # ""
<1>1. ~Missing(c, s)
  BY DEF Validate
<1>2. TrimSpace(c[s]) # ""
  BY <1>1 DEF Missing
<1> QED
  BY <1>1, <1>2 DEF TrimSpace

\* Normalize leaves the endpoint of OpenSearch as its exporter trims it.
LEMMA EndpointIsTrimmed ==
  ASSUME NEW c
  PROVE  Normalize(c)["opensearch.endpoint"] = TrimURL(c["opensearch.endpoint"])
<1>1. "opensearch.endpoint" \in Settings
  <2>1. "opensearch.enabled" \in Switches
    BY DEF Switches
  <2>2. "opensearch.endpoint" \in Required["opensearch.enabled"]
    BY <2>1 DEF Required
  <2>3. "opensearch.endpoint" \in Wanted
    BY <2>1, <2>2 DEF Wanted
  <2> QED
    BY <2>3 DEF Settings
<1>2. "opensearch.endpoint" \in URLs
  BY DEF URLs
<1> QED
  BY <1>1, <1>2, NormalizeByKind

\* Section by section, what Validate asks is what the constructor asks.
LEMMA ValidatedStarts ==
  ASSUME NEW c, Validate(Normalize(c)), Normalize(c)["logger.level"] # "bad",
         NEW w \in Switches, Normalize(c)[w] = "true"
  PROVE  Starts(Normalize(c), w)
<1> DEFINE n == Normalize(c)
<1>0. TrimURL(n["opensearch.endpoint"]) = n["opensearch.endpoint"]
  BY EndpointIsTrimmed, TrimURLTwice
<1> HIDE DEF n
<1>n. Validate(n) /\ n["logger.level"] # "bad" /\ n[w] = "true"
  BY DEF n
<1>1. CASE w = "opensearch.enabled"
  <2>1. /\ "opensearch.endpoint" \in Required[w]
        /\ "opensearch.index" \in Required[w]
    BY <1>1 DEF Required
  <2>2. n["opensearch.endpoint"] # "" /\ TrimSpace(n["opensearch.index"]) # ""
    BY <1>n, <2>1, NotMissing
  <2>3. n["opensearch.endpoint"] # "bad"
    BY <1>n, <1>1 DEF Validate
  <2> QED
    BY <1>0, <1>1, <1>n, <2>2, <2>3 DEF Starts, n
<1>2. CASE w = "metrics.enabled"
  <2>1. /\ "metrics.bind_address" \in Required[w]
        /\ "metrics.handler_path" \in Required[w]
    BY <1>2 DEF Required
  <2>2. /\ TrimSpace(n["metrics.bind_address"]) # ""
        /\ TrimSpace(n["metrics.handler_path"]) # ""
    BY <1>n, <2>1, NotMissing
  <2> QED
    BY <1>2, <2>2 DEF Starts, n
<1>3. CASE w = "verifier.enabled"
  <2>1. Required[w] = {"verifier.issuer", "verifier.jwks_url", "verifier.audience",
                       "verifier.allowed_callers", "verifier.allowed_algorithms"}
    BY <1>3 DEF Required
  <2>2. \A s \in Required[w] : ~Missing(n, s) /\ TrimSpace(n[s]) # ""
    BY <1>n, NotMissing
  <2> QED
    BY <1>3, <2>1, <2>2 DEF Starts, n
<1>4. CASE w = "client.enabled"
  <2>1. Required[w] = {"client.token_url", "client.client_id", "client.client_secret"}
    BY <1>4 DEF Required
  <2>2. \A s \in Required[w] : TrimSpace(n[s]) # "" /\ n[s] # ""
    BY <1>n, NotMissing
  <2> QED
    BY <1>4, <2>1, <2>2 DEF Starts, n
<1>5. CASE w = "redpanda.enabled"
  <2>1. "redpanda.brokers" \in Required[w]
    BY <1>5 DEF Required
  <2>2. ~Missing(n, "redpanda.brokers")
    BY <1>n, <2>1, NotMissing
  <2> QED
    BY <1>5, <2>2 DEF Starts, n
<1>6. CASE w \notin {"opensearch.enabled", "metrics.enabled", "verifier.enabled",
                    "client.enabled", "redpanda.enabled"}
  BY <1>6 DEF Starts
<1> QED
  BY <1>1, <1>2, <1>3, <1>4, <1>5, <1>6

\* A configuration that is accepted is one that starts, whatever was set where.
THEOREM AcceptedConfigStarts == ConfigSpec => []AcceptedStarts
<1>1. ASSUME ConfigInv, cfg # <<>>, cfg["logger.level"] # "bad",
             NEW w \in Switches, cfg[w] = "true"
      PROVE  Starts(cfg, w)
  <2>1. cfg = Normalize(Unmarshal(env)) /\ Validate(Normalize(Unmarshal(env)))
    BY <1>1 DEF ConfigInv, Outcome
  <2> QED
    BY <1>1, <2>1, ValidatedStarts
<1>2. ConfigInv => AcceptedStarts
  BY <1>1 DEF AcceptedStarts
<1> QED
  BY <1>2, ConfigInductive, PTL

=============================================================================
