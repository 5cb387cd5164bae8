---------------------------- MODULE ServiceStart ----------------------------
(***************************************************************************)
(* Replicas of a service built from the kit that start and stop against    *)
(* one database: the constructors of the telemetry providers, the Redis    *)
(* client (pkg/db/redis/redis.go) and the Postgres client, and the hooks   *)
(* they leave with fx.                                                     *)
(*                                                                         *)
(* fx is outside the code, modelled as it is used: an application whose    *)
(* constructor fails does not start and stops nothing; a stop runs the     *)
(* hooks from the last to the first, goes on after an error, and returns   *)
(* at its deadline, whatever is left.  The application ends the telemetry  *)
(* providers itself, after fx.                                             *)
(***************************************************************************)
EXTENDS PostgresClient, TelemetryProviders, Sequences

CONSTANTS
  Parts,        \* which of "telemetry" and "redis" a replica has
  MaxRestarts   \* bound on Restart

VARIABLES
  redis,     \* none, open, closed
  hooks,     \* left with fx, the first one first
  app,       \* building, failed, started, stopping, troubled (stopping, with
             \* an error), and what the stop returned: nil, error
  lent,      \* a request holds a connection of the pool
  restarts

ASSUME StartAssumption ==
  /\ Processes = Replicas
  /\ Migrates \subseteq Replicas
  /\ Parts \in [Replicas -> SUBSET {"telemetry", "redis"}]
  /\ MaxRestarts \in Nat

fxVars == <<hooks, app>>
vars == <<migratorVars, clientVars, telemetryVars, fxVars, redis, lent, restarts>>

TypeOK ==
  /\ MigratorTypeOK /\ ClientTypeOK /\ TelemetryTypeOK
  /\ redis \in [Replicas -> {"none", "open", "closed"}]
  /\ hooks \in [Replicas -> Seq({"redis", "postgres"})]
  /\ app \in [Replicas -> {"building", "failed", "started", "stopping",
                           "troubled", "nil", "error"}]
  /\ lent \in [Replicas -> BOOLEAN]
  /\ restarts \in 0..MaxRestarts

Init ==
  /\ MigratorInit /\ ClientInit /\ TelemetryInit
  /\ redis = [r \in Replicas |-> "none"]
  /\ hooks = [r \in Replicas |-> <<>>]
  /\ app = [r \in Replicas |-> "building"]
  /\ lent = [r \in Replicas |-> FALSE]
  /\ restarts = 0

-----------------------------------------------------------------------------
(* Constructors run one after the other, in the order the application has. *)

Constructs(r) == app[r] = "building" /\ client[r] \in {"none", "ready"}

BuildFails(r) == app' = [app EXCEPT ![r] = "failed"]

AppendHook(r, hook) == hooks' = [hooks EXCEPT ![r] = Append(@, hook)]

BuildTelemetry(r) ==
  /\ Constructs(r) /\ "telemetry" \in Parts[r]
  /\ \/ NewProviders(r) /\ UNCHANGED app
     \/ NewProvidersFails(r) /\ BuildFails(r)
  /\ UNCHANGED <<migratorVars, clientVars, hooks, redis, lent, restarts>>

\* Only an open breaker keeps NewRedisClient from its client.
NewRedisClient(r) ==
  /\ Constructs(r) /\ "redis" \in Parts[r] /\ redis[r] = "none"
  /\ \/ /\ redis' = [redis EXCEPT ![r] = "open"]
        /\ AppendHook(r, "redis")
        /\ UNCHANGED app
     \/ BuildFails(r) /\ UNCHANGED <<redis, hooks>>
  /\ UNCHANGED <<migratorVars, clientVars, telemetryVars, lent, restarts>>

BuildPostgres(r) ==
  /\ Constructs(r)
  /\ \/ Connect(r) /\ AppendHook(r, "postgres") /\ UNCHANGED app
     \/ ConnectFails(r) /\ BuildFails(r) /\ UNCHANGED hooks
  /\ UNCHANGED <<telemetryVars, redis, lent, restarts>>

PostgresGoesOn(r) ==
  /\ app[r] = "building"
  /\ NewPostgresClient(r)
  /\ IF client'[r] = "failed" THEN BuildFails(r) ELSE UNCHANGED app
  /\ UNCHANGED <<telemetryVars, hooks, redis, lent, restarts>>

-----------------------------------------------------------------------------
(* Start and stop. *)

Start(r) ==
  /\ app[r] = "building" /\ client[r] = "ready"
  /\ app' = [app EXCEPT ![r] = "started"]
  /\ UNCHANGED <<migratorVars, clientVars, telemetryVars, hooks, redis, lent,
                 restarts>>

\* A request takes a connection from the pool, or puts it back.
Lend(r) ==
  /\ \/ ~lent[r] /\ pool[r] = "open" /\ app[r] \notin {"building", "failed"}
     \/ lent[r]
  /\ lent' = [lent EXCEPT ![r] = ~@]
  /\ UNCHANGED <<migratorVars, clientVars, telemetryVars, fxVars, redis,
                 restarts>>

Stop(r) ==
  /\ app[r] = "started"
  /\ app' = [app EXCEPT ![r] = "stopping"]
  /\ UNCHANGED <<migratorVars, clientVars, telemetryVars, hooks, redis, lent,
                 restarts>>

Stopping(r) == app[r] \in {"stopping", "troubled"}

LastHook(r, hook) == hooks[r] # <<>> /\ hooks[r][Len(hooks[r])] = hook

HookEnds(r) ==
  hooks' = [hooks EXCEPT ![r] = SubSeq(@, 1, Len(@) - 1)]

StopRedis(r) ==
  /\ Stopping(r) /\ LastHook(r, "redis")
  /\ redis' = [redis EXCEPT ![r] = "closed"]
  /\ HookEnds(r)
  /\ app' \in {app, [app EXCEPT ![r] = "troubled"]}
  /\ UNCHANGED <<migratorVars, clientVars, telemetryVars, lent, restarts>>

\* Close lends no more connections and waits for those that are lent, without
\* regard to the context of the hook.
StopPostgres(r) ==
  /\ Stopping(r) /\ LastHook(r, "postgres") /\ pool[r] = "open"
  /\ pool' = [pool EXCEPT ![r] = "closing"]
  /\ UNCHANGED <<migratorVars, client, telemetryVars, fxVars, redis, lent,
                 restarts>>

PoolCloses(r) ==
  /\ pool[r] = "closing" /\ ~lent[r]
  /\ pool' = [pool EXCEPT ![r] = "closed"]
  /\ IF Stopping(r) THEN HookEnds(r) ELSE UNCHANGED hooks
  /\ UNCHANGED <<migratorVars, client, telemetryVars, app, redis, lent,
                 restarts>>

StopEnds(r) ==
  /\ Stopping(r) /\ hooks[r] = <<>>
  /\ app' = [app EXCEPT ![r] = IF @ = "stopping" THEN "nil" ELSE "error"]
  /\ UNCHANGED <<migratorVars, clientVars, telemetryVars, hooks, redis, lent,
                 restarts>>

StopExpires(r) ==
  /\ Stopping(r) /\ hooks[r] # <<>>
  /\ app' = [app EXCEPT ![r] = "error"]
  /\ UNCHANGED <<migratorVars, clientVars, telemetryVars, hooks, redis, lent,
                 restarts>>

EndTelemetry(r) ==
  /\ \/ app[r] \in {"nil", "error", "failed"} /\ ShutdownMeter(r)
     \/ ShutdownTracer(r)
     \/ TracerEnds(r)
  /\ UNCHANGED <<migratorVars, clientVars, fxVars, redis, lent, restarts>>

\* The process ends, at any moment, and another one takes its place.
Restart(r) ==
  /\ restarts < MaxRestarts
  /\ restarts' = restarts + 1
  /\ Disconnect(r)
  /\ client' = [client EXCEPT ![r] = "none"]
  /\ pool' = [pool EXCEPT ![r] = "none"]
  /\ tracer' = [tracer EXCEPT ![r] = "none"]
  /\ meter' = [meter EXCEPT ![r] = "none"]
  /\ told' = [told EXCEPT ![r] = "none"]
  /\ redis' = [redis EXCEPT ![r] = "none"]
  /\ hooks' = [hooks EXCEPT ![r] = <<>>]
  /\ app' = [app EXCEPT ![r] = "building"]
  /\ lent' = [lent EXCEPT ![r] = FALSE]

\* An operator's process that calls Down.
Operate(c) ==
  /\ CallDown(c) \/ Migrate(c)
  /\ UNCHANGED <<clientVars, telemetryVars, fxVars, redis, lent, restarts>>

Next ==
  \/ \E r \in Replicas :
       \/ BuildTelemetry(r) \/ NewRedisClient(r)
       \/ BuildPostgres(r) \/ PostgresGoesOn(r)
       \/ Start(r) \/ Lend(r) \/ Stop(r)
       \/ StopRedis(r) \/ StopPostgres(r) \/ PoolCloses(r)
       \/ StopEnds(r) \/ StopExpires(r) \/ EndTelemetry(r)
       \/ Restart(r)
  \/ \E c \in Rollbacks : Operate(c)

Fairness == \A r \in Replicas : WF_vars(PostgresGoesOn(r))

Spec == Init /\ [][Next]_vars /\ Fairness

-----------------------------------------------------------------------------
(* Properties. *)

\* Whatever others migrate or roll back meanwhile, and whoever crashes in the
\* middle: the version a call of Up or Down is about to run is the one the
\* database needs next, so none runs twice, is skipped or removed in its place.
MigrationsAreSerial ==
  \A c \in Callers : phase[c] = "run" =>
    next[c] = IF c \in Upgrades THEN version + 1 ELSE version

\* A replica that migrates has its client only when the database has every
\* version, unless somebody rolled one back, whether it ran them itself, found
\* them there, or failed and repeated a part.
MigratedWhenReady ==
  \A r \in Migrates : client[r] = "ready" /\ ~rolledBack => version = Last

\* No connection outlives the code that would close it: a constructor that
\* failed leaves no pool, and a stop that returned nil leaves no pool and no
\* Redis client, although requests may hold connections when it begins.
NothingStaysOpen ==
  \A r \in Replicas :
    /\ client[r] = "failed" => pool[r] \in {"none", "closed"}
    /\ app[r] = "nil" => pool[r] = "closed" /\ redis[r] # "open" /\ ~lent[r]

\* A meter that cannot export does not keep the tracer from being ended: both
\* are when Shutdown returns, and its nil says that neither reported an error
\* and nothing exports in the background.  Of the spans it says nothing.
TelemetryEnds ==
  \A r \in Replicas :
    /\ told[r] # "none" => "on" \notin {tracer[r], meter[r]}
    /\ told[r] = "nil" => meter[r] = "ended" /\ tracer[r] # "ending"

\* NewPostgresClient returns, whoever holds the lock of the database.
ClientReturns ==
  \A r \in Replicas :
    client[r] \in {"first", "schema", "second"}
      ~> client[r] \in {"none", "ready", "failed"}
=============================================================================
