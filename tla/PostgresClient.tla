--------------------------- MODULE PostgresClient ---------------------------
(***************************************************************************)
(* pkg/db/postgres/postgres.go: NewPostgresClient in the replicas of a     *)
(* service that start against one database.  The replicas that migrate do  *)
(* so from the pool they open, and once more behind CREATE SCHEMA when     *)
(* that fails.                                                             *)
(***************************************************************************)
EXTENDS Migrator

CONSTANT Migrates  \* the replicas with migrations enabled

Replicas == Upgrades

VARIABLES
  client,  \* where NewPostgresClient is, or what it returned
  pool     \* none, open, closing (connections are lent), closed

clientVars == <<client, pool>>

ClientTypeOK ==
  /\ client \in [Replicas ->
       {"none", "first", "schema", "second", "ready", "failed"}]
  /\ pool \in [Replicas -> {"none", "open", "closing", "closed"}]

ClientInit ==
  /\ client = [r \in Replicas |-> "none"]
  /\ pool = [r \in Replicas |-> "none"]

Fail(r) ==
  /\ client' = [client EXCEPT ![r] = "failed"]
  /\ pool' = [pool EXCEPT ![r] = "closed"]

\* The breaker is open, the configuration wrong or the database silent.
ConnectFails(r) ==
  /\ client[r] = "none"
  /\ client' = [client EXCEPT ![r] = "failed"]
  /\ UNCHANGED <<pool, migratorVars>>

Connect(r) ==
  /\ client[r] = "none"
  /\ pool' = [pool EXCEPT ![r] = "open"]
  /\ IF r \in Migrates
       THEN client' = [client EXCEPT ![r] = "first"] /\ Goes(r, "ping")
       ELSE client' = [client EXCEPT ![r] = "ready"] /\ UNCHANGED phase
  /\ UNCHANGED <<next, database>>

Migrated(r) ==
  /\ client[r] \in {"first", "second"}
  /\ phase[r] = "nil"
  /\ client' = [client EXCEPT ![r] = "ready"]
  /\ UNCHANGED <<pool, migratorVars>>

FirstFails(r) ==
  /\ client[r] = "first"
  /\ phase[r] = "error"
  /\ client' = [client EXCEPT ![r] = "schema"]
  /\ UNCHANGED <<pool, migratorVars>>

\* Mutant of CreateSchema: the migration is tried like the first time.
CreateSchemaAgain(r) ==
  /\ client[r] = "schema"
  /\ \/ /\ schema' = TRUE
        /\ client' = [client EXCEPT ![r] = "first"]
        /\ Goes(r, "ping")
        /\ UNCHANGED pool
     \/ Fail(r) /\ UNCHANGED <<phase, schema>>
  /\ UNCHANGED <<next, version, lock, rolledBack>>

\* Mutant of CreateSchema: its error returns with the pool open.
CreateSchemaLeaks(r) ==
  /\ client[r] = "schema"
  /\ \/ /\ schema' = TRUE
        /\ client' = [client EXCEPT ![r] = "second"]
        /\ Goes(r, "ping")
     \/ /\ client' = [client EXCEPT ![r] = "failed"]
        /\ UNCHANGED <<phase, schema>>
  /\ UNCHANGED <<pool, next, version, lock, rolledBack>>

CreateSchema(r) ==
  /\ client[r] = "schema"
  /\ \/ /\ schema' = TRUE
        /\ client' = [client EXCEPT ![r] = "second"]
        /\ Goes(r, "ping")
        /\ UNCHANGED pool
     \/ Fail(r) /\ UNCHANGED <<phase, schema>>
  /\ UNCHANGED <<next, version, lock, rolledBack>>

\* Mutant of SecondFails: its error is lost as the first one's is.
SecondIgnored(r) ==
  /\ client[r] = "second"
  /\ phase[r] = "error"
  /\ client' = [client EXCEPT ![r] = "ready"]
  /\ UNCHANGED <<pool, migratorVars>>

SecondFails(r) ==
  /\ client[r] = "second"
  /\ phase[r] = "error"
  /\ Fail(r)
  /\ UNCHANGED migratorVars

NewPostgresClient(r) ==
  \/ Migrated(r) \/ FirstFails(r) \/ CreateSchema(r) \/ SecondFails(r)
  \/ Migrate(r) /\ UNCHANGED clientVars
=============================================================================
