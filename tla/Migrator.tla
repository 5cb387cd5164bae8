------------------------------ MODULE Migrator ------------------------------
(***************************************************************************)
(* pkg/migrator/migrator.go: processes that migrate one database up or     *)
(* down, each behind a ping that retries and the database's session lock.  *)
(*                                                                         *)
(* goose is outside the code, modelled as it is used here.  Up looks       *)
(* first, without the lock, whether anything is to be done.  Behind the    *)
(* lock it reads what is applied and runs what is missing, one version     *)
(* after the other.  Nothing works without the schema the connections      *)
(* search.  The lock goes with the session that holds it.                  *)
(***************************************************************************)
EXTENDS Integers

CONSTANTS
  Upgrades,   \* the processes that call Up
  Rollbacks,  \* those that call Down
  Last,       \* the newest version among the files
  NoOne

Callers == Upgrades \cup Rollbacks

ASSUME MigratorAssumption ==
  Last \in Nat /\ Upgrades \cap Rollbacks = {} /\ NoOne \notin Callers

VARIABLES
  phase,       \* of the call: pinging, at the lock, running, or its result
  next,        \* the version a running call applies or removes next
  schema,      \* the schema exists
  version,     \* versions 1..version are applied
  lock,        \* who holds the session lock
  rolledBack   \* a Down removed a version

database == <<schema, version, lock, rolledBack>>
migratorVars == <<phase, next, database>>

MigratorTypeOK ==
  /\ phase \in [Callers -> {"none", "ping", "lock", "run", "nil", "error"}]
  /\ next \in [Callers -> 0 .. Last + 1]
  /\ schema \in BOOLEAN
  /\ version \in 0..Last
  /\ lock \in Callers \cup {NoOne}
  /\ rolledBack \in BOOLEAN

MigratorInit ==
  /\ phase = [c \in Callers |-> "none"]
  /\ next = [c \in Callers |-> 0]
  /\ schema \in BOOLEAN
  /\ version \in 0..Last
  /\ schema \/ version = 0
  /\ lock = NoOne
  /\ rolledBack = FALSE

Goes(c, p) == phase' = [phase EXCEPT ![c] = p]

\* The database answers before the retries are over, there are migrations
\* among the files, and goose looks.
Look(c) ==
  /\ phase[c] = "ping"
  /\ Last > 0
  /\ IF c \in Upgrades /\ ~schema THEN Goes(c, "error")
     ELSE IF c \in Upgrades /\ version = Last THEN Goes(c, "nil")
     ELSE Goes(c, "lock")
  /\ UNCHANGED <<next, database>>

\* The ping's retries are over, goose finds no migrations, or the lock's are.
GiveUp(c) ==
  /\ phase[c] \in {"ping", "lock"}
  /\ Goes(c, "error")
  /\ UNCHANGED <<next, database>>

\* Mutant of TakeLock: the provider has no session locker.
TakeNoLock(c) ==
  /\ phase[c] = "lock"
  /\ schema
  /\ Goes(c, "run")
  /\ next' = [next EXCEPT ![c] = IF c \in Upgrades THEN version + 1 ELSE version]
  /\ UNCHANGED database

TakeLock(c) ==
  /\ phase[c] = "lock"
  /\ lock = NoOne
  /\ IF schema
       THEN /\ Goes(c, "run")
            /\ lock' = c
            /\ next' = [next EXCEPT ![c] = IF c \in Upgrades THEN version + 1
                                                              ELSE version]
       ELSE Goes(c, "error") /\ UNCHANGED <<lock, next>>
  /\ UNCHANGED <<schema, version, rolledBack>>

Unlocked(c) == IF lock = c THEN NoOne ELSE lock

Apply(c) ==
  /\ c \in Upgrades /\ phase[c] = "run"
  /\ next[c] <= Last
  /\ version' = next[c]
  /\ next' = [next EXCEPT ![c] = @ + 1]
  /\ UNCHANGED <<phase, schema, lock, rolledBack>>

\* Down removes one version, and where none is there is nil, too.
Remove(c) ==
  /\ c \in Rollbacks /\ phase[c] = "run"
  /\ IF next[c] > 0 THEN version' = next[c] - 1 /\ rolledBack' = TRUE
                    ELSE UNCHANGED <<version, rolledBack>>
  /\ Goes(c, "nil")
  /\ lock' = Unlocked(c)
  /\ UNCHANGED <<next, schema>>

UpEnds(c) ==
  /\ c \in Upgrades /\ phase[c] = "run"
  /\ next[c] > Last
  /\ Goes(c, "nil")
  /\ lock' = Unlocked(c)
  /\ UNCHANGED <<next, schema, version, rolledBack>>

\* A migration fails, and what it did is undone; or the session is lost.
RunFails(c) ==
  /\ phase[c] = "run"
  /\ Goes(c, "error")
  /\ lock' = Unlocked(c)
  /\ UNCHANGED <<next, schema, version, rolledBack>>

Migrate(c) ==
  \/ Look(c) \/ GiveUp(c) \/ TakeLock(c)
  \/ Apply(c) \/ Remove(c) \/ UpEnds(c) \/ RunFails(c)

\* An operator has a version removed.
CallDown(c) ==
  /\ c \in Rollbacks /\ phase[c] = "none"
  /\ Goes(c, "ping")
  /\ UNCHANGED <<next, database>>

\* The process ends, and its session with it.
Disconnect(c) ==
  /\ Goes(c, "none")
  /\ lock' = Unlocked(c)
  /\ UNCHANGED <<next, schema, version, rolledBack>>
=============================================================================
