----------------------------- MODULE Migration -----------------------------
(***************************************************************************)
(* `kollega migrate`: run_migrations then set_app_role_password of         *)
(* kollega-store/src/lib.rs, by several instances at once, as in a         *)
(* redeployment, on whatever database they find: it outlives the binary.   *)
(*                                                                         *)
(* An advisory lock is held by whoever is between two labels; PostgreSQL   *)
(* frees it with the session or the transaction that took it.  ALTER ROLE  *)
(* reads the row of the role, then updates it: the update fails with       *)
(* "tuple concurrently updated" when another one was committed since.      *)
(***************************************************************************)
EXTENDS Integers, FiniteSets, Sequences

CONSTANTS
  Latest,         \* the last migration of the binary
  Tables,         \* the one that creates the tables of the tasks, the credits and the chain
  Key,            \* the one that adds a key to the chain
  Secret,         \* KOLLEGA_APP_DB_PASSWORD of each instance, None when it is not set
  Passwords,      \* what kollega_app may have for a password before them
  None,           \* Option::None
  MaxAccidents    \* bound: processes stopped and connections lost

\* Instances of kollega migrate, in the order in which they begin.
Migrators == DOMAIN Secret

ASSUME MigrationAssumption ==
  /\ Migrators = 1 .. Len(Secret)
  /\ Latest \in Nat
  /\ Tables \in 1 .. Latest
  /\ Key \in Tables + 1 .. Latest
  /\ MaxAccidents \in Nat

VARIABLES
  applied,     \* migrations committed
  doubled,     \* the chain holds rows that break its key to come
  role,        \* kollega_app: its password, and how often it was altered
  step,        \* where each instance is
  seen,        \* the version of the role its ALTER ROLE read
  accidents

migration == <<applied, doubled, role, step, seen>>

\* A volume of compose.yaml: empty, or as an earlier binary left it.  The role
\* belongs to the cluster: it may have a password whatever the schema.  Before
\* its key, the chain may have got two attestations of one call.
InitMigration ==
  /\ applied \in 0 .. Latest
  /\ doubled \in BOOLEAN
  /\ doubled => applied \in Tables .. Key - 1
  /\ role \in [password : Passwords, version : {0}]
  /\ step = [m \in Migrators |-> "absent"]
  /\ seen = [m \in Migrators |-> 0]

Goes(m, label) == step' = [step EXCEPT ![m] = label]

Holds(label) == {m \in Migrators : step[m] = label}

-----------------------------------------------------------------------------
\* run_migrations, by sqlx: the lock of the session, the missing migrations in
\* their order, each in its transaction, then the lock is given back.
LockSchema(m) ==
  /\ step[m] = "absent"
  /\ \A earlier \in 1 .. m - 1 : step[earlier] # "absent"
  /\ Holds("migrating") = {}
  /\ Goes(m, "migrating")
  /\ UNCHANGED <<applied, doubled, role, seen, accidents>>

\* The next migration is the key, and the rows break it.
Refused == doubled /\ applied + 1 = Key

Apply(m) ==
  /\ step[m] = "migrating"
  /\ applied < Latest
  /\ ~Refused
  /\ applied' = applied + 1
  /\ UNCHANGED <<doubled, role, step, seen, accidents>>

\* Mutated: the error of run_migrations is not an end.
RefuseAndGoOn(m) ==
  /\ step[m] = "migrating"
  /\ Refused
  /\ Goes(m, "migrated")
  /\ UNCHANGED <<applied, doubled, role, seen, accidents>>

\* A key that the rows break: the instance ends in error, the role untouched.
Refuse(m) ==
  /\ step[m] = "migrating"
  /\ Refused
  /\ Goes(m, "refused")
  /\ UNCHANGED <<applied, doubled, role, seen, accidents>>

Migrated(m) ==
  /\ step[m] = "migrating"
  /\ applied = Latest
  /\ Goes(m, IF Secret[m] = None THEN "done" ELSE "migrated")
  /\ UNCHANGED <<applied, doubled, role, seen, accidents>>

\* Mutated: no lock before ALTER ROLE.
AlterRoleUnlocked(m) ==
  /\ step[m] = "migrated"
  /\ seen' = [seen EXCEPT ![m] = role.version]
  /\ Goes(m, "altering")
  /\ UNCHANGED <<applied, doubled, role, accidents>>

\* set_app_role_password: pg_advisory_xact_lock, then ALTER ROLE finds the row.
AlterRole(m) ==
  /\ step[m] = "migrated"
  /\ Holds("altering") = {}
  /\ seen' = [seen EXCEPT ![m] = role.version]
  /\ Goes(m, "altering")
  /\ UNCHANGED <<applied, doubled, role, accidents>>

\* The update and its commit, or XX000.
CommitRole(m) ==
  /\ step[m] = "altering"
  /\ IF role.version = seen[m]
     THEN role' = [password |-> Secret[m], version |-> role.version + 1] /\ Goes(m, "done")
     ELSE Goes(m, "failed") /\ UNCHANGED role
  /\ UNCHANGED <<applied, doubled, seen, accidents>>

\* The process or one of its connections stops: what was not committed is gone,
\* and so are its locks.
CrashMigration(m) ==
  /\ step[m] \notin {"absent", "done", "refused", "failed", "crashed"}
  /\ accidents < MaxAccidents
  /\ accidents' = accidents + 1
  /\ Goes(m, "crashed")
  /\ UNCHANGED <<applied, doubled, role, seen>>

Migrate(m) ==
  \/ LockSchema(m) \/ Apply(m) \/ Refuse(m) \/ Migrated(m)
  \/ AlterRole(m) \/ CommitRole(m)

=============================================================================
