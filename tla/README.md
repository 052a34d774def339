# Kollega in TLA+

Kollega is a multi-tenant platform of governed agents, written in Rust over PostgreSQL. A task is
driven by a loop that plans tool calls, asks a policy engine whether each may run, may suspend for
a human approval, pays for every call out of a ceiling and of the credits of the organisation, and
writes all it does in a hash-chained audit journal. This directory models that core, checks it with
TLC, and proves most of its safety with TLAPS. Paths below are those of the repository, under `src/`.

## 1. Inventory

| Part | Source | State it keeps | Operations | Here |
|---|---|---|---|---|
| Agent loop | `crates/kollega-runtime/src/machine.rs` | `TaskState`: status, iteration, budget, events, pending approval | `drive` | `Machine`, `TaskMachine`, `TaskLifecycle` |
| Accounting kernel | `crates/kollega-runtime/src/budget.rs`, `Cents` in `crates/kollega-core/src/lib.rs` | ceiling, consumed, balance | `new`, `refreshed`, `charge` | `Budget` |
| Persisted step and purge | `crates/kollega-store/src/driver.rs`, migrations 0003 to 0005 | tables `tasks`, `credits`, `audit_chain`, `audit_content`, `tool_call_effects` | `create_task`, `run_task_step`, `purge_org_content` | `TaskStore`, `OrgLedger` |
| Sequence verifier | `crates/kollega-audit/src/records.rs` | the state of each call, during one pass | `verify_sequence` | `SequenceVerifier` |
| Hash chain and anchors | `crates/kollega-audit/src/chain.rs`, `anchor.rs` | the entries of an organisation; what the witness accepted | `append`, `verify`, `verify_with_tail`, `verify_with_anchor`, `publish` | `AuditChain` |
| Decision engine | `crates/kollega-policy/src/lib.rs` | none | `decide` | `Policy` |
| Passwords and their gate | `crates/kollega-api/src/auth.rs` | a counter under a mutex, a condition variable | `hash_password`, `check_password`, `acquire`, drop of the permit | `Gate` |
| Organisation transactions, pool | `crates/kollega-store/src/lib.rs` | five connections, each with its transaction and `app.current_org` | `connect`, `org_transaction`, `health` | `Server` |
| Migrations, application role | `crates/kollega-store/src/lib.rs` | applied migrations, password of `kollega_app` | `run_migrations`, `set_app_role_password` | `Migration` |
| HTTP surface | `crates/kollega-api/src/lib.rs` | the requests in flight | `create_task`, `read_task`, `health`, `serve_until` | `Server` |
| Command line | `crates/kollega-cli/src/main.rs` | the exit code | `serve`, `migrate`, `audit verify` | `Server`, `Migration`, `AuditCommand`, `Deployment` |
| Canonical encoding | `crates/kollega-audit/src/canonical.rs`, `chain.rs` | none | `encode`, `canonical_record`, what `entry_hash` digests | `Encoding`, `Canonical` |
| Prompt assembly | `crates/kollega-core/src/prompt.rs` | none | `compile` | `Prompt` |
| Time | `crates/kollega-core/src/timestamp.rs`, clock of the driver | none | `from_unix_nanos`, `micros_from_epoch` | `Encoding` |
| Contents and repositories | `crates/kollega-audit/src/content.rs`, `repository.rs` | none: traits and wrappers | `put`, `append`, `purge_org` | steps of `TaskStore` |
| Identity, identifiers | `crates/kollega-core/src/identity.rs`, `ids.rs` | none | constructors | not modelled |
| Model provider | `crates/kollega-model` | none | not wired to the loop | not modelled |
| Memory, tools | `crates/kollega-memory`, `crates/kollega-tools` | empty crates | none | not modelled |
| Rights, packaging, reference encoder | migration 0006, `deploy/`, `tools/reference` | none | none | not modelled |

How they interact. A caller of `run_task_step` opens a transaction, locks the row of the task, then
the credits of the organisation, loads the effects already recorded, and calls `drive` on a copy of
the state. `drive` calls `decide` on each planned call and `charge` before each execution, and only
appends to a journal in memory. Tools run *during* `drive`, through `IdempotentTools`, which
answers a known effect instead of performing it. When `drive` has returned, the step writes the
effects, then for each new event its content and its entry in the chain, then the envelope and the
balance, and commits. The loss of a height of the chain to another transaction (`ChainConflict`)
drops the whole step; its abandonment is then attested in a transaction of its own and the step is
played again, `CHAIN_RETRIES` times at most. `purge_org_content` deletes the contents of the
organisation and attests that it did, while steps are running.

Around that core, `kollega serve` answers three routes from a pool of five connections; a handler
takes one, opens a transaction in the context of the organisation of its path, and gives it back
when it ends, or when its client leaves and the handler is dropped at an await. `kollega migrate`
applies the schema and sets the password that the server connects with; several instances may run at
once, on whatever database an earlier binary left in the volume. Nothing but that password orders
the two commands: in `deploy/compose.yaml` both depend on the database alone. `kollega audit verify`
reads the chain of an organisation twice, first for its hashes and then for its meaning.

What is hard here, and which property answers for it (`PROJECT.json`, "hazards", has each at its
line):

- *Interleaving.* Steps of two tasks, two steps of one task, an abandonment and a purge meet on the
  row of the task, the credits, the height of the chain and the rows of contents: `ChainIsLinear`,
  `MoneyConserved`, `JournalTellsTheState`, `LedgerSpec`.
- *Loss and replay.* A step lost to a crash, to an error or to a conflict is played again, and its
  tools have already run: `LostAttemptsAreAttested`, `RecordedEffectNeverReplayed`,
  `EffectsAreRemembered`; the finding `EffectsHappenOnce`.
- *Waiting.* A purge holds contents a step wants, the step holds the height the purge wants:
  `EverythingReturns`. Handlers wait for a connection, for the credits and for the key of a task:
  `EverythingEnds`. The gate notifies one waiter at a time: `NoLostWakeup`, `EveryCallIsServed`.
- *Handlers that stop anywhere.* A client that leaves drops its handler with its transaction; a
  connection is lost with a COMMIT on its way: `RequestsStayInTheirOrganisation`,
  `AnswersTellTheTruth`.
- *Deployment.* Migrations and passwords set by two instances, on an empty database or on one that
  lived; a migration refused by the rows it finds; a server that starts too early, or is asked to
  stop with requests in flight: `DeploymentIsOrderly`, `EverythingEnds`.
- *Suspension.* A call is described in one call of `drive` and executed in another, with other
  rules and another balance: `SuspensionHoldsItsCall`, `ExecutionsAuthorised`,
  `RunsOnlyWhatWasDecided`, `CallsWellFormed`.
- *Numbers.* Costs are `i64`, their sum saturates, additions are checked, nothing excludes a
  negative cost: `WithinBounds`. Clocks may be before the epoch: `EncodingIsInjective`.
- *Judging a storage that fails.* `VerifyAcceptsExactlyTheChains` and its neighbours, and
  `OpenCallsAreInformation`, `EveryFaultIsNamed` for the meaning of what the chain tells;
  `VerdictIsFounded` for the command that puts the two together.
- *Texts that imitate.* Contents that look like instructions (`ExternalContentIsConfined`), texts
  that hold the delimiters they are hashed between (`EncodingIsInjective`), stored hashes of other
  profiles, or forged (`AnswersAreSound`, `MemoryIsBounded`).

What makes each part correct, in one line: the loop executes only what was allowed or approved and
paid, each call once and identified; the store commits money, journal, envelope and memory of the
effects together; the chain has one entry per height; the verifiers accept what was written and
nothing else; a refusal of the policy is never escaped by asking for more; the gate bounds the
memory and starves nobody; a request works in its own organisation and is told the truth; a
deployment that ends well leaves the whole schema, and gives the server its password only then.

## 2. Modules

    Budget -- Machine --+-- TaskMachine -------------- MCTaskMachine
                        |        |
                        |   (implements) TaskLifecycle
                        |
       SequenceVerifier +-- TaskStore ---------------- MCTaskStore
              |                  |
     MCSequenceVerifier     (implements) OrgLedger

    Encoding -- Canonical -- MCCanonical --+
                  Prompt --- MCPrompt -----+-- MCAlgorithms (with MCSequenceVerifier)
                  Policy --- MCPolicy -----+

    SequenceVerifier --+
    AuditChain --------+-- AuditCommand -- MCAuditCommand

    Migration -- Server -- Deployment -- MCDeployment          Gate

    SequenceVerifier -- Foundations --+-- Machine_proofs (of Machine) --+-- TaskMachine_proofs
                                      |                                 +-- TaskStore_proofs
                                      +-- Audit_proofs (of AuditCommand)
                                      +-- Algorithms_proofs (of MCSequenceVerifier, MCPolicy, MCPrompt, Encoding)
                                      +-- Gate_proofs
    Deployment_proofs (of Deployment)

**`Budget`** holds `charge` with its refusals in the order of the code. `MaxCents` stands for
`i64::MAX`: any small value gives the type, its overflow and its saturation.

**`Machine`** is `drive` as pure operators, one per branch, each giving the state that the branch
leaves: `Started`, `Rejected`, `Approved`, `ApprovedButStopped`, `ClosedIncoherent`, `Exhausted`,
`Conclusions`, `Denials`, `Suspensions`, `Executions`, and their stopped variants. A request stands
for a whole `ToolCallRequest`, a rule set for the verdict `decide` gives on each request. The model
is any plan of `ToolPlans` or any conclusion, at every iteration. Reasons, wording and the text of
a conclusion are left out.

**`TaskMachine`** runs these operators as a state machine: `Call` is the beginning of a call by
`try_task_step` (balance refreshed, decision and rules chosen by the caller), every other action is
a branch of `drive`. `Torn` gives initial states that only a damaged envelope can hold.

**`TaskLifecycle`** is what whoever submits a task is promised: the edges between statuses, a fixed
allowance of executed calls, an end that is the end. `LifecycleSpec` says that `TaskMachine`
implements it, `status` and `iteration` being the refinement mapping.

**`TaskStore`** is `driver.rs` statement by statement. Committed tables are variables; what an open
transaction wrote is in its record of `tx`; `worker[w].pc` says which statement a caller of
`run_task_step` executes next:

| `pc` | Code | Actions |
|---|---|---|
| `lock_task` | `SELECT ... FOR UPDATE` on the task | `LockTask`, `TaskNotFound` |
| `lock_credits` | `FOR UPDATE` on the credits, load of the effects | `LockCredits`, `ResultPurged` (`CorruptState`) |
| `entry`, `loop` | `drive` on the copy; tools run here | `Enter`, `Loop` |
| `effects` | results and effects written | `KeepTrace`, `TracesKept` |
| `put`, `tail`, `insert` | `append_attestation`: content, tail, entry | `PutContent`, `FindTail`, `InsertEvent`, `SkipEvent`, `LoseHeight` |
| `commit` | envelope, status and balance written, commit | `Commit` |
| `put`, `tail`, `insert` in phase `abandonment` | `attest_step_abandoned` | `AttestAbandonment`, `RetryAbandonment`, `GiveUpAbandonment` |

`world` counts, for each call, how many times its effect really happened: no table of the code
knows it, and it survives rollbacks.

**`OrgLedger`** is the store without transactions, locks or retries: one task moves at a time, by
an atomic step that takes money from the balance, tells it in a journal that only grows, and may
close the task. `LedgerSpec` says that `TaskStore` implements it.

**`SequenceVerifier`** is `verify_sequence` as a fold; `TaskStore` applies it to its own chain
(`VerifierAcceptsTheChain`), `AuditCommand` to what is stored, `MCSequenceVerifier` to every journal.
Beside the fold stand the rules of the header of `records.rs`, said of the records that came before
one (`FaultAt`, `ToldOnce`): the fold remembers a state per call, the rules look at the past.

**`Policy`** is `decide`: the first rule for the tool, bounds on amount and recipients, bound on
paths, compared segment by segment. `MCPolicy` enumerates rules and calls.

**`Prompt`** is `compile`: a fold over segments of three origins, an error ending it. A text is a
sequence of characters, as the limit counts characters. `MCPrompt` gives the same texts to
instructions and to contents, so that a content may say exactly what an instruction says.

**`Encoding`** is what an entry is hashed from, character by character where it decides (escapes,
quotes, digits), with its payload already encoded: the texts, the integers, the record of an entry,
the preimage of its hash, and the time that closes it. A hash and an organisation are one symbol
each, since their length is fixed; so is the name of a field with its quotes. The control characters
written as `\u00xx` are a constant: any injection of characters into codes.

**`Canonical`** is the rest, the encoding of a payload: values of any depth, and the order of keys.
It is a module of its own because it recurs (`Encode`). `MCCanonical` compares pairs of payloads and
pairs of entries.

**`MCAlgorithms`** extends the MC modules of the four pure components and puts them in one run: a
behaviour is about one of them. Each MC module has its own behaviours and properties, over domains
that are constants (`PolicyAssumption`, `MessageAssumption`): `MCAlgorithms` gives them small
values, `Algorithms_proofs` proves about any.

**`AuditChain`** is `OrgChain` and the witness, over a storage that loses, swaps, repeats or alters
entries, their digests, or the call their row bears. No digest, no call and no hash is the empty
tuple `None`, which a hash is not. The identity of a call (`tool_call_id`) is a
column beside what is hashed: the payload of an attestation is the digest alone (`driver.rs:195`).
The chain therefore says nothing of an altered call; `VerifyOrgSequence` may.

**`AuditCommand`** is `kollega audit verify`: two transactions (`VerifyOrgChain`,
`VerifyOrgSequence`), between which the chain grows and its storage may fail, then the exit code.

**`Gate`** is `auth.rs`: what is accepted of a stored hash before the gate, the semaphore, one action
being one holding of the mutex, and what a check answers. A stored hash is its algorithm, its
parameters and the password it hashes; the work may also fail or panic.

**`Migration`** is `kollega migrate` by several instances: the lock of the schema, one transaction
per missing migration, then the lock of the role, the password, the commit. Whoever is between two
labels holds the lock of that part. The database outlives the binary: a behaviour begins with any
number of migrations applied, with a role that may have its password already, and with a chain that
may hold what migration 0005 refuses (`Refuse`).

**`Server`** is `kollega serve`. A connection is a record: its phase, its holder, the organisation
its session is set to, the credits it locks, the row it has not committed.

| `at` of a request | Code | Actions |
|---|---|---|
| `acquiring` | the pool gives a connection, `BEGIN`, `set_config` | `Begin`, `NoConnection` |
| `begun` | `SELECT 1`; credits `FOR UPDATE` and `Budget::new`; `SELECT status` | `Ping`, `LockBalance`, `SelectTask` |
| `charged` | `INSERT INTO tasks` | `InsertTask` |
| `worked`, `committing` | `COMMIT` sent, executed, answered | `SendCommit`, `ExecuteCommit`, `Conclude` |
| any | the handler is dropped, the connection is lost | `Leave`, `LoseConnection` |

`GiveBack` is what sqlx does of a connection whose handler ended without a commit: the pending
ROLLBACK comes before anybody else uses it. Where the tables exist, rows may be older than the
process (`by = 0`); where they do not, a statement that needs one is an error (`missing`).

**`Deployment`** puts `Migration` and `Server` together over the role `kollega_app`: its password
is what the one sets and the other connects with.

Each component module keeps beside an operator the mutated form the properties are tested against,
under a comment that begins with "Mutated:". Nothing but that test uses them.

### PostgreSQL, as the model has it

- Statements are READ COMMITTED: a statement sees what is committed when it begins, and the writes
  of its own transaction. `FOR UPDATE` re-reads the row when the lock is granted.
- Steps of one organisation are serialised by the lock of the credits, taken after that of the task
  and kept until the end. Abandonments and purges take neither.
- An INSERT on a key held by an open transaction waits for its end. If the height was committed in
  the meantime, it fails with 23505, which the code turns into `ChainConflict`.
- `ON CONFLICT DO NOTHING` on a content waits for whoever is inserting or deleting it; on a
  committed content it writes nothing and *locks nothing*.
- The victim of a deadlock gets an error that is not a `ChainConflict`: the step is dropped, no
  abandonment is attested, nothing is tried again (`AbortStep`, `AbortPurge`).
- A content is identified by its digest, and the JSON of an event does not name its task: equal
  events of two tasks are one row of `audit_content`.

Statements merged in one action: the lock of the credits with the load of the effects; the INSERT
with the COMMIT of an abandonment and of a purge; the DELETE of a purge with the put of its own
content; all of `create_task` in `TaskStore` (`Server` has its statements); `BEGIN` with
`set_config`. In each case nothing that another transaction could observe or wait for happens
between the merged statements. What a tool returns is abstracted to the tool. `TaskStore` has one
organisation, since row-level security keeps the others apart, and one purge at a time.

For `Server` and `Migration`:

- Row-level security is the filter of a SELECT by the organisation of the session; the credits of
  an organisation that has none are not found, and the identifier of a task is a key of the whole
  table, whatever the organisation.
- What is set with `set_config(..., true)` ends with its transaction, locks and rows not committed
  as well; a lost session ends its transaction. A COMMIT on its way may have been executed.
- An advisory lock ends with the transaction or the session that took it. ALTER ROLE reads the row
  of the role, then updates it, and fails if another update was committed in between.
- The role belongs to the cluster and not to the schema: it may have its password whatever is
  applied. The tables of the tasks, the credits and the chain come with one migration
  (`Tables`, 0003), the key of the chain with a later one (`Key`, 0005). The locks that a migration
  takes on tables, and a database newer than the binary (which sqlx refuses), are left out.
- A pool that has no connection to give answers an error when the wait is over, whenever that is;
  a new connection is refused when the password of the role is not the one of the server.

## 3. Runs

`MaxCents`, the plans and the rule sets are chosen so that both refusals (ceiling and credit), the
overflow, the saturation, a denial, an approval and a rejection all happen.

| Run | Instance | Distinct states | What it shows |
|---|---|---|---|
| `TaskMachine` | 2 tools, 2 iterations, 3 balances, all rule sets that matter, negative and overflowing costs | 5 710 | the loop: types, identity of calls, authorisation, spending, suspension, end, return, `TaskLifecycle` |
| `TaskMachineTorn` | the same, from suspended envelopes without their call | 6 070 | a decision closes such a task as failed in that very call, runs nothing and charges nothing |
| `StoreConcurrent` | 2 tasks, 2 callers, 3 steps, a balance for one call, 1 purge, 1 crash | 477 310 | money, chain, envelopes, abandonments and contents under concurrency; `OrgLedger` |
| `StoreReplay` | 1 task of 2 calls, 2 callers, 3 steps, rules that allow, deny or ask, 1 purge, 1 restore | 925 469 | the journal satisfies the verifier; what is recorded is not done again |
| `StoreLiveness` | 2 tasks, 2 callers, 2 steps, 2 purges, nothing failing, no symmetry | 153 236 | every step and every purge ends |
| `Algorithms` | journals of at most 5 records of 2 calls; amount, recipient and path bounds with lists of at most 2 paths; 4 segments, documents cut at 2 characters; pairs of payloads and of entries | 500 876 | each pure function does what it promises |
| `Gate` | 4 threads, 2 permits, 1 call each out of 7, 1 spurious wakeup | 64 340 | bound on the memory, sound answers, no lost wakeup, everybody served |
| `AuditChain` | 2 organisations, a call and its conclusion, 3 entries, 2 accidents, 2 anchors, the audit command | 794 130 | each verification accepts exactly what it promises; the exit code is founded |
| `Deployment` | a database of 0, 1 or 2 migrations, whose chain may refuse the second, a role with the password of the server or without; 2 instances of migrate, the second changes the password; a server of 2 connections, 2 requests, 3 organisations, 1 identifier; 2 accidents | 1 545 202 | isolation, true answers, migrations that do not fail each other, a password that comes after the whole schema, everything ends |

Why these bounds. Every conflict of the store is between two transactions on one row, one height or
one content: two tasks and two callers give each of them, a third transaction is the purger, and
`ChainRetries` is 2 where the code has 3: an attempt is lost and played again, an abandonment is
lost and tried again, and both give up, which is every branch of the two loops. One iteration is
enough where the tasks meet, two where the identity of successive calls matters. In
`StoreConcurrent` the balance pays for one call only, so that the second task meets the refusal. A
chain of three entries has a first, a middle and a last one; two accidents can hide one another.
Five records allow every pair of violations of a call, with the other call in between. Four threads
on two permits give two workers, a waiter and a newcomer that overtakes it. The two requests of
`Deployment` want one identifier, from one organisation or from two, or one reads what the other
creates, or has no credits; an older row may be there before both. Two accidents let a client leave
while a connection is lost, or an instance of migrate stop while the other one goes on. Two
migrations are the fewest between which an instance can stop: the first creates the tables and the
second adds the key, so that a database is empty, has the tables without the key, or has all. In
`Algorithms` a text of two characters holds an escape beside any other character, and the clocks are
on both sides of the epoch and of the bound of the type.

Symmetry is used on tasks and callers, and on the organisations of `AuditChain`, in safety runs
only: no formula and no initial state names one of them. `CHECK_DEADLOCK FALSE` is used where a
bound of the model lets the system stop for good (steps, purges, length of a chain, calls of a
thread); transactions that wait for ever are excluded by `EverythingReturns` and `EverythingEnds`,
threads by `EveryCallIsServed`.

`JournalTellsTheState`, `VerifierAcceptsTheChain` and the second half of `EffectsAreRemembered`
suppose that no envelope went back in time (`NeverRestored`): after a restore the envelope
*is* behind the chain, by definition. What must hold even then is stated without that condition.

### Fairness

- `TaskMachine`: weak fairness of `Drive`. `drive` is a plain function: called, it runs. Nobody has
  to call it.
- `TaskStore`: weak fairness of the steps of each caller, of the purge that has begun, and of
  deadlock detection by PostgreSQL. Nobody has to call anything, nothing has to fail. Weak fairness
  is enough for a lock because those who compete for it are in finite number, the calls being
  bounded; PostgreSQL queues its waiters, so the code does not depend on the bound.
- `Deployment`: weak fairness of `Progress`, the steps of whoever works: an instance that has begun,
  a handler, PostgreSQL, the pool, a server asked to stop. One of those who can go on does; as none
  of them works without end, it is all that is needed. Nobody has to deploy, to ask, to leave or to
  stop the server. `EverythingEnds` says that the whole comes to rest again and again.
- `Gate`: weak fairness of each thread for the mutex and for its work. A newcomer may overtake a
  woken thread; `EveryCallIsServed` holds because each thread makes finitely many calls, that is
  for a burst of logins, not under an endless flow of newcomers.

### Runs that end in a violation

| Run | What the repository says | What the code does |
|---|---|---|
| `EffectsHappenOnce` | `README.md:26`: a step played again after a failure does not send a second mail | the trace of an effect is committed with its step (`driver.rs:645-679`); a step lost after its tool ran (`driver.rs:643`) performs the effect again. The chain has no open call for the first attempt either, contrary to `kollega-api/src/lib.rs:99-100` |
| `NoDigestWithoutOriginal` | `driver.rs:435-436`: the content first, or an attestation would be a digest without original | a put that finds the same content of another task takes no lock; a purge that commits before the entry is inserted leaves that digest without original, after the purge |
| `NoDoubleClosure` | `docs/matrice-invariants.md:134`: a double closure cannot be expressed | uniqueness is per call *and* action (migration 0005): a suspension approved, restored, then rejected has `tool_call_completed` and `tool_call_denied` for one call |

More, met while modelling and not run:

- `Cents::saturating_add` is documented as tripping the ceiling on saturation
  (`kollega-core/src/lib.rs:126-127`). `charge` compares with a strict `>`: with a ceiling and a
  balance of exactly `i64::MAX` a saturated total passes.
- An approved call does not go back to the engine: the Approve branch (`machine.rs:402-424`) never
  calls `decide`, while `machine.rs:188` says of the pending call that it is what will go back to
  the engine. `RunsOnlyWhatWasDecided` states what the code does.
- A task suspended after an executed call cannot be resumed once its organisation was purged:
  `try_task_step` answers `CorruptState` for ever (`driver.rs:626-631`), while
  `kollega-core/src/lib.rs:233` says that resumption is guaranteed. `ResultPurged` is that answer.
- `create_task` answers 422 when the answer to its COMMIT is lost, though the task may exist:
  `AnswersTellTheTruth` excepts that error, and no other.
- `shutdown_signal` ends when the listener of one signal cannot be set (`main.rs:63`, `main.rs:74`):
  the server then stops at once. `Interrupt` may happen at any time and covers it.
- A password changed by `kollega migrate` leaves a running server with the connections it has; it
  is refused new ones (`NoConnection` with `denied`) until it is started again.
- `kollega-api/src/lib.rs:43-46` (and `README.md:50`) says that a client that names the organisation
  of another one does not obtain its data. The organisation is the one of the path, so that a GET
  under it answers the status of its tasks (`SelectTask`). No property is about who the client is:
  `RequestsStayInTheirOrganisation` is about the organisation that the request names.
- On a redeployment the role has its password already, and `kollega serve` of the new binary may
  work before `kollega migrate` has brought the schema it needs. Until then the routes of the tasks
  answer 422 or 500 where a table is missing, while `/health`, which asks for no table, answers 200.
  A first deployment is protected: the role has no password. `DeploymentIsOrderly` tells the two
  apart.
- Migration 0005 says that its key makes two attestations of one call impossible. On a chain that
  got them before, it is refused, and every `kollega migrate` ends in error until the rows are
  repaired (`Refuse`); the schema stays at the migration before.
- The two readings of `kollega audit verify` are separate transactions: what the second one reads
  was not all verified by the first (`VerdictIsFounded` says what can be concluded).

## 4. Proofs

Each theorem holds for every value of the constants: any number of tasks, callers, threads,
connections, instances and organisations, any plans, costs, rules and balances, every width of
`Cents`, journals, rules, paths and texts of any length, and any number of failures. Those marked
with a dagger take `Torn = {}`: a damaged envelope breaks at once what they state, and
`IncoherentSuspensionsFail` says what remains true.

| Module | Theorem | Statement |
|---|---|---|
| `Machine_proofs` | `ChargeIsSound` | a charge of any cost leaves `consumed` within the ceiling, the balance out of debt and their sum unchanged |
| `TaskMachine_proofs` | `TypeCorrect` | `Spec => []TypeOK` |
| | `SpendingIsBounded` | `Spec => []WithinBounds`, torn envelopes, if any, being within their budget |
| | `SuspensionIsSelfContained`† | `Spec => []SuspensionHoldsItsCall` |
| | `FinishedIsFinished` | `Spec => TerminalIsForever` |
| | `DriveImplementsLifecycle`† | `Spec => LifecycleSpec` |
| | `CallsAreAuthorised`† | `Spec => []ExecutionsAuthorised` |
| | `JournalIsWellFormed`† | `Spec => []CallsWellFormed` |
| | `EveryCentIsTold`† | `Spec => []SpendIsAttested` |
| | `StepsRunWhatWasDecided` | `Spec => RunsOnlyWhatWasDecided` |
| | `IncoherentSuspensionsFail` | `Spec => IncoherenceFails` |
| `TaskStore_proofs` | `StoreTypeCorrect` | `Spec => []TypeOK` |
| | `MoneyIsConserved` | `Spec => [](NeverRestored => MoneyConserved)` |
| | `LostAttemptsAreKnown` | `Spec => []LostAttemptsAreAttested` |
| | `MemoryIsExact` | `Spec => []EffectsAreRemembered` |
| | `RecordedEffectsStay` | `Spec => RecordedEffectNeverReplayed` |
| | `ChainNeverForks` | `Spec => []ChainIsLinear` |
| | `OriginalsAreKept` | `Spec => []NothingIsMissingBeforeAPurge` |
| | `JournalsAgree` | `Spec => []JournalTellsTheState` |
| | `VerifierAccepts` | `Spec => []VerifierAcceptsTheChain` |
| | `StoreImplementsTheLedger` | `Spec /\ []NeverRestored => LedgerSpec` |
| `Gate_proofs` | `GateInvariant` | `Spec => []IInv` |
| | `WakeupsAreNotLost`, `AnswersSound`, `MemoryBounded` | `Spec => []NoLostWakeup`, `[]AnswersAreSound`, `[]MemoryIsBounded` |
| `Deployment_proofs` | `DeploymentInvariant` | `Spec => []IInv` |
| | `DeploymentOrderly`, `OrganisationsStayApart`, `AnswersAreTrue` | `Spec => []DeploymentIsOrderly`, `[]RequestsStayInTheirOrganisation`, `[]AnswersTellTheTruth` |
| `Audit_proofs` | `VerifyIsExact`, `AnchorsAreExact`, `TailsAreExact` | `SpecAudit => []VerifyAcceptsExactlyTheChains`, `[]AnchorsHoldThePast`, `[]TailHoldsTheWholeChain` |
| | `VerdictsAreFounded` | `SpecAudit => VerdictIsFounded` |
| `Algorithms_proofs` | `OpenCallsAreExact`, `FaultsAreNamed` | `SpecJournal => []OpenCallsAreInformation`, `[]EveryFaultIsNamed` |
| | `ApprovalsAreBounded`, `StricterRulesAreStricter` | `SpecRules => []ApprovalStaysUnderHardLimits`, `StricterIsNeverLooser` |
| | `ExternalContentsAreConfined` | `SpecMessage => []ExternalContentIsConfined` |
| | `TextsAreToldApart` | `EncodeText(a) \o u = EncodeText(b) \o v` only if `a = b` and `u = v` |
| | `PreimagesAreToldApart` | two preimages are equal only if each field, the link, the encoded payload and the time are |
| | `AttestationsAreToldApart` | the same of the entries of the store, down to the digest they attest |
| | `SealedTimeIsTheClock` | the time an entry bears is the microsecond of the clock, or the bound it is beyond, and is monotone |

The last four are about operators: `EncodingIsInjective` reaches a recursive one, and is checked by
TLC; they state without bounds what it says of everything but the inside of a payload.

*Assumptions.* Only the `ASSUME`s of the modules, which TLC evaluates on every run: sets have their
types, bounds are naturals, a control character has one code and no other escape, and a value that
stands for an absent one is none of the values it stands beside (`NoRequest`, `NoTask`, `None`). Two
say something of the code. `TaskStoreAssumption` has a purger that is no task: an attestation of a
step bears the identifier of its task, a purge the actor "system" (`driver.rs:682`,
`driver.rs:831`). `AuditChainAssumption` has contents that their action and digest identify.

*Sums, folds and recursion.* Induction over data takes an operator as a parameter, which no prover
at hand can instantiate. `Foundations` goes around it by the least counterexample, strict inclusion
being well founded on the subsets of a finite set (`SetMin`).

- `MapThenSumSet` and `FoldLeft` are, in the community modules, the value at a whole set of a
  recursive function on its subsets, that is of whichever function `CHOOSE` takes among those that
  obey the recursion. For sums, such a table exists and is unique (`TableExists`, `TableIsUnique`),
  and `SumOf` is what it says of the whole set.
- For the folds of `verify_sequence` and `compile`, a closed form is written down instead: what the
  report, or the draft, is after any set of positions (`ReportAt`, `DraftAt`), from what those
  positions hold and never from a step before. The closed form obeys the recursion (`ReportMore`,
  `DraftMore`), so one such table exists, and two of them agree (`SameTable`): the fold is the
  closed form (`ExaminedIs`, `DraftIs`).
- The members of a set in increasing order, which is what `ORDER BY` and the list of documents are,
  are its ranks: `PlaceIs` and `PlaceOnto` say that they number the set, `IncreasingIs` that the
  list goes up and forgets nobody.

- `FlattenSeq`, which puts the escapes of a text together, and the decimal digits of a number are
  recursive functions on the naturals: such a function exists up to any bound (`FlatExists`,
  `NumeralsExist`), two of them agree where both are (`NumeralsAgree`), so there is one on all of
  `Nat` (`NumeralIs`).

The same argument gives `Audit_proofs` its recursion over positions (`ChainIsUnique`,
`TowerExists`): two chains that hash to the same end are equal, and what `verify` recomputes exists
at every height.

### `drive`

Lemmas of `Machine_proofs` give the type of what each operator of `Machine` returns, bottom up
(`charge`, events, branches), then what each branch adds to the journal and to what was consumed;
both state machines that call `drive` rest on them. `TypeOK` is inductive, one step per action.
`WithinBounds` needs the budget to be well typed and the ceiling to be the one of the task: its
invariant is `TypeOK` with the bounds, and rests on `ChargeIsSound`, the only place where amounts
move. `SuspensionHoldsItsCall` is inductive with `TypeOK`: only `Suspend` creates a pending call,
together with the event that announces it, and each way out of a suspension empties it. The
refinement uses it: it is the suspended call's iteration, known to be under `MaxIterations`, that
lets an approval map to `Execute`.

`ExecutionsAuthorised` is not inductive: an approval is judged from events that precede the one it
adds. Its invariant says besides that a suspended call was announced with its intention
(`Announced`). `CallsWellFormed` and `SpendIsAttested` filter and sum the journal, and are
inductive because every branch appends: the positions of a call, and the sum of the costs, in a
longer journal are those in the shorter one and what the new positions tell.

### The store

All its theorems rest on `Shape`, the type invariant with what a caller at each statement holds:
which lock, which copy, which entries. `WhoMoves` says once that a step of `Next` is one of one
caller, of the purger or of a table, and leaves the others where they were.

- `OneOwner`: no two callers own the row of one task, or the credits. Everything below uses it.
- `MoneyConserved` is about committed tables only. `Balanced` says besides that a caller holding the
  credits works on a copy whose `consumed + org_balance` is what the row of its task and the credits
  make together, so that its commit moves money without making any. `NeverRestored` is a premise:
  a restored envelope forgets what it had consumed, and TLC checks the property in the runs that
  restore nothing.
- `EffectsAreRemembered`: `EffectsKept` adds that the effects a caller knows, those it wrote and
  those it still owes are together the iterations of its copy. `RecordedEffectNeverReplayed` needs
  only that who performs an effect has read all those of its task, even after a restore.
- `ChainIsLinear`: `Linear` adds that the entries of an open transaction continue the chain, that a
  tail that was read is that of the chain at some time, or its own, and that no two callers have
  entries that are not committed: the second one waits for the height, and loses it if the first
  one commits.
- `NothingIsMissingBeforeAPurge`: `Present` adds that what a transaction appended, or is about to,
  has its content in the table or beside it.
- `JournalTellsTheState`: `Recited` adds that what a caller appended is the events of its copy, in
  their order, from the last one committed to the one it writes next. It needs the locks, the
  linearity of the chain and that envelopes only grow (`JournalIsWellFormed` says what they hold).
- `VerifierAcceptsTheChain`: `RecordsAre` says that the query lists the entries that bear a call, one
  record each, in the order of their heights. With `Recited`, the records of a call are then the
  events of that call in the envelope of its task, in their order (`CallIsTold`), and the envelope
  tells each call once (`WellFormed`, the strengthening of `CallsWellFormed`), which is all the
  verifier asks (`AcceptedIs`). A call without closure is the current one of its task, and the
  status says which tasks may have left it open.
- `LedgerSpec`: `Mirrored`, the journal of a task in the chain read as contents is that of its
  envelope, makes every statement but `CreateTask` and `Commit` a stutter of the ledger, and a
  `Commit` one atomic step of it, whose money comes from `Balanced` and whose entries come from
  `Recited`. The premise is `[]NeverRestored`, the ledger having no restore.

### Gate, deployment, chain

`Gate`: permits at work and permits free add up to `Permits`; with it, `NoLostWakeup` is inductive.
The bound on the memory is then a sum over at most `Permits` threads, each at the ceiling
`acceptable` enforces before the gate.

`Deployment`: `DeploymentIsOrderly` rests on `MigrationIsOrderly`: each of the two locks excludes,
and an instance that holds the second, or that ended well, did so on the whole schema, which nothing
takes back; hence a role that was altered. Nothing is supposed of the database. For the requests,
the invariant says for each label of a handler what its connection is, in which phase, for which
organisation, with which locks and which row (`RequestIsSound`), for each connection who holds it
(`ConnectionsAreSound`), for each row who made it, if it is not older than the process
(`RowsAreSound`), and for each answer why it was given (`AnswerIsFounded`): an answer is judged
against a table that went on changing, so the invariant says what rows do not do any more.

`AuditChain`: `Kept` says that what was told is what the storage then held and that each anchor and
tail is of a chain that was there. The rest is about `verify`: it accepts a storage if and only if
each entry bears the hash of its predecessor and of itself (`VerifyIs`), and hashes tell the bodies
apart (`HashesTell`), the digest being an injection.

`AuditCommand`: the rows of the table, which accidents may have left out of order or repeated, are
read by the rank of their height and place; `RanksDiffer` and `RowsAre` say that this reads every
row and invents none. `ChainVerdictIs` is `VerifyIs` on these rows, `StoryVerdictIs` is `AcceptedIs`
on those that bear a call. The invariant joins them: between its two transactions the command
remembers that the first reading was a chain (`Founded`).

### The pure algorithms

`AcceptedIs` takes the fold out of `verify_sequence`: no violation is found if and only if each call
is an intention, alone or with one closure. `OpenCallsAreExact` and `FaultsAreNamed` read it in the
closed form of the report. The store and the audit command rest on it as well: one description of
the verifier serves the two that call it.

`ApprovalsAreBounded` and `StricterRulesAreStricter` go through the tiers of each bound. Tiers are
ordered (`NotLooser`): an amount that grows, a bound that is lowered, a path that is added never
move to a more lenient one, and a decision follows the strictest of its three tiers whatever the
order in which the code looks at them (`BoundedIsNotLooser`). The first rule for a tool stays the
first when another is added (`GoverningIs`, `AddingChangesNothing`).

`ExternalContentsAreConfined` compares `DraftAt` with what is promised: the error is that of the
first segment that says again what was said (`Repeated`), and the documents are one per external
segment, at its rank among them. `BoundIs` is the cut: a prefix, within the limit, announced when
and only when something is missing.

`TextsAreToldApart` reads a text back from its start. An escape is told by its first two symbols, and
two controls by the digits of their codes, so that what is written at a place is the escape of one
character at most (`OneCharacter`); none begins with a quote, so that no text goes on where another
one ends (`TextsEndAlike`). `PreimagesAreToldApart` then goes from field to field: a link and an
organisation have a fixed length, a height ends at the comma that follows it, and the time begins
after the last brace, whatever braces and digits the payload holds (`BraceAtOnce`). No payload has
to be known for that; an attestation's is an object of one key, `AttestationOf`, which gives its
digest back. The preimage of a first entry begins with zeros: the theorem takes no hash to
be zeros, as the code does.

### What the proofs corrected

- The last conjunct of `DeploymentIsOrderly` was bound inside a quantifier by the precedence of its
  operators, and said less than its comment. TLC was content; the proof had no use for it.
- `SpendIsAttested`, `CallsWellFormed`, `MoneyConserved` and the journal of the store are stated on
  positions and sums over sets instead of filters and folds over sequences.
- The `None` of `AuditChain` is a tuple: as a constant, nothing said that it was not a hash.
- `WellFormed` did not say that a task that succeeded left no open call. TLC had it as a consequence
  of all that precedes; the proof of `VerifierAccepts` asked for it by name.
- Filters, sorts and the merge of maps (`SelectSeq`, `SortSeq`, `@@`) are written on positions
  (`Increasing`, `Rows`, `Insert`): the first two are recursive functions nothing is said of, and
  the order of equal heights in a sort was left to a library.
- `Policy` took its governing rule with a search over sequences; it is now the least position among
  the rules for the tool, which is what `find` returns.
- The properties of the pure algorithms moved beside the behaviours they are about, over domains
  that are constants: they were stated on the small domains of TLC alone.

### Only model-checked

- `DriveReturns`, `EverythingReturns`, `EverythingEnds`, `EveryCallIsServed`: liveness under
  fairness is out of the prover's reach.
- `EncodingIsInjective`, for the inside of a payload: `Encode` is recursive, over values of any
  depth. Neither `RECURSIVE` operators nor an induction over data can be proved about here. All that
  is around a payload is proved to be told apart, and the payload of an attestation with it, which
  is the only one the driver seals (`AttestationsAreToldApart`).
- `EffectsHappenOnce`, `NoDigestWithoutOriginal`, `NoDoubleClosure` are false: section 3.

Every other property of a passing run is a theorem. Those of `MCAlgorithms` are proved of the MC
module each comes from: `MCAlgorithms` also extends `MCCanonical`, which reaches `Encode`.

## 5. Not modelled, and why

- The policies, rights and constraints of the SQL schema: the keys and the filters the code relies
  on are in `TaskStore` and `Server`, migration 0006 (rights) is not. The model deletes nothing but
  through the purge.
- SHA-256 and argon2: the first is injective, the second tells the right password from another one.
  The repository compares its encoding with a second implementation (`tools/reference`).
- `Email::parse`, roles and identifiers (`kollega-core/src/identity.rs`, `ids.rs`): validated at
  construction, without state, called by nothing yet.
- What axum does of a request that no handler receives, and the time it waits for a slow body when
  it stops: a request is modelled from the moment its body is read.
- Parsing of arguments and of connection strings, logging, wording.
- `kollega-model`: wired nowhere; the port of the loop is any plan.
- `PgAuditContent::read`: nothing calls it.
- The envelope version and the serialisation of `TaskState`.

Some hazards have no property (`PROJECT.json` says why at each). In two of them the repository makes
no promise that could be checked: a decision is not bound to the call it was meant for
(`driver.rs:578`), an effect is recognised by its iteration alone (`driver.rs:100`). In the others
the code does what a property would exclude: a task that a purge leaves suspended for ever
(`driver.rs:626`), an abandonment that gives up (`driver.rs:568`). A negative amount is under every
bound (`kollega-policy/src/lib.rs:139`): the machine refuses negative costs at the charge.

What some properties leave out. `NothingIsMissingBeforeAPurge` says nothing after a purge: there the
only statement is `NoDigestWithoutOriginal`, which is false. `AnswersAreSound` permits an error at
any time: it is about who is let in, not about who is kept out. `LostAttemptsAreAttested` is about
what is tried after a loss. `RunsOnlyWhatWasDecided` takes an approval for a decision, whatever the
rules have become. `VerdictIsFounded` lets the second reading see what the first did not.
`EverythingReturns` says that a call comes to its end, not that a task does.

## 6. Plan

Done, in this order: `Budget`, `Machine`, `TaskMachine` and `TaskLifecycle` with their proofs,
`TaskStore` and `OrgLedger`, `SequenceVerifier`, `Policy`, `AuditChain`, `Gate`, `Prompt`,
`Canonical`, `AuditCommand`, `Migration`, `Server` and `Deployment`.

Proved: the loop and its lifecycle; the store, its journal and its ledger; the gate; the
deployment, on any database; the chain and its anchors (section 4).

Last: folds in closed form, hence the sequence verifier for journals of any length, the chain it
accepts, the verdict of the audit command, the decision engine and the assembly of prompts; then
texts, numbers and the record of an entry, which were taken out of `Canonical` to be proved about.

What could follow: the encoding of a payload as a relation between values and texts, to say of it
what can be said without an induction; a model provider, once the repository wires one to the loop.
