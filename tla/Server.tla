------------------------------- MODULE Server -------------------------------
(***************************************************************************)
(* `kollega serve`: the routes of kollega-api/src/lib.rs over the pool and *)
(* the transactions of an organisation of kollega-store/src/lib.rs, with   *)
(* create_task and read_task_status of driver.rs.                          *)
(*                                                                         *)
(* A connection is a session of PostgreSQL: its transaction, the context   *)
(* that row-level security reads, the locks and the row it has not         *)
(* committed.  A handler holds one while it works; when it ends, the       *)
(* connection goes back to the pool, after the ROLLBACK of a transaction   *)
(* that was dropped.  A COMMIT is one step to be sent, one to be executed, *)
(* one to be answered: a connection may be lost between them, and a client *)
(* may leave, which drops its handler wherever it is.                      *)
(***************************************************************************)
EXTENDS Migration

CONSTANTS
  MaxRequests,    \* bound: requests the server accepts
  Connections,    \* the pool: max_connections
  Tasks, Orgs,    \* identifiers
  Balances,       \* the credits of the organisations that have some
  OwnSecret,      \* the password of DATABASE_URL
  Jobs            \* what each request may ask for

\* The requests of the three routes.
Create(org, task, ceiling) == [kind |-> "create", org |-> org, task |-> task, ceiling |-> ceiling]
Read(org, task) == [kind |-> "read", org |-> org, task |-> task, ceiling |-> 0]
Health == [kind |-> "health", org |-> None, task |-> None, ceiling |-> 0]

\* Option::None is none of the values it may stand in for; DATABASE_URL carries
\* a password.
ASSUME NoneAssumption ==
  /\ None \notin Nat \cup Orgs \cup Tasks \cup {OwnSecret}
  /\ None \notin [org : Orgs, by : 0 .. MaxRequests]
  /\ None \notin [task : Tasks, org : Orgs, by : 1 .. MaxRequests]

ASSUME ServerAssumption ==
  /\ MaxRequests \in Nat
  /\ \A q \in 1 .. MaxRequests : \A j \in Jobs[q] :
       \/ j = Health
       \/ \E o \in Orgs, t \in Tasks : j = Read(o, t) \/ (j.ceiling \in Int /\ j = Create(o, t, j.ceiling))

\* In the order in which they are accepted.
Requests == 1 .. MaxRequests

VARIABLES
  serving,      \* the process: "absent", "running", "stopping", "exited", "failed"
  rows,         \* the committed rows of tasks: their organisation, and who created
                \* them (history), 0 for those that are older than the process
  connection,   \* the connections of the pool
  at,           \* where each request is
  job,          \* what it asks for
  fetched,      \* the row its SELECT returned, while it works
  answer,       \* the status code, and the error that is logged with it
  before        \* the row it asks for, when it was accepted (history)

server == <<serving, rows, connection, at, job, fetched, answer, before>>

Closed == [phase |-> "closed", holder |-> None, org |-> None, locked |-> None, inserts |-> None]
Idle == [Closed EXCEPT !.phase = "idle"]

Unanswered == [code |-> 0, error |-> "none"]

InitServer ==
  /\ serving = "absent"
  /\ rows \in [Tasks -> {None} \cup {row \in [org : Orgs, by : {0}] : applied >= Tables}]
  /\ connection = [c \in Connections |-> Closed]
  /\ at = [q \in Requests |-> "absent"]
  /\ job = [q \in Requests |-> Health]
  /\ fetched = [q \in Requests |-> None]
  /\ answer = [q \in Requests |-> Unanswered]
  /\ before = [q \in Requests |-> None]

-----------------------------------------------------------------------------
InPhase(phase) == {c \in Connections : connection[c].phase = phase}

HeldBy(q) == {c \in Connections : connection[c].holder = q}

OwnConnection(q) == CHOOSE c \in Connections : connection[c].holder = q

InFlight == {q \in Requests : at[q] \notin {"absent", "answered", "gone"}}

Reaches(q, label) == at' = [at EXCEPT ![q] = label]

\* A handler returns: what it logged, and what becomes of its connection.
Answers(q, code, error) ==
  /\ Reaches(q, "answered")
  /\ answer' = [answer EXCEPT ![q] = [code |-> code, error |-> error]]

ErrorCode(q) == [create |-> 422, read |-> 500, health |-> 503][job[q].kind]

\* Mutated: the transaction is left open on a connection that is given back.
DroppedOpen(c) == [connection EXCEPT ![c].holder = None, ![c].phase = "idle"]

\* The transaction of a handler that returns early is dropped: its ROLLBACK is
\* sent before the connection is used again.
Dropped(c) == [connection EXCEPT ![c].holder = None]

\* An error after the connection was taken.
Fails(q, error) ==
  /\ Answers(q, ErrorCode(q), error)
  /\ connection' = Dropped(OwnConnection(q))

-----------------------------------------------------------------------------
\* Db::connect, which opens a connection at once, then the listener.
StartServing ==
  /\ serving = "absent"
  /\ \/ /\ role.password = OwnSecret
        /\ serving' = "running"
        /\ connection' = [connection EXCEPT ![CHOOSE c \in Connections : TRUE] = Idle]
     \/ /\ role.password # OwnSecret
        /\ serving' = "failed"
        /\ UNCHANGED connection
  /\ UNCHANGED <<rows, at, job, fetched, answer, before, accidents>>

\* A request is accepted, its path and its body are read.
Accept(q) ==
  /\ serving = "running"
  /\ at[q] = "absent"
  /\ \A earlier \in 1 .. q - 1 : at[earlier] # "absent"
  /\ Reaches(q, "acquiring")
  /\ \E j \in Jobs[q] :
       /\ job' = [job EXCEPT ![q] = j]
       /\ before' = [before EXCEPT ![q] = IF j.kind = "read" THEN rows[j.task] ELSE None]
  /\ UNCHANGED <<serving, rows, connection, fetched, answer, accidents>>

\* An idle connection, or a new one where there is place for it.
Usable ==
  IF InPhase("idle") # {} THEN InPhase("idle")
  ELSE IF role.password = OwnSecret THEN InPhase("closed") ELSE {}

\* org_transaction: BEGIN, and the context of the organisation; health takes a
\* connection without a transaction.
Begin(q) ==
  /\ at[q] = "acquiring"
  /\ Reaches(q, "begun")
  /\ Usable # {}
  /\ LET c == CHOOSE c \in Usable : TRUE IN
     connection' =
       [connection EXCEPT ![c].phase = IF job[q].kind = "health" THEN "plain" ELSE "open",
                          ![c].holder = q, ![c].org = job[q].org]
  /\ UNCHANGED <<serving, rows, job, fetched, answer, before, accidents>>

\* Nobody gives a connection back in time, or a new one is refused.
NoConnection(q) ==
  /\ at[q] = "acquiring"
  /\ Usable = {}
  /\ Answers(q, ErrorCode(q), IF InPhase("closed") = {} THEN "timeout" ELSE "denied")
  /\ UNCHANGED <<serving, rows, connection, job, fetched, before, accidents>>

\* SELECT 1
Ping(q) ==
  /\ at[q] = "begun" /\ job[q].kind = "health"
  /\ Answers(q, 200, "none")
  /\ connection' = [connection EXCEPT ![OwnConnection(q)] = Idle]
  /\ UNCHANGED <<serving, rows, job, fetched, before, accidents>>

-----------------------------------------------------------------------------
Creating(q, label) == job[q].kind = "create" /\ at[q] = label

\* create_task: the row of credits FOR UPDATE, Budget::new on its balance.  On a
\* database that no migration has given its tables, the statement is an error.
LockBalance(q) ==
  /\ Creating(q, "begun")
  /\ LET own == OwnConnection(q) IN
     IF applied < Tables THEN Fails(q, "missing")
     ELSE IF job[q].org \notin DOMAIN Balances THEN Fails(q, "unfunded")
     ELSE /\ \A c \in Connections : connection[c].locked # job[q].org
          /\ IF job[q].ceiling < 0 \/ Balances[job[q].org] < 0
             THEN /\ Answers(q, ErrorCode(q), "accounting")
                  /\ connection' = [Dropped(own) EXCEPT ![own].locked = job[q].org]
             ELSE /\ Reaches(q, "charged")
                  /\ connection' = [connection EXCEPT ![own].locked = job[q].org]
                  /\ UNCHANGED answer
  /\ UNCHANGED <<serving, rows, job, fetched, before, accidents>>

\* The identifier is the key of the table, whatever the organisation: an
\* insertion waits for the end of another one of the same task.
KeyFree(task) ==
  \A c \in {d \in Connections : connection[d].inserts # None} : connection[c].inserts.task # task

Inserting(q) ==
  [connection EXCEPT ![OwnConnection(q)].inserts = [task |-> job[q].task, org |-> job[q].org, by |-> q]]

\* Mutated: ON CONFLICT DO NOTHING.
InsertTaskIfNew(q) ==
  /\ Creating(q, "charged")
  /\ KeyFree(job[q].task)
  /\ Reaches(q, "worked")
  /\ connection' = IF rows[job[q].task] = None THEN Inserting(q) ELSE connection
  /\ UNCHANGED <<serving, rows, job, fetched, answer, before, accidents>>

InsertTask(q) ==
  /\ Creating(q, "charged")
  /\ KeyFree(job[q].task)
  /\ IF rows[job[q].task] # None THEN Fails(q, "taken")
     ELSE connection' = Inserting(q) /\ Reaches(q, "worked") /\ UNCHANGED answer
  /\ UNCHANGED <<serving, rows, job, fetched, before, accidents>>

\* read_task_status: the rows of other organisations are not seen.
SelectTask(q) ==
  /\ at[q] = "begun" /\ job[q].kind = "read"
  /\ IF applied < Tables THEN Fails(q, "missing") /\ UNCHANGED fetched
     ELSE /\ LET row == rows[job[q].task] IN
             fetched' = [fetched EXCEPT ![q] =
               IF row # None /\ row.org = connection[OwnConnection(q)].org THEN row ELSE None]
          /\ Reaches(q, "worked")
          /\ UNCHANGED <<connection, answer>>
  /\ UNCHANGED <<serving, rows, job, before, accidents>>

SendCommit(q) ==
  /\ at[q] = "worked"
  /\ connection' = [connection EXCEPT ![OwnConnection(q)].phase = "committing"]
  /\ Reaches(q, "committing")
  /\ UNCHANGED <<serving, rows, job, fetched, answer, before, accidents>>

-----------------------------------------------------------------------------
\* Mutated: set_config(..., false) sets the context of the session.
AfterCommitOfSession(session) ==
  [session EXCEPT !.phase = "committed", !.locked = None, !.inserts = None]

\* A session after COMMIT: its locks are freed, and its context, which was set
\* for the transaction only, is gone.
AfterCommit(session) == [AfterCommitOfSession(session) EXCEPT !.org = None]

\* The rows once the transaction of a session is committed.
RowsWith(session) ==
  IF session.inserts = None THEN rows
  ELSE [rows EXCEPT ![session.inserts.task] = [org |-> session.inserts.org, by |-> session.inserts.by]]

ExecuteCommit(c) ==
  /\ connection[c].phase = "committing"
  /\ rows' = RowsWith(connection[c])
  /\ connection' = [connection EXCEPT ![c] = AfterCommit(@)]
  /\ UNCHANGED <<serving, at, job, fetched, answer, before, accidents>>

\* COMMIT has succeeded: the connection goes back to the pool; 201, or what the
\* SELECT returned.
Conclude(q) ==
  /\ at[q] = "committing"
  /\ connection[OwnConnection(q)].phase = "committed"
  /\ Answers(q, IF job[q].kind = "create" THEN 201 ELSE IF fetched[q] = None THEN 404 ELSE 200, "none")
  /\ connection' = [connection EXCEPT ![OwnConnection(q)] = [@ EXCEPT !.holder = None, !.phase = "idle"]]
  /\ fetched' = [fetched EXCEPT ![q] = None]
  /\ UNCHANGED <<serving, rows, job, before, accidents>>

\* A connection that nobody holds any more is put in order and back into the
\* pool: a transaction that was dropped is rolled back.
GiveBack(c) ==
  /\ connection[c].holder = None
  /\ connection[c].phase \in {"open", "plain", "committed"}
  /\ connection' =
       [connection EXCEPT ![c] =
          IF @.phase = "open" THEN Idle ELSE [@ EXCEPT !.phase = "idle"]]
  /\ UNCHANGED <<serving, rows, at, job, fetched, answer, before, accidents>>

-----------------------------------------------------------------------------
\* The client leaves: its handler is dropped where it is.
Leave(q) ==
  /\ q \in InFlight
  /\ accidents < MaxAccidents
  /\ accidents' = accidents + 1
  /\ Reaches(q, "gone")
  /\ connection' =
       IF HeldBy(q) = {} THEN connection ELSE Dropped(OwnConnection(q))
  /\ fetched' = [fetched EXCEPT ![q] = None]
  /\ UNCHANGED <<serving, rows, job, answer, before>>

\* A connection is lost; a COMMIT on its way is executed or not.
LoseConnection(c) ==
  /\ connection[c].phase \notin {"closed", "idle"}
  /\ accidents < MaxAccidents
  /\ accidents' = accidents + 1
  /\ \/ UNCHANGED rows
     \/ connection[c].phase = "committing" /\ rows' = RowsWith(connection[c])
  /\ connection' = [connection EXCEPT ![c] = Closed]
  /\ LET q == connection[c].holder IN
     IF q = None THEN UNCHANGED <<at, answer, fetched>>
     ELSE /\ Answers(q, ErrorCode(q), "lost")
          /\ fetched' = [fetched EXCEPT ![q] = None]
  /\ UNCHANGED <<serving, job, before>>

\* shutdown_signal: Ctrl-C, SIGTERM, or a listener of one of them that cannot
\* be set.
Interrupt ==
  /\ serving = "running"
  /\ serving' = "stopping"
  /\ UNCHANGED <<rows, connection, at, job, fetched, answer, before, accidents>>

\* with_graceful_shutdown: nothing is accepted any more, what was is served.
\* PostgreSQL ends what the process leaves to it.
Exit ==
  /\ serving = "stopping"
  /\ InFlight = {}
  /\ serving' = "exited"
  /\ UNCHANGED <<rows, connection, at, job, fetched, answer, before, accidents>>

Handle(q) ==
  \/ Begin(q) \/ NoConnection(q) \/ Ping(q)
  \/ LockBalance(q) \/ InsertTask(q) \/ SelectTask(q) \/ SendCommit(q) \/ Conclude(q)

=============================================================================
