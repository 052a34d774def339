-------------------------- MODULE Deployment_proofs --------------------------
(***************************************************************************)
(* Theorems about Deployment, for every number of instances, requests and  *)
(* connections, every set of organisations and tasks.                      *)
(***************************************************************************)
EXTENDS Deployment, FiniteSetTheorems, TLAPS

-----------------------------------------------------------------------------
(***************************************************************************)
(* Types                                                                   *)
(***************************************************************************)
Insertions == [task : Tasks, org : Orgs, by : Requests]

Rows == [org : Orgs, by : {0} \cup Requests]

Sessions ==
  [phase   : {"closed", "idle", "open", "plain", "committing", "committed"},
   holder  : Requests \cup {None},
   org     : Orgs \cup {None},
   locked  : Orgs \cup {None},
   inserts : Insertions \cup {None}]

Works == {[kind |-> "health", org |-> None, task |-> None, ceiling |-> 0]}
           \cup [kind : {"create", "read"}, org : Orgs, task : Tasks, ceiling : Int]

Codes == {0, 200, 201, 404, 422, 500, 503}

Errors == {"none", "unfunded", "accounting", "taken", "timeout", "denied", "lost",
           "missing"}

Replies == [code : Codes, error : Errors]

Labels == {"absent", "acquiring", "begun", "charged", "worked", "committing",
           "answered", "gone"}

MigrationTypes ==
  /\ applied \in 0 .. Latest
  /\ doubled \in BOOLEAN
  /\ role \in [password : Passwords \cup {Secret[m] : m \in Migrators}, version : Nat]
  /\ step \in [Migrators -> {"absent", "migrating", "migrated", "altering",
                              "done", "refused", "failed", "crashed"}]
  /\ seen \in [Migrators -> Nat]

ServerTypes ==
  /\ serving \in {"absent", "running", "stopping", "exited", "failed"}
  /\ rows \in [Tasks -> Rows \cup {None}]
  /\ connection \in [Connections -> Sessions]
  /\ at \in [Requests -> Labels]
  /\ job \in [Requests -> Works]
  /\ fetched \in [Requests -> Rows \cup {None}]
  /\ answer \in [Requests -> Replies]
  /\ before \in [Requests -> Rows \cup {None}]

TypeOK == MigrationTypes /\ ServerTypes

-----------------------------------------------------------------------------
\* One ALTER ROLE at a time, on the version it read; whoever is past the
\* migrations has seen them all, and so has whoever gave the role a password; a
\* session opened before that was opened with the password of before.
MigrationIsOrderly ==
  /\ \A m, n \in Migrators : step[m] = "altering" /\ step[n] = "altering" => m = n
  /\ \A m \in Migrators :
       /\ step[m] = "altering" => seen[m] = role.version
       /\ step[m] \in {"migrated", "altering", "done"} => applied = Latest
       /\ step[m] # "failed"
  /\ role.version > 0 => applied = Latest
  /\ \A c \in Connections : connection[c].phase # "closed" =>
       applied = Latest \/ role = [password |-> OwnSecret, version |-> 0]

\* What a request created, as it stands in the table.
Row(q) == [org |-> job[q].org, by |-> q]

\* The row a request brings to the table.
Insertion(q) == [task |-> job[q].task, org |-> job[q].org, by |-> q]

\* A session that serves nobody: put in order, or still to be.
SessionIsClean(s) ==
  /\ s.phase = "closed" => s = Closed
  /\ s.phase = "idle" => s = Idle
  /\ s.phase \in {"plain", "committed"} =>
       s.org = None /\ s.locked = None /\ s.inserts = None

\* A session that serves a request is where the request is.
SessionFollows(s, q) ==
  /\ at[q] = "begun" =>
       /\ s.phase = IF job[q].kind = "health" THEN "plain" ELSE "open"
       /\ s.org = job[q].org
       /\ s.inserts = None
  /\ at[q] = "charged" => s.phase = "open" /\ s.org = job[q].org /\ s.inserts = None
  /\ at[q] = "worked" =>
       /\ s.phase = "open" /\ s.org = job[q].org
       /\ s.inserts = IF job[q].kind = "create" THEN Insertion(q) ELSE None
  /\ at[q] = "committing" =>
       \/ /\ s.phase = "committing"
          /\ s.inserts = IF job[q].kind = "create" THEN Insertion(q) ELSE None
       \/ /\ s.phase = "committed"
          /\ job[q].kind = "create" => rows[job[q].task] = Row(q)

\* A row on its way: its request asks for it, and the table does not have it.
InsertionIsSound(s) ==
  LET q == s.inserts.by IN
  /\ s.phase \in {"open", "committing"}
  /\ rows[s.inserts.task] = None
  /\ job[q].kind = "create" /\ job[q].ceiling >= 0
  /\ s.inserts = Insertion(q)
  /\ s.holder = q \/ at[q] = "gone"

Working == {"begun", "charged", "worked", "committing"}

SessionIsSound(s) ==
  /\ SessionIsClean(s)
  /\ s.inserts # None => InsertionIsSound(s)
  /\ s.holder # None => at[s.holder] \in Working /\ SessionFollows(s, s.holder)

\* Two sessions serve two requests and bring two tasks.
Apart(s, r) ==
  /\ s.holder # None => s.holder # r.holder
  /\ s.inserts # None /\ r.inserts # None => s.inserts.task # r.inserts.task

ConnectionsAreSound ==
  \A c \in Connections :
    /\ SessionIsSound(connection[c])
    /\ \A d \in Connections \ {c} : Apart(connection[c], connection[d])

\* A row of the table was created by the request that says so, unless it is
\* older than the process.
RowIsSound(t) ==
  LET q == rows[t].by IN
  /\ job[q].kind = "create" /\ job[q].ceiling >= 0 /\ job[q].task = t
  /\ rows[t] = Row(q)
  /\ at[q] \in {"committing", "answered", "gone"}
  /\ at[q] = "answered" => answer[q].code = 201 \/ answer[q].error = "lost"

RowsAreSound == \A t \in Tasks : rows[t] # None /\ rows[t].by \in Requests => RowIsSound(t)

\* What a request knows, and that it has a connection while it works.
RequestIsSound(q) ==
  /\ at[q] \in Working => \E c \in Connections : connection[c].holder = q
  /\ at[q] = "absent" => job[q] = Health
  /\ at[q] = "charged" => job[q].kind = "create" /\ job[q].ceiling >= 0
  /\ at[q] \in {"worked", "committing"} =>
       \/ job[q].kind = "create" /\ job[q].ceiling >= 0
       \/ job[q].kind = "read"
  /\ before[q] # None => job[q].kind = "read" /\ rows[job[q].task] = before[q]
  /\ fetched[q] # None =>
       /\ at[q] \in {"worked", "committing"} /\ job[q].kind = "read"
       /\ rows[job[q].task] = fetched[q] /\ fetched[q].org = job[q].org
  /\ at[q] \in {"worked", "committing"} /\ job[q].kind = "read" /\ fetched[q] = None =>
       before[q] = None \/ before[q].org # job[q].org
  /\ at[q] # "answered" => answer[q] = Unanswered

\* What a request was answered, against the table.
AnswerIsFounded(q) ==
  /\ answer[q].code = 200 /\ job[q].kind = "read" =>
       rows[job[q].task] # None /\ rows[job[q].task].org = job[q].org
  /\ answer[q].code = 201 => job[q].kind = "create" /\ rows[job[q].task] = Row(q)
  /\ answer[q].code = 404 => before[q] = None \/ before[q].org # job[q].org
  /\ answer[q].error = "taken" => job[q].kind = "create" /\ rows[job[q].task] # None

RequestsAreSound == \A q \in Requests : RequestIsSound(q) /\ AnswerIsFounded(q)

\* Before it serves, the process has no connection and no request.
ServingIsSound ==
  serving = "absent" =>
    /\ \A c \in Connections : connection[c] = Closed
    /\ \A q \in Requests : at[q] = "absent"

ServerIsSound == ServingIsSound /\ ConnectionsAreSound /\ RowsAreSound /\ RequestsAreSound

\* The inductive invariant.
IInv == TypeOK /\ MigrationIsOrderly /\ ServerIsSound
-----------------------------------------------------------------------------
(***************************************************************************)
(* Types                                                                   *)
(***************************************************************************)
\* None is no request, no organisation and no task, and no row.
LEMMA NoneIsNothing ==
  /\ None \notin Requests /\ None \notin Orgs /\ None \notin Tasks /\ OwnSecret # None
  /\ None \notin Rows /\ None \notin Insertions
BY NoneAssumption, ServerAssumption DEF Requests, Rows, Insertions

\* What a request may ask for has its type.
LEMMA JobsAreWorks ==
  ASSUME NEW q \in Requests, NEW j \in Jobs[q]
  PROVE  j \in Works
<1>1. \/ j = Health
      \/ \E o \in Orgs, t \in Tasks : j = Read(o, t) \/ (j.ceiling \in Int /\ j = Create(o, t, j.ceiling))
  BY ServerAssumption DEF Requests
<1>2. CASE j = Health
  BY <1>2 DEF Health, Works
<1>3. CASE \E o \in Orgs, t \in Tasks : j = Read(o, t)
  BY <1>3 DEF Read, Works
<1>4. CASE \E o \in Orgs, t \in Tasks : j.ceiling \in Int /\ j = Create(o, t, j.ceiling)
  BY <1>4 DEF Create, Works
<1> QED
  BY <1>1, <1>2, <1>3, <1>4

\* The codes of the errors.
LEMMA ErrorCodeType ==
  ASSUME NEW q \in Requests, job[q] \in Works
  PROVE  /\ ErrorCode(q) \in {422, 500, 503}
         /\ job[q].kind = "create" => ErrorCode(q) = 422
         /\ job[q].kind = "read" => ErrorCode(q) = 500
         /\ job[q].kind = "health" => ErrorCode(q) = 503
BY DEF ErrorCode, Works

\* The initial state has its type.
LEMMA InitTypes == Init => TypeOK
<1>1. Init => MigrationTypes
  BY MigrationAssumption DEF Init, InitMigration, MigrationTypes
<1>2. Init => rows \in [Tasks -> Rows \cup {None}]
  BY DEF Init, InitServer, Rows
<1> QED
  BY <1>1, <1>2, NoneIsNothing
     DEF Init, InitServer, TypeOK, ServerTypes, Sessions,
         Closed, Works, Health, Unanswered, Labels, Replies, Codes, Errors

\* A step of kollega migrate keeps the types.
LEMMA MigrateTypes ==
  ASSUME TypeOK, NEW m \in Migrators, Migrate(m) \/ CrashMigration(m)
  PROVE  MigrationTypes'
<1> USE DEF TypeOK, MigrationTypes, Goes
<1>1. CASE LockSchema(m)
  BY <1>1 DEF LockSchema
<1>2. CASE Apply(m)
  BY <1>2, MigrationAssumption DEF Apply
<1>3. CASE Migrated(m)
  BY <1>3 DEF Migrated
<1>4. CASE AlterRole(m)
  BY <1>4 DEF AlterRole
<1>5. CASE CommitRole(m)
  BY <1>5 DEF CommitRole
<1>6. CASE CrashMigration(m)
  BY <1>6 DEF CrashMigration
<1>7. CASE Refuse(m)
  BY <1>7 DEF Refuse
<1> QED
  BY <1>1, <1>2, <1>3, <1>4, <1>5, <1>6, <1>7 DEF Migrate
\* A step of the server, or of what it depends on.
ServerStep ==
  \/ StartServing \/ Interrupt \/ Exit
  \/ \E q \in Requests : Accept(q) \/ Handle(q) \/ Leave(q)
  \/ \E c \in Connections : ExecuteCommit(c) \/ GiveBack(c) \/ LoseConnection(c)

\* A session of which a part changes is a session.
LEMMA SessionTypes ==
  ASSUME NEW s \in Sessions
  PROVE  /\ [s EXCEPT !.holder = None] \in Sessions
         /\ [s EXCEPT !.phase = "idle"] \in Sessions
         /\ [s EXCEPT !.phase = "committing"] \in Sessions
         /\ [s EXCEPT !.holder = None, !.phase = "idle"] \in Sessions
         /\ \A o \in Orgs \cup {None} : [s EXCEPT !.locked = o] \in Sessions
         /\ \A i \in Insertions : [s EXCEPT !.inserts = i] \in Sessions
         /\ \A q \in Requests, p \in {"plain", "open"}, o \in Orgs \cup {None} :
              [s EXCEPT !.phase = p, !.holder = q, !.org = o] \in Sessions
<1>1. [s EXCEPT !.holder = None] \in Sessions
  BY DEF Sessions
<1>2. \A p \in {"idle", "committing"} : [s EXCEPT !.phase = p] \in Sessions
  BY DEF Sessions
<1>3. [s EXCEPT !.holder = None, !.phase = "idle"] \in Sessions
  BY DEF Sessions
<1>4. \A o \in Orgs \cup {None} : [s EXCEPT !.locked = o] \in Sessions
  BY DEF Sessions
<1>5. \A i \in Insertions : [s EXCEPT !.inserts = i] \in Sessions
  BY DEF Sessions
<1>6. \A q \in Requests, p \in {"plain", "open"}, o \in Orgs \cup {None} :
        [s EXCEPT !.phase = p, !.holder = q, !.org = o] \in Sessions
  BY DEF Sessions
<1> QED
  BY <1>1, <1>2, <1>3, <1>4, <1>5, <1>6

\* One connection that changes leaves a pool; so does one that is dropped.
LEMMA PoolTypes ==
  ASSUME ServerTypes
  PROVE  /\ \A c, s \in Sessions : [connection EXCEPT ![c] = s] \in [Connections -> Sessions]
         /\ \A c : Dropped(c) \in [Connections -> Sessions]
<1>1. \A c, s \in Sessions : [connection EXCEPT ![c] = s] \in [Connections -> Sessions]
  BY DEF ServerTypes
<1>2. ASSUME NEW c
      PROVE  Dropped(c) \in [Connections -> Sessions]
  <2>1. Dropped(c) = [connection EXCEPT ![c] = [connection[c] EXCEPT !.holder = None]]
    BY DEF Dropped
  <2>2. CASE c \in Connections
    BY <2>1, <2>2, SessionTypes DEF ServerTypes
  <2>3. CASE c \notin Connections
    BY <2>1, <2>3 DEF ServerTypes
  <2> QED
    BY <2>2, <2>3
<1> QED
  BY <1>1, <1>2

\* The two states of a connection that serves nobody.
LEMMA RestTypes ==
  /\ Closed \in Sessions /\ Idle \in Sessions
  /\ Idle = [phase |-> "idle", holder |-> None, org |-> None, locked |-> None, inserts |-> None]
BY DEF Closed, Idle, Sessions

\* What COMMIT leaves of a session, and of the table.
LEMMA CommitTypes ==
  ASSUME ServerTypes, NEW s \in Sessions
  PROVE  AfterCommit(s) \in Sessions /\ RowsWith(s) \in [Tasks -> Rows \cup {None}]
<1>1. AfterCommit(s) \in Sessions
  BY DEF AfterCommit, AfterCommitOfSession, Sessions
<1>2. CASE s.inserts = None
  BY <1>1, <1>2 DEF RowsWith, ServerTypes
<1>3. CASE s.inserts # None
  <2>1. s.inserts \in Insertions
    BY <1>3 DEF Sessions
  <2>2. [org |-> s.inserts.org, by |-> s.inserts.by] \in Rows
    BY <2>1 DEF Insertions, Rows
  <2> QED
    BY <1>1, <1>3, <2>2 DEF RowsWith, ServerTypes
<1> QED
  BY <1>2, <1>3

\* An answer has the type of an answer.
LEMMA AnswersType ==
  ASSUME ServerTypes, NEW q, NEW code \in Codes, NEW error \in Errors,
         Answers(q, code, error)
  PROVE  /\ at' \in [Requests -> Labels]
         /\ answer' \in [Requests -> Replies]
BY DEF ServerTypes, Answers, Reaches, Labels, Replies

\* A step of the server keeps the types.
LEMMA ServerStepTypes ==
  ASSUME TypeOK, ServerStep
  PROVE  ServerTypes'
<1> USE DEF TypeOK
<1>1. CASE StartServing
  BY <1>1, PoolTypes, RestTypes DEF StartServing, ServerTypes
<1>2. CASE Interrupt \/ Exit
  BY <1>2 DEF Interrupt, Exit, ServerTypes
<1>3. ASSUME NEW q \in Requests, Accept(q)
      PROVE  ServerTypes'
  <2>1. PICK j \in Jobs[q] :
          /\ job' = [job EXCEPT ![q] = j]
          /\ before' = [before EXCEPT ![q] = IF j.kind = "read" THEN rows[j.task] ELSE None]
    BY <1>3 DEF Accept
  <2>2. j \in Works
    BY JobsAreWorks
  <2>3. j.kind = "read" => rows[j.task] \in Rows \cup {None}
    BY <2>2 DEF ServerTypes, Works
  <2>4. job' \in [Requests -> Works] /\ before' \in [Requests -> Rows \cup {None}]
    BY <2>1, <2>2, <2>3 DEF ServerTypes
  <2> QED
    BY <1>3, <2>4 DEF Accept, Reaches, ServerTypes, Labels
<1>4. ASSUME NEW q \in Requests, Begin(q)
      PROVE  ServerTypes'
  <2>1. \E c : connection' =
          [connection EXCEPT ![c].phase = IF job[q].kind = "health" THEN "plain" ELSE "open",
                             ![c].holder = q, ![c].org = job[q].org]
    BY <1>4 DEF Begin
  <2>2. PICK c : connection' =
          [connection EXCEPT ![c].phase = IF job[q].kind = "health" THEN "plain" ELSE "open",
                             ![c].holder = q, ![c].org = job[q].org]
    BY <2>1
  <2>3. job[q].org \in Orgs \cup {None}
    BY DEF ServerTypes, Works
  <2>4. \A d \in Connections :
          [connection[d] EXCEPT !.phase = IF job[q].kind = "health" THEN "plain" ELSE "open",
                                !.holder = q, !.org = job[q].org] \in Sessions
    BY <2>3, SessionTypes DEF ServerTypes
  <2>5. connection' \in [Connections -> Sessions]
    BY <2>2, <2>4 DEF ServerTypes
  <2> QED
    BY <1>4, <2>5 DEF Begin, Reaches, ServerTypes, Labels
<1>5. ASSUME NEW q \in Requests, NoConnection(q)
      PROVE  ServerTypes'
  BY <1>5, AnswersType, ErrorCodeType DEF NoConnection, ServerTypes, Codes, Errors
<1>6. ASSUME NEW q \in Requests, Ping(q)
      PROVE  ServerTypes'
  <2>1. connection' = [connection EXCEPT ![OwnConnection(q)] = Idle]
    BY <1>6 DEF Ping
  <2>2. connection' \in [Connections -> Sessions]
    BY <2>1, RestTypes DEF ServerTypes
  <2> QED
    BY <1>6, <2>2, AnswersType DEF Ping, ServerTypes, Codes, Errors
<1>7. ASSUME NEW q \in Requests, LockBalance(q)
      PROVE  ServerTypes'
  <2>1. job[q].org \in Orgs \cup {None}
    BY DEF ServerTypes, Works
  <2>2. connection' \in [Connections -> Sessions]
    <3>1. \A d \in Connections : \A s \in Sessions :
            [s EXCEPT !.locked = job[q].org] \in Sessions
      BY <2>1, SessionTypes
    <3>2. \A f \in [Connections -> Sessions] : \A d :
            [f EXCEPT ![d].locked = job[q].org] \in [Connections -> Sessions]
      BY <3>1
    <3> QED
      BY <1>7, <3>2, PoolTypes DEF LockBalance, Fails, ServerTypes
  <2>3. /\ at' \in [Requests -> Labels]
        /\ answer' \in [Requests -> Replies]
    BY <1>7, AnswersType, ErrorCodeType
       DEF LockBalance, Fails, Reaches, ServerTypes, Labels, Codes, Errors
  <2> QED
    BY <1>7, <2>2, <2>3 DEF LockBalance, ServerTypes
<1>8. ASSUME NEW q \in Requests, InsertTask(q)
      PROVE  ServerTypes'
  <2>1. [task |-> job[q].task, org |-> job[q].org, by |-> q] \in Insertions
    BY <1>8 DEF InsertTask, Creating, ServerTypes, Works, Insertions
  <2>2. connection' \in [Connections -> Sessions]
    <3>1. \A d \in Connections :
            [connection[d] EXCEPT !.inserts = [task |-> job[q].task, org |-> job[q].org, by |-> q]]
              \in Sessions
      BY <2>1, SessionTypes DEF ServerTypes
    <3>2. Inserting(q) \in [Connections -> Sessions]
      BY <3>1 DEF Inserting, ServerTypes
    <3> QED
      BY <1>8, <3>2, PoolTypes DEF InsertTask, Fails
  <2>3. /\ at' \in [Requests -> Labels]
        /\ answer' \in [Requests -> Replies]
    BY <1>8, AnswersType, ErrorCodeType
       DEF InsertTask, Fails, Reaches, ServerTypes, Labels, Codes, Errors
  <2> QED
    BY <1>8, <2>2, <2>3 DEF InsertTask, ServerTypes
<1>9. ASSUME NEW q \in Requests, SelectTask(q)
      PROVE  ServerTypes'
  <2>1. CASE applied < Tables
    <3>1. Answers(q, ErrorCode(q), "missing") /\ connection' = Dropped(OwnConnection(q))
      BY <1>9, <2>1 DEF SelectTask, Fails
    <3>2. connection' \in [Connections -> Sessions]
      BY <3>1, PoolTypes
    <3>3. at' \in [Requests -> Labels] /\ answer' \in [Requests -> Replies]
      BY <3>1, AnswersType, ErrorCodeType DEF ServerTypes, Codes, Errors
    <3> QED
      BY <1>9, <2>1, <3>2, <3>3 DEF SelectTask, ServerTypes
  <2>2. CASE ~(applied < Tables)
    <3>1. rows[job[q].task] \in Rows \cup {None}
      BY <1>9 DEF SelectTask, ServerTypes, Works
    <3> QED
      BY <1>9, <2>2, <3>1 DEF SelectTask, Reaches, ServerTypes, Labels
  <2> QED
    BY <2>1, <2>2
<1>10. ASSUME NEW q \in Requests, SendCommit(q)
       PROVE  ServerTypes'
  <2>1. connection' \in [Connections -> Sessions]
    BY <1>10, SessionTypes DEF SendCommit, ServerTypes
  <2> QED
    BY <1>10, <2>1 DEF SendCommit, Reaches, ServerTypes, Labels
<1>11. ASSUME NEW q \in Requests, Conclude(q)
       PROVE  ServerTypes'
  <2>1. connection' \in [Connections -> Sessions]
    BY <1>11, SessionTypes DEF Conclude, ServerTypes
  <2> QED
    BY <1>11, <2>1, AnswersType DEF Conclude, ServerTypes, Codes, Errors
<1>12. ASSUME NEW q \in Requests, Leave(q)
       PROVE  ServerTypes'
  BY <1>12, PoolTypes DEF Leave, Reaches, ServerTypes, Labels
<1>13. ASSUME NEW c \in Connections, ExecuteCommit(c)
       PROVE  ServerTypes'
  <2>1. connection[c] \in Sessions
    BY DEF ServerTypes
  <2> QED
    BY <1>13, <2>1, CommitTypes DEF ExecuteCommit, ServerTypes
<1>14. ASSUME NEW c \in Connections, GiveBack(c)
       PROVE  ServerTypes'
  <2>1. CASE connection[c].phase = "open"
    BY <1>14, <2>1, RestTypes, PoolTypes DEF GiveBack, ServerTypes
  <2>2. CASE connection[c].phase # "open"
    <3>1. [connection[c] EXCEPT !.phase = "idle"] \in Sessions
      BY DEF ServerTypes, Sessions
    <3> QED
      BY <1>14, <2>2, <3>1, PoolTypes DEF GiveBack, ServerTypes
  <2> QED
    BY <2>1, <2>2
<1>15. ASSUME NEW c \in Connections, LoseConnection(c)
       PROVE  ServerTypes'
  <2>1. connection[c] \in Sessions
    BY DEF ServerTypes
  <2>2. rows' \in [Tasks -> Rows \cup {None}]
    BY <1>15, <2>1, CommitTypes DEF LoseConnection, ServerTypes
  <2>3. connection' \in [Connections -> Sessions]
    <3>1. connection' = [connection EXCEPT ![c] = Closed]
      BY <1>15 DEF LoseConnection
    <3> QED
      BY <3>1, RestTypes DEF ServerTypes
  <2>4. CASE connection[c].holder = None
    BY <1>15, <2>2, <2>3, <2>4 DEF LoseConnection, ServerTypes
  <2>5. CASE connection[c].holder # None
    <3>1. connection[c].holder \in Requests
      BY <2>1, <2>5 DEF Sessions
    <3>2. ErrorCode(connection[c].holder) \in {422, 500, 503}
      BY <3>1, ErrorCodeType DEF ServerTypes
    <3> QED
      BY <1>15, <2>2, <2>3, <2>5, <3>2, AnswersType
         DEF LoseConnection, ServerTypes, Codes, Errors
  <2> QED
    BY <2>4, <2>5
<1> QED
  BY <1>1, <1>2, <1>3, <1>4, <1>5, <1>6, <1>7, <1>8, <1>9, <1>10, <1>11, <1>12, <1>13,
     <1>14, <1>15
  DEF ServerStep, Handle
-----------------------------------------------------------------------------
(***************************************************************************)
(* Connections, rows and requests                                          *)
(***************************************************************************)
\* A request that works has one connection, its own.
LEMMA OwnConnectionIsHeld ==
  ASSUME ServerTypes, ServerIsSound, NEW q \in Requests, at[q] \in Working
  PROVE  /\ OwnConnection(q) \in Connections
         /\ connection[OwnConnection(q)].holder = q
         /\ \A d \in Connections \ {OwnConnection(q)} : connection[d].holder # q
         /\ connection[OwnConnection(q)] \in Sessions
         /\ SessionFollows(connection[OwnConnection(q)], q)
<1>1. OwnConnection(q) \in Connections /\ connection[OwnConnection(q)].holder = q
  BY DEF ServerIsSound, RequestsAreSound, RequestIsSound, OwnConnection
<1>2. \A d \in Connections \ {OwnConnection(q)} : connection[d].holder # q
  BY <1>1, NoneIsNothing DEF ServerIsSound, ConnectionsAreSound, Apart
<1>3. SessionFollows(connection[OwnConnection(q)], q)
  BY <1>1, NoneIsNothing DEF ServerIsSound, ConnectionsAreSound, SessionIsSound
<1> QED
  BY <1>1, <1>2, <1>3 DEF ServerTypes

\* Nothing is held by a request that does not work.
LEMMA NothingIsHeld ==
  ASSUME ServerTypes, ServerIsSound, NEW q \in Requests, at[q] \notin Working
  PROVE  \A d \in Connections : connection[d].holder # q
BY NoneIsNothing DEF ServerIsSound, ConnectionsAreSound, SessionIsSound

\* A session that a step of q does not touch, nor what it stands for.
LEMMA OtherSessions ==
  ASSUME NEW s \in Sessions, SessionIsSound(s), NEW q \in Requests,
         s.holder # q,
         at[q] = "gone" => at'[q] = "gone",
         \A p \in Requests \ {q} : at'[p] = at[p],
         UNCHANGED <<rows, job>>
  PROVE  SessionIsSound(s)'
<1>1. SessionIsClean(s)'
  BY DEF SessionIsSound, SessionIsClean
<1>2. s.inserts # None => InsertionIsSound(s)'
  <2>1. s.inserts # None => s.inserts.by \in Requests
    BY DEF Sessions, Insertions
  <2> QED
    BY <2>1 DEF SessionIsSound, InsertionIsSound, Insertion
<1>3. s.holder # None => (at[s.holder] \in Working /\ SessionFollows(s, s.holder))'
  <2>1. s.holder # None => s.holder \in Requests \ {q}
    BY DEF Sessions
  <2> QED
    BY <2>1 DEF SessionIsSound, SessionFollows, Insertion, Row
<1> QED
  BY <1>1, <1>2, <1>3 DEF SessionIsSound

\* A request that a step of q does not touch.
LEMMA OtherRequests ==
  ASSUME ServerTypes, NEW p \in Requests, RequestIsSound(p), AnswerIsFounded(p),
         UNCHANGED <<rows, job, before>>,
         at'[p] = at[p] /\ answer'[p] = answer[p] /\ fetched'[p] = fetched[p],
         \A c \in Connections : connection[c].holder = p => connection'[c].holder = p
  PROVE  (RequestIsSound(p) /\ AnswerIsFounded(p))'
BY DEF RequestIsSound, AnswerIsFounded, Row

\* A step of a handler touches its request and one connection, which serves
\* nobody else; the rest of the server stays sound.
LEMMA HandlerFrame ==
  ASSUME ServerTypes, ServerIsSound, NEW q \in Requests, NEW c \in Connections,
         connection[c].holder \in {None, q},
         \A d \in Connections \ {c} : connection[d].holder # q,
         UNCHANGED <<serving, rows, job, before>>,
         at[q] # "absent", at[q] # "gone",
         \A p \in Requests \ {q} :
           at'[p] = at[p] /\ answer'[p] = answer[p] /\ fetched'[p] = fetched[p],
         \A d \in Connections \ {c} : connection'[d] = connection[d],
         SessionIsSound(connection[c])',
         connection'[c].holder \in {None, q},
         \A d \in Connections \ {c} :
           connection'[c].inserts # None /\ connection[d].inserts # None =>
             connection'[c].inserts.task # connection[d].inserts.task,
         (RequestIsSound(q) /\ AnswerIsFounded(q))',
         \A t \in Tasks : rows[t] # None /\ rows[t].by = q =>
           /\ at'[q] \in {"committing", "answered", "gone"}
           /\ at'[q] = "answered" => answer'[q].code = 201 \/ answer'[q].error = "lost"
  PROVE  ServerIsSound'
<1>1. ServingIsSound'
  BY DEF ServerIsSound, ServingIsSound
<1>2. ConnectionsAreSound'
  <2>1. ASSUME NEW d \in Connections \ {c}
        PROVE  SessionIsSound(connection[d])'
    <3>1. connection[d] \in Sessions /\ SessionIsSound(connection[d])
      BY DEF ServerTypes, ServerIsSound, ConnectionsAreSound
    <3>2. PICK s \in Sessions : s = connection[d]
      BY <3>1
    <3>3. SessionIsSound(s)'
      BY <3>1, <3>2, OtherSessions
    <3>4. connection'[d] = s
      BY <3>2
    <3> QED
      BY <3>3, <3>4
         DEF SessionIsSound, SessionIsClean, SessionFollows, InsertionIsSound, Insertion, Row
  <2>2. \A d, e \in Connections \ {c} : d # e => Apart(connection[d], connection[e])'
    BY DEF ServerIsSound, ConnectionsAreSound, Apart
  <2>3. \A d \in Connections \ {c} :
          Apart(connection[c], connection[d])' /\ Apart(connection[d], connection[c])'
    BY NoneIsNothing DEF ServerIsSound, ConnectionsAreSound, Apart
  <2> QED
    BY <2>1, <2>2, <2>3 DEF ConnectionsAreSound
<1>3. RowsAreSound'
  BY DEF ServerIsSound, RowsAreSound, RowIsSound, Row
<1>4. RequestsAreSound'
  <2>1. ASSUME NEW p \in Requests \ {q}
        PROVE  (RequestIsSound(p) /\ AnswerIsFounded(p))'
    <3>1. \A d \in Connections : connection[d].holder = p => connection'[d].holder = p
      BY NoneIsNothing
    <3> QED
      BY <3>1, OtherRequests DEF ServerIsSound, RequestsAreSound
  <2> QED
    BY <2>1 DEF RequestsAreSound
<1> QED
  BY <1>1, <1>2, <1>3, <1>4 DEF ServerIsSound
\* The end of a request that has no connection yet.
LEMMA WaitingFrame ==
  ASSUME ServerTypes, ServerIsSound, NEW q \in Requests, at[q] = "acquiring",
         UNCHANGED <<serving, rows, job, before, connection>>,
         \A p \in Requests \ {q} :
           at'[p] = at[p] /\ answer'[p] = answer[p] /\ fetched'[p] = fetched[p],
         (RequestIsSound(q) /\ AnswerIsFounded(q))'
  PROVE  ServerIsSound'
<1>1. ServingIsSound'
  BY DEF ServerIsSound, ServingIsSound
<1>2. ConnectionsAreSound'
  <2>1. ASSUME NEW d \in Connections
        PROVE  SessionIsSound(connection[d])'
    <3>1. connection[d] \in Sessions /\ SessionIsSound(connection[d])
      BY DEF ServerTypes, ServerIsSound, ConnectionsAreSound
    <3>2. PICK s \in Sessions : s = connection[d]
      BY <3>1
    <3>3. s.holder # q
      BY <3>2, NothingIsHeld DEF Working
    <3>4. SessionIsSound(s)'
      BY <3>1, <3>2, <3>3, OtherSessions
    <3>5. connection'[d] = s
      BY <3>2
    <3> QED
      BY <3>4, <3>5
         DEF SessionIsSound, SessionIsClean, SessionFollows, InsertionIsSound, Insertion, Row
  <2> QED
    BY <2>1 DEF ServerIsSound, ConnectionsAreSound, Apart
<1>3. RowsAreSound'
  <2>1. \A t \in Tasks : rows[t] # None => rows[t].by # q
    BY DEF ServerIsSound, RowsAreSound, RowIsSound
  <2> QED
    BY <2>1 DEF ServerIsSound, RowsAreSound, RowIsSound, Row
<1>4. RequestsAreSound'
  <2>1. ASSUME NEW p \in Requests \ {q}
        PROVE  (RequestIsSound(p) /\ AnswerIsFounded(p))'
    BY OtherRequests DEF ServerIsSound, RequestsAreSound
  <2> QED
    BY <2>1 DEF RequestsAreSound
<1> QED
  BY <1>1, <1>2, <1>3, <1>4 DEF ServerIsSound

\* A connection is taken.
LEMMA BeginSound ==
  ASSUME ServerTypes, ServerIsSound, NEW q \in Requests, Begin(q)
  PROVE  ServerIsSound'
<1>1. PICK c \in Connections :
        c = (CHOOSE d \in Usable : TRUE) /\ connection[c] \in {Idle, Closed}
  <2>1. (CHOOSE d \in Usable : TRUE) \in Usable
    BY DEF Begin
  <2> QED
    BY <2>1 DEF Usable, InPhase, ServerIsSound, ConnectionsAreSound, SessionIsSound, SessionIsClean
<1>2. connection' =
        [connection EXCEPT ![c].phase = IF job[q].kind = "health" THEN "plain" ELSE "open",
                           ![c].holder = q, ![c].org = job[q].org]
  BY <1>1 DEF Begin
<1>3. /\ connection'[c].phase = IF job[q].kind = "health" THEN "plain" ELSE "open"
      /\ connection'[c].holder = q
      /\ connection'[c].org = job[q].org
      /\ connection'[c].locked = None
      /\ connection'[c].inserts = None
  <2>1. connection'[c] =
          [connection[c] EXCEPT !.phase = IF job[q].kind = "health" THEN "plain" ELSE "open",
                                !.holder = q, !.org = job[q].org]
    BY <1>2 DEF ServerTypes
  <2>2. CASE connection[c] = Idle
    BY <2>1, <2>2, RestTypes
  <2>3. CASE connection[c] = Closed
    BY <2>1, <2>3 DEF Closed
  <2> QED
    BY <1>1, <2>2, <2>3
<1>4. \A d \in Connections \ {c} : connection'[d] = connection[d]
  BY <1>2 DEF ServerTypes
<1>5. /\ at' = [at EXCEPT ![q] = "begun"] /\ at[q] = "acquiring"
      /\ UNCHANGED <<serving, rows, job, fetched, answer, before>>
  BY DEF Begin, Reaches
<1>6. at'[q] = "begun" /\ \A p \in Requests \ {q} : at'[p] = at[p]
  BY <1>5 DEF ServerTypes
<1>7. job[q].kind = "health" => job[q].org = None
  BY DEF ServerTypes, Works
<1>8. SessionIsSound(connection[c])'
  BY <1>3, <1>5, <1>6, <1>7, NoneIsNothing
     DEF SessionIsSound, SessionIsClean, SessionFollows, Working
<1>9. RequestIsSound(q)'
  BY <1>1, <1>3, <1>5, <1>6 DEF ServerIsSound, RequestsAreSound, RequestIsSound
<1>10. AnswerIsFounded(q)'
  BY <1>5 DEF ServerIsSound, RequestsAreSound, AnswerIsFounded, Row
<1>11. \A d \in Connections : connection[d].holder # q
  BY <1>5, NothingIsHeld DEF Working
<1>12. \A t \in Tasks : rows[t] # None => rows[t].by # q
  BY <1>5 DEF ServerIsSound, RowsAreSound, RowIsSound
<1>13. connection[c].holder = None
  BY <1>1, RestTypes DEF Closed
<1> QED
  BY <1>3, <1>4, <1>5, <1>6, <1>8, <1>9, <1>10, <1>11, <1>12, <1>13, HandlerFrame

\* A request is told that it gets no connection.
LEMMA NoConnectionSound ==
  ASSUME ServerTypes, ServerIsSound, NEW q \in Requests, NoConnection(q)
  PROVE  ServerIsSound'
<1>1. /\ at[q] = "acquiring"
      /\ UNCHANGED <<serving, rows, connection, job, fetched, before>>
  BY DEF NoConnection
<1>2. PICK error \in {"timeout", "denied"} : Answers(q, ErrorCode(q), error)
  BY DEF NoConnection
<1>3. /\ at'[q] = "answered" /\ answer'[q] = [code |-> ErrorCode(q), error |-> error]
      /\ \A p \in Requests \ {q} : at'[p] = at[p] /\ answer'[p] = answer[p]
  BY <1>2 DEF Answers, Reaches, ServerTypes
<1>4. ErrorCode(q) \in {422, 500, 503}
  BY ErrorCodeType DEF ServerTypes
<1>5. RequestIsSound(q)'
  BY <1>1, <1>3 DEF ServerIsSound, RequestsAreSound, RequestIsSound, Working
<1>6. AnswerIsFounded(q)'
  BY <1>3, <1>4 DEF AnswerIsFounded
<1> QED
  BY <1>1, <1>3, <1>5, <1>6, WaitingFrame
\* A handler returns early, or fails: its connection keeps a transaction without
\* a row, which is rolled back before it serves again.
LEMMA FailureSound ==
  ASSUME ServerTypes, ServerIsSound, NEW q \in Requests,
         at[q] \in {"begun", "charged"}, job[q].kind \in {"create", "read"},
         NEW error \in {"unfunded", "accounting", "taken", "missing"},
         error = "taken" => job[q].kind = "create" /\ rows[job[q].task] # None,
         Answers(q, ErrorCode(q), error),
         NEW o \in {connection[OwnConnection(q)].locked, job[q].org},
         connection' = [Dropped(OwnConnection(q)) EXCEPT ![OwnConnection(q)].locked = o],
         UNCHANGED <<serving, rows, job, fetched, before>>
  PROVE  ServerIsSound'
<1>1. PICK c \in Connections :
        /\ c = OwnConnection(q) /\ connection[c].holder = q
        /\ \A d \in Connections \ {c} : connection[d].holder # q
        /\ connection[c] \in Sessions
        /\ SessionFollows(connection[c], q)
  BY OwnConnectionIsHeld DEF Working
<1>2. connection[c].phase = "open" /\ connection[c].inserts = None
  BY <1>1 DEF SessionFollows
<1>3. connection' = [connection EXCEPT ![c] = [[@ EXCEPT !.holder = None] EXCEPT !.locked = o]]
  BY <1>1 DEF Dropped, ServerTypes
<1>4. /\ connection'[c].phase = "open" /\ connection'[c].inserts = None
      /\ connection'[c].holder = None
      /\ \A d \in Connections \ {c} : connection'[d] = connection[d]
  <2>1. /\ connection'[c] = [[connection[c] EXCEPT !.holder = None] EXCEPT !.locked = o]
        /\ \A d \in Connections \ {c} : connection'[d] = connection[d]
    BY <1>3 DEF ServerTypes
  <2>2. /\ [connection[c] EXCEPT !.holder = None] \in Sessions
        /\ [connection[c] EXCEPT !.holder = None].phase = "open"
        /\ [connection[c] EXCEPT !.holder = None].inserts = None
        /\ [connection[c] EXCEPT !.holder = None].holder = None
    BY <1>1, <1>2 DEF Sessions
  <2>3. \A s \in Sessions :
          /\ [s EXCEPT !.locked = o].phase = s.phase
          /\ [s EXCEPT !.locked = o].inserts = s.inserts
          /\ [s EXCEPT !.locked = o].holder = s.holder
    BY DEF Sessions
  <2> QED
    BY <2>1, <2>2, <2>3
<1>5. /\ at'[q] = "answered" /\ answer'[q] = [code |-> ErrorCode(q), error |-> error]
      /\ ErrorCode(q) \in {422, 500}
      /\ \A p \in Requests \ {q} : at'[p] = at[p] /\ answer'[p] = answer[p]
  <2>1. ErrorCode(q) \in {422, 500}
    BY ErrorCodeType DEF ServerTypes
  <2> QED
    BY <2>1 DEF Answers, Reaches, ServerTypes
<1>6. SessionIsSound(connection[c])'
  BY <1>4 DEF SessionIsSound, SessionIsClean
<1>7. RequestIsSound(q)'
  BY <1>5 DEF ServerIsSound, RequestsAreSound, RequestIsSound, Working
<1>8. AnswerIsFounded(q)'
  BY <1>5 DEF AnswerIsFounded
<1>9. \A t \in Tasks : rows[t] # None => rows[t].by # q
  BY DEF ServerIsSound, RowsAreSound, RowIsSound
<1> QED
  BY <1>1, <1>4, <1>5, <1>6, <1>7, <1>8, <1>9, HandlerFrame

\* The balance is locked, or the creation refused.
LEMMA LockBalanceSound ==
  ASSUME ServerTypes, ServerIsSound, NEW q \in Requests, LockBalance(q)
  PROVE  ServerIsSound'
<1>1. PICK c \in Connections :
        /\ c = OwnConnection(q) /\ connection[c].holder = q
        /\ \A d \in Connections \ {c} : connection[d].holder # q
        /\ connection[c] \in Sessions
        /\ SessionFollows(connection[c], q)
  BY OwnConnectionIsHeld DEF LockBalance, Creating, Working
<1>2. /\ at[q] = "begun" /\ job[q].kind = "create"
      /\ UNCHANGED <<serving, rows, job, fetched, before>>
  BY DEF LockBalance, Creating
<1>3. CASE applied < Tables \/ job[q].org \notin DOMAIN Balances
  <2>1. PICK error \in {"missing", "unfunded"} :
          Answers(q, ErrorCode(q), error) /\ connection' = Dropped(c)
    BY <1>1, <1>3 DEF LockBalance, Fails
  <2>2. connection' = [Dropped(c) EXCEPT ![c].locked = connection[c].locked]
    BY <1>1, <2>1 DEF Dropped, ServerTypes, Sessions
  <2> QED
    BY <1>1, <1>2, <2>1, <2>2, FailureSound
<1>4. CASE /\ ~(applied < Tables) /\ job[q].org \in DOMAIN Balances
           /\ job[q].ceiling < 0 \/ Balances[job[q].org] < 0
  BY <1>1, <1>2, <1>4, FailureSound DEF LockBalance
<1>5. CASE /\ ~(applied < Tables) /\ job[q].org \in DOMAIN Balances
           /\ ~(job[q].ceiling < 0 \/ Balances[job[q].org] < 0)
  <2>1. /\ connection' = [connection EXCEPT ![c].locked = job[q].org]
        /\ at' = [at EXCEPT ![q] = "charged"]
        /\ UNCHANGED answer
    BY <1>1, <1>5 DEF LockBalance, Reaches
  <2>2. /\ connection'[c].phase = "open" /\ connection'[c].inserts = None
        /\ connection'[c].holder = q /\ connection'[c].org = job[q].org
        /\ \A d \in Connections \ {c} : connection'[d] = connection[d]
    BY <1>1, <1>2, <2>1 DEF ServerTypes, Sessions, SessionFollows
  <2>3. at'[q] = "charged" /\ \A p \in Requests \ {q} : at'[p] = at[p]
    BY <2>1 DEF ServerTypes
  <2>4. SessionIsSound(connection[c])'
    BY <1>2, <2>2, <2>3 DEF SessionIsSound, SessionIsClean, SessionFollows, Working
  <2>5. job[q].ceiling >= 0
    BY <1>2, <1>5 DEF ServerTypes, Works
  <2>6. RequestIsSound(q)'
    BY <1>2, <2>1, <2>2, <2>3, <2>5 DEF ServerIsSound, RequestsAreSound, RequestIsSound
  <2>7. AnswerIsFounded(q)'
    BY <1>2, <2>1 DEF ServerIsSound, RequestsAreSound, AnswerIsFounded, Row
  <2>8. \A t \in Tasks : rows[t] # None => rows[t].by # q
    BY <1>2 DEF ServerIsSound, RowsAreSound, RowIsSound
  <2> QED
    BY <1>1, <1>2, <2>1, <2>2, <2>3, <2>4, <2>6, <2>7, <2>8, HandlerFrame
<1> QED
  BY <1>3, <1>4, <1>5

\* The row is brought to the key, which is free, or the identifier is taken.
LEMMA InsertTaskSound ==
  ASSUME ServerTypes, ServerIsSound, NEW q \in Requests, InsertTask(q)
  PROVE  ServerIsSound'
<1>1. PICK c \in Connections :
        /\ c = OwnConnection(q) /\ connection[c].holder = q
        /\ \A d \in Connections \ {c} : connection[d].holder # q
        /\ connection[c] \in Sessions
        /\ SessionFollows(connection[c], q)
  BY OwnConnectionIsHeld DEF InsertTask, Creating, Working
<1>2. /\ at[q] = "charged" /\ job[q].kind = "create"
      /\ UNCHANGED <<serving, rows, job, fetched, before>>
  BY DEF InsertTask, Creating
<1>3. CASE rows[job[q].task] # None
  <2>1. Answers(q, ErrorCode(q), "taken") /\ connection' = Dropped(c)
    BY <1>1, <1>3 DEF InsertTask, Fails
  <2>2. connection' = [Dropped(c) EXCEPT ![c].locked = connection[c].locked]
    BY <1>1, <2>1 DEF Dropped, ServerTypes, Sessions
  <2> QED
    BY <1>1, <1>2, <1>3, <2>1, <2>2, FailureSound
<1>4. CASE rows[job[q].task] = None
  <2>1. /\ connection' = [connection EXCEPT ![c].inserts = Insertion(q)]
        /\ at' = [at EXCEPT ![q] = "worked"]
        /\ UNCHANGED answer
    BY <1>1, <1>4 DEF InsertTask, Inserting, Insertion, Reaches
  <2>2. /\ connection'[c].phase = "open" /\ connection'[c].inserts = Insertion(q)
        /\ connection'[c].holder = q /\ connection'[c].org = job[q].org
        /\ \A d \in Connections \ {c} : connection'[d] = connection[d]
    BY <1>1, <1>2, <2>1 DEF ServerTypes, Sessions, SessionFollows
  <2>3. at'[q] = "worked" /\ \A p \in Requests \ {q} : at'[p] = at[p]
    BY <2>1 DEF ServerTypes
  <2>4. job[q].ceiling >= 0
    BY <1>2 DEF ServerIsSound, RequestsAreSound, RequestIsSound
  <2>5. Insertion(q).by = q /\ Insertion(q).task = job[q].task
    BY DEF Insertion
  <2>6. SessionIsSound(connection[c])'
    BY <1>2, <1>4, <2>2, <2>3, <2>4, <2>5
       DEF SessionIsSound, SessionIsClean, SessionFollows, InsertionIsSound, Insertion, Working
  <2>7. RequestIsSound(q)'
    BY <1>2, <2>1, <2>2, <2>3, <2>4 DEF ServerIsSound, RequestsAreSound, RequestIsSound
  <2>8. AnswerIsFounded(q)'
    BY <1>2, <2>1 DEF ServerIsSound, RequestsAreSound, AnswerIsFounded, Row
  <2>9. \A t \in Tasks : rows[t] # None => rows[t].by # q
    BY <1>2 DEF ServerIsSound, RowsAreSound, RowIsSound
  <2>10. \A d \in Connections \ {c} :
           connection[d].inserts # None => connection[d].inserts.task # job[q].task
    BY DEF InsertTask, KeyFree
  <2> QED
    BY <1>1, <1>2, <2>1, <2>2, <2>3, <2>5, <2>6, <2>7, <2>8, <2>9, <2>10, HandlerFrame
<1> QED
  BY <1>3, <1>4
\* The health of the server is told, and the connection given back.
LEMMA PingSound ==
  ASSUME ServerTypes, ServerIsSound, NEW q \in Requests, Ping(q)
  PROVE  ServerIsSound'
<1>1. PICK c \in Connections :
        /\ c = OwnConnection(q) /\ connection[c].holder = q
        /\ \A d \in Connections \ {c} : connection[d].holder # q
        /\ connection[c] \in Sessions
        /\ SessionFollows(connection[c], q)
  BY OwnConnectionIsHeld DEF Ping, Working
<1>2. /\ at[q] = "begun" /\ job[q].kind = "health"
      /\ UNCHANGED <<serving, rows, job, fetched, before>>
      /\ connection' = [connection EXCEPT ![c] = Idle]
  BY <1>1 DEF Ping
<1>3. connection'[c] = Idle /\ \A d \in Connections \ {c} : connection'[d] = connection[d]
  BY <1>2 DEF ServerTypes
<1>4. /\ at'[q] = "answered" /\ answer'[q] = [code |-> 200, error |-> "none"]
      /\ \A p \in Requests \ {q} : at'[p] = at[p] /\ answer'[p] = answer[p]
  BY DEF Ping, Answers, Reaches, ServerTypes
<1>5. SessionIsSound(connection[c])'
  BY <1>3, RestTypes DEF SessionIsSound, SessionIsClean
<1>6. RequestIsSound(q)' /\ AnswerIsFounded(q)'
  BY <1>2, <1>4
     DEF ServerIsSound, RequestsAreSound, RequestIsSound, AnswerIsFounded, Working
<1>7. \A t \in Tasks : rows[t] # None => rows[t].by # q
  BY <1>2 DEF ServerIsSound, RowsAreSound, RowIsSound
<1>8. connection'[c].holder = None /\ connection'[c].inserts = None
  BY <1>3, RestTypes
<1> QED
  BY <1>1, <1>2, <1>3, <1>4, <1>5, <1>6, <1>7, <1>8, HandlerFrame

\* A row of the organisation is read, or none, or there is no table to read.
LEMMA SelectTaskSound ==
  ASSUME ServerTypes, ServerIsSound, NEW q \in Requests, SelectTask(q)
  PROVE  ServerIsSound'
<1>1. PICK c \in Connections :
        /\ c = OwnConnection(q) /\ connection[c].holder = q
        /\ \A d \in Connections \ {c} : connection[d].holder # q
        /\ connection[c] \in Sessions
        /\ SessionFollows(connection[c], q)
  BY OwnConnectionIsHeld DEF SelectTask, Working
<1>2. /\ at[q] = "begun" /\ job[q].kind = "read"
      /\ UNCHANGED <<serving, rows, job, before>>
  BY DEF SelectTask
<1>3. CASE applied < Tables
  <2>1. /\ Answers(q, ErrorCode(q), "missing") /\ connection' = Dropped(c)
        /\ UNCHANGED fetched
    BY <1>1, <1>3 DEF SelectTask, Fails
  <2>2. connection' = [Dropped(c) EXCEPT ![c].locked = connection[c].locked]
    BY <1>1, <2>1 DEF Dropped, ServerTypes, Sessions
  <2> QED
    BY <1>1, <1>2, <2>1, <2>2, FailureSound
<1>4. CASE ~(applied < Tables)
  <2>1. /\ connection[c].phase = "open" /\ connection[c].inserts = None
        /\ connection[c].org = job[q].org
    BY <1>1, <1>2 DEF SessionFollows
  <2>2. /\ at'[q] = "worked"
        /\ fetched'[q] = IF rows[job[q].task] # None /\ rows[job[q].task].org = job[q].org
                         THEN rows[job[q].task] ELSE None
        /\ \A p \in Requests \ {q} : at'[p] = at[p] /\ fetched'[p] = fetched[p]
        /\ UNCHANGED <<connection, answer>>
    BY <1>1, <1>4, <2>1 DEF SelectTask, Reaches, ServerTypes
  <2>3. SessionIsSound(connection[c])'
    BY <1>1, <1>2, <2>1, <2>2 DEF SessionIsSound, SessionIsClean, SessionFollows, Working
  <2>4. RequestIsSound(q)'
    BY <1>1, <1>2, <2>2 DEF ServerIsSound, RequestsAreSound, RequestIsSound
  <2>5. AnswerIsFounded(q)'
    BY <1>2, <2>2 DEF ServerIsSound, RequestsAreSound, AnswerIsFounded, Row
  <2>6. \A t \in Tasks : rows[t] # None => rows[t].by # q
    BY <1>2 DEF ServerIsSound, RowsAreSound, RowIsSound
  <2> QED
    BY <1>1, <1>2, <2>1, <2>2, <2>3, <2>4, <2>5, <2>6, HandlerFrame
<1> QED
  BY <1>3, <1>4

\* COMMIT is sent.
LEMMA SendCommitSound ==
  ASSUME ServerTypes, ServerIsSound, NEW q \in Requests, SendCommit(q)
  PROVE  ServerIsSound'
<1>1. PICK c \in Connections :
        /\ c = OwnConnection(q) /\ connection[c].holder = q
        /\ \A d \in Connections \ {c} : connection[d].holder # q
        /\ connection[c] \in Sessions
        /\ SessionFollows(connection[c], q)
  BY OwnConnectionIsHeld DEF SendCommit, Working
<1>2. /\ at[q] = "worked"
      /\ UNCHANGED <<serving, rows, job, fetched, answer, before>>
      /\ connection' = [connection EXCEPT ![c].phase = "committing"]
  BY <1>1 DEF SendCommit
<1>3. /\ connection'[c] = [connection[c] EXCEPT !.phase = "committing"]
      /\ \A d \in Connections \ {c} : connection'[d] = connection[d]
  BY <1>2 DEF ServerTypes
<1>4. at'[q] = "committing" /\ \A p \in Requests \ {q} : at'[p] = at[p]
  BY DEF SendCommit, Reaches, ServerTypes
<1>5. connection[c].inserts = IF job[q].kind = "create" THEN Insertion(q) ELSE None
  BY <1>1, <1>2 DEF SessionFollows
<1>6. /\ connection'[c].phase = "committing" /\ connection'[c].holder = q
      /\ connection'[c].inserts = connection[c].inserts
  BY <1>1, <1>3 DEF Sessions
<1>7. SessionIsSound(connection[c]) /\ Insertion(q).by = q
  BY DEF ServerIsSound, ConnectionsAreSound, Insertion
<1>8. SessionIsSound(connection[c])'
  BY <1>2, <1>4, <1>5, <1>6, <1>7
     DEF SessionIsSound, SessionIsClean, SessionFollows, InsertionIsSound, Insertion, Working
<1>9. RequestIsSound(q)'
  BY <1>1, <1>2, <1>4, <1>6 DEF ServerIsSound, RequestsAreSound, RequestIsSound
<1>10. AnswerIsFounded(q)'
  BY <1>2 DEF ServerIsSound, RequestsAreSound, AnswerIsFounded, Row
<1>11. \A d \in Connections \ {c} :
         connection'[c].inserts # None /\ connection[d].inserts # None =>
           connection'[c].inserts.task # connection[d].inserts.task
  BY <1>6 DEF ServerIsSound, ConnectionsAreSound, Apart
<1>12. \A t \in Tasks : rows[t] # None => rows[t].by # q
  BY <1>2 DEF ServerIsSound, RowsAreSound, RowIsSound
<1> QED
  BY <1>1, <1>2, <1>3, <1>4, <1>6, <1>8, <1>9, <1>10, <1>11, <1>12, HandlerFrame

\* COMMIT has succeeded, and the request is answered.
LEMMA ConcludeSound ==
  ASSUME ServerTypes, ServerIsSound, NEW q \in Requests, Conclude(q)
  PROVE  ServerIsSound'
<1>1. PICK c \in Connections :
        /\ c = OwnConnection(q) /\ connection[c].holder = q
        /\ \A d \in Connections \ {c} : connection[d].holder # q
        /\ connection[c] \in Sessions
        /\ SessionFollows(connection[c], q)
  BY OwnConnectionIsHeld DEF Conclude, Working
<1>2. /\ at[q] = "committing" /\ connection[c].phase = "committed"
      /\ UNCHANGED <<serving, rows, job, before>>
      /\ connection' = [connection EXCEPT ![c] = [@ EXCEPT !.holder = None, !.phase = "idle"]]
  BY <1>1 DEF Conclude
<1>3. /\ connection'[c] = [connection[c] EXCEPT !.holder = None, !.phase = "idle"]
      /\ \A d \in Connections \ {c} : connection'[d] = connection[d]
  BY <1>2 DEF ServerTypes
<1>4. /\ at'[q] = "answered"
      /\ answer'[q] = [code |-> IF job[q].kind = "create" THEN 201
                                ELSE IF fetched[q] = None THEN 404 ELSE 200,
                       error |-> "none"]
      /\ fetched'[q] = None
      /\ \A p \in Requests \ {q} :
           at'[p] = at[p] /\ answer'[p] = answer[p] /\ fetched'[p] = fetched[p]
  BY DEF Conclude, Answers, Reaches, ServerTypes
<1>5. connection'[c] = Idle
  <2>1. connection[c].org = None /\ connection[c].locked = None /\ connection[c].inserts = None
    BY <1>2 DEF ServerIsSound, ConnectionsAreSound, SessionIsSound, SessionIsClean
  <2> QED
    BY <1>1, <1>3, <2>1, RestTypes DEF Sessions
<1>6. SessionIsSound(connection[c])'
  BY <1>5, RestTypes DEF SessionIsSound, SessionIsClean
<1>7. job[q].kind = "create" => rows[job[q].task] = Row(q)
  BY <1>1, <1>2 DEF SessionFollows
<1>8. RequestIsSound(q)'
  BY <1>2, <1>4 DEF ServerIsSound, RequestsAreSound, RequestIsSound, Working
<1>9. AnswerIsFounded(q)'
  <2>1. RequestIsSound(q)
    BY DEF ServerIsSound, RequestsAreSound
  <2>2. CASE job[q].kind = "create"
    BY <1>2, <1>4, <1>7, <2>2 DEF AnswerIsFounded, Row
  <2>3. CASE job[q].kind = "read"
    BY <1>2, <1>4, <2>1, <2>3 DEF AnswerIsFounded, RequestIsSound
  <2> QED
    BY <1>2, <2>1, <2>2, <2>3 DEF RequestIsSound
<1>10. \A t \in Tasks : rows[t] # None /\ rows[t].by = q => answer'[q].code = 201
  BY <1>4 DEF ServerIsSound, RowsAreSound, RowIsSound
<1>11. connection'[c].holder = None /\ connection'[c].inserts = None
  BY <1>5, RestTypes
<1> QED
  BY <1>1, <1>2, <1>3, <1>4, <1>6, <1>8, <1>9, <1>10, <1>11, HandlerFrame

\* The client leaves: what its connection holds stays there, for nobody.
LEMMA LeaveSound ==
  ASSUME ServerTypes, ServerIsSound, NEW q \in Requests, Leave(q)
  PROVE  ServerIsSound'
<1>1. /\ at[q] \in Working \cup {"acquiring"}
      /\ UNCHANGED <<serving, rows, job, answer, before>>
  BY DEF Leave, InFlight, ServerTypes, Labels, Working
<1>2. /\ at'[q] = "gone" /\ fetched'[q] = None
      /\ \A p \in Requests \ {q} : at'[p] = at[p] /\ fetched'[p] = fetched[p]
  BY DEF Leave, Reaches, ServerTypes
<1>3. RequestIsSound(q)'
  BY <1>1, <1>2 DEF ServerIsSound, RequestsAreSound, RequestIsSound, Working
<1>4. AnswerIsFounded(q)'
  BY <1>1 DEF ServerIsSound, RequestsAreSound, AnswerIsFounded, Row
<1>5. CASE at[q] = "acquiring"
  <2>1. HeldBy(q) = {}
    BY <1>5, NothingIsHeld DEF HeldBy, Working
  <2>2. connection' = connection
    BY <2>1 DEF Leave
  <2> QED
    BY <1>1, <1>2, <1>3, <1>4, <1>5, <2>2, WaitingFrame
<1>6. CASE at[q] \in Working
  <2>1. PICK c \in Connections :
          /\ c = OwnConnection(q) /\ connection[c].holder = q
          /\ \A d \in Connections \ {c} : connection[d].holder # q
          /\ connection[c] \in Sessions
          /\ SessionFollows(connection[c], q)
    BY <1>6, OwnConnectionIsHeld
  <2>2. connection' = [connection EXCEPT ![c] = [connection[c] EXCEPT !.holder = None]]
    BY <2>1 DEF Leave, HeldBy, Dropped
  <2>3. /\ connection'[c] = [connection[c] EXCEPT !.holder = None]
        /\ \A d \in Connections \ {c} : connection'[d] = connection[d]
    BY <2>2 DEF ServerTypes
  <2>4. /\ connection'[c].holder = None
        /\ connection'[c].phase = connection[c].phase
        /\ connection'[c].org = connection[c].org
        /\ connection'[c].locked = connection[c].locked
        /\ connection'[c].inserts = connection[c].inserts
    BY <2>1, <2>3 DEF Sessions
  <2>5. SessionIsSound(connection[c]) /\ connection[c].phase \notin {"closed", "idle"}
    BY <1>6, <2>1, NoneIsNothing, RestTypes
       DEF ServerIsSound, ConnectionsAreSound, SessionIsSound, SessionIsClean, Closed
  <2>6. connection[c].inserts # None => connection[c].inserts.by = q
    BY <1>6, <2>1, <2>5 DEF SessionFollows, SessionIsSound, SessionIsClean, Insertion, Working
  <2>7. SessionIsSound(connection[c])'
    BY <1>1, <1>2, <2>4, <2>5, <2>6
       DEF SessionIsSound, SessionIsClean, InsertionIsSound, Insertion
  <2>8. \A d \in Connections \ {c} :
          connection'[c].inserts # None /\ connection[d].inserts # None =>
            connection'[c].inserts.task # connection[d].inserts.task
    BY <2>4 DEF ServerIsSound, ConnectionsAreSound, Apart
  <2> QED
    BY <1>1, <1>2, <1>3, <1>4, <1>6, <2>1, <2>3, <2>4, <2>7, <2>8, HandlerFrame DEF Working
<1> QED
  BY <1>1, <1>5, <1>6
\* A COMMIT adds at most the row its session brings; no row of the table
\* changes or goes.
LEMMA RowsGrow ==
  ASSUME ServerTypes, ServerIsSound, NEW c \in Connections,
         \/ rows' = rows
         \/ connection[c].phase = "committing" /\ rows' = RowsWith(connection[c])
  PROVE  /\ \A t \in Tasks : rows[t] # None => rows'[t] = rows[t]
         /\ \A t \in Tasks : rows[t] = None /\ rows'[t] # None =>
              /\ connection[c].phase = "committing"
              /\ connection[c].inserts # None
              /\ t = connection[c].inserts.task
              /\ rows'[t] = Row(connection[c].inserts.by)
<1>1. SessionIsSound(connection[c]) /\ connection[c] \in Sessions
  BY DEF ServerTypes, ServerIsSound, ConnectionsAreSound
<1>2. CASE rows' = rows
  BY <1>2
<1>3. CASE /\ connection[c].phase = "committing" /\ rows' = RowsWith(connection[c])
           /\ connection[c].inserts # None
  <2>1. rows' = [rows EXCEPT ![connection[c].inserts.task] =
                   [org |-> connection[c].inserts.org, by |-> connection[c].inserts.by]]
    BY <1>3 DEF RowsWith
  <2>2. InsertionIsSound(connection[c])
    BY <1>1, <1>3 DEF SessionIsSound
  <2>3. /\ rows[connection[c].inserts.task] = None
        /\ connection[c].inserts = Insertion(connection[c].inserts.by)
    BY <2>2 DEF InsertionIsSound
  <2>4. [org |-> connection[c].inserts.org, by |-> connection[c].inserts.by]
          = Row(connection[c].inserts.by)
    BY <2>3 DEF Insertion, Row
  <2> QED
    BY <1>3, <2>1, <2>3, <2>4 DEF ServerTypes
<1>4. CASE /\ connection[c].phase = "committing" /\ rows' = RowsWith(connection[c])
           /\ connection[c].inserts = None
  BY <1>4 DEF RowsWith
<1> QED
  BY <1>2, <1>3, <1>4

\* A session that the end of another one does not touch.
LEMMA SessionsAside ==
  ASSUME ServerTypes, NEW s \in Sessions, SessionIsSound(s),
         UNCHANGED job,
         s.holder # None => at'[s.holder] = at[s.holder],
         \A p \in Requests : at[p] = "gone" => at'[p] = "gone",
         \A t \in Tasks : rows[t] # None => rows'[t] = rows[t],
         s.inserts # None => rows'[s.inserts.task] = None
  PROVE  SessionIsSound(s)'
<1>1. SessionIsClean(s)'
  BY DEF SessionIsSound, SessionIsClean
<1>2. s.inserts # None => InsertionIsSound(s)'
  <2>1. s.inserts # None => s.inserts.by \in Requests
    BY DEF Sessions, Insertions
  <2> QED
    BY <2>1 DEF SessionIsSound, InsertionIsSound, Insertion
<1>3. ASSUME s.holder # None
      PROVE  (at[s.holder] \in Working /\ SessionFollows(s, s.holder))'
  <2>1. s.holder \in Requests
    BY <1>3 DEF Sessions
  <2>2. job[s.holder].kind = "create" => job[s.holder].task \in Tasks
    BY <2>1 DEF ServerTypes, Works
  <2>3. at[s.holder] \in Working /\ SessionFollows(s, s.holder)
    BY <1>3 DEF SessionIsSound
  <2>4. \/ Row(s.holder) # None /\ Row(s.holder)' = Row(s.holder)
        \/ job[s.holder].kind # "create"
    BY <2>1, NoneIsNothing DEF Row, Rows, ServerTypes, Works
  <2> QED
    BY <1>3, <2>2, <2>3, <2>4 DEF SessionFollows, Insertion, Row
<1> QED
  BY <1>1, <1>2, <1>3 DEF SessionIsSound

\* A session comes to an end, with its COMMIT or without: its row may be in the
\* table, and at most its holder hears of it.
LEMMA SessionFrame ==
  ASSUME ServerTypes, ServerIsSound, NEW c \in Connections, connection[c] # Closed,
         UNCHANGED <<serving, job, before>>,
         \/ rows' = rows
         \/ connection[c].phase = "committing" /\ rows' = RowsWith(connection[c]),
         \A d \in Connections \ {c} : connection'[d] = connection[d],
         SessionIsSound(connection[c])', connection'[c].inserts = None,
         connection'[c].holder \in {None, connection[c].holder},
         \A p \in Requests \ {connection[c].holder} :
           at'[p] = at[p] /\ answer'[p] = answer[p] /\ fetched'[p] = fetched[p],
         \A p \in Requests : p = connection[c].holder =>
           /\ (RequestIsSound(p) /\ AnswerIsFounded(p))'
           /\ at'[p] \in {at[p], "answered"}
           /\ at'[p] = "answered" => answer'[p].error = "lost"
  PROVE  ServerIsSound'
<1>1. /\ \A t \in Tasks : rows[t] # None => rows'[t] = rows[t]
      /\ \A t \in Tasks : rows[t] = None /\ rows'[t] # None =>
           /\ connection[c].phase = "committing"
           /\ connection[c].inserts # None
           /\ t = connection[c].inserts.task
           /\ rows'[t] = Row(connection[c].inserts.by)
  BY RowsGrow
<1>2. SessionIsSound(connection[c]) /\ connection[c] \in Sessions
  BY DEF ServerTypes, ServerIsSound, ConnectionsAreSound
<1>3. connection[c].holder # None =>
        connection[c].holder \in Requests /\ at[connection[c].holder] \in Working
  BY <1>2 DEF Sessions, SessionIsSound
<1>4. ServingIsSound'
  BY DEF ServerIsSound, ServingIsSound
<1>5. ConnectionsAreSound'
  <2>1. ASSUME NEW d \in Connections \ {c}
        PROVE  SessionIsSound(connection[d])'
    <3>1. /\ connection[d] \in Sessions /\ SessionIsSound(connection[d])
          /\ Apart(connection[c], connection[d]) /\ Apart(connection[d], connection[c])
      BY DEF ServerTypes, ServerIsSound, ConnectionsAreSound
    <3>2. PICK s \in Sessions : s = connection[d]
      BY <3>1
    <3>3. s.holder # None => at'[s.holder] = at[s.holder]
      BY <3>1, <3>2 DEF Apart, Sessions
    <3>4. s.inserts # None => rows'[s.inserts.task] = None
      <4>1. s.inserts # None => s.inserts.task \in Tasks /\ rows[s.inserts.task] = None
        BY <3>1, <3>2 DEF Sessions, Insertions, SessionIsSound, InsertionIsSound
      <4> QED
        BY <1>1, <3>1, <3>2, <4>1 DEF Apart
    <3>5. \A p \in Requests : at[p] = "gone" => at'[p] = "gone"
      BY <1>3, NoneIsNothing DEF Working
    <3>6. SessionIsSound(s)
      BY <3>1, <3>2
    <3>7. SessionIsSound(s)'
      BY <1>1, <3>3, <3>4, <3>5, <3>6, SessionsAside
    <3>8. connection'[d] = s
      BY <3>2
    <3> QED
      BY <3>7, <3>8
         DEF SessionIsSound, SessionIsClean, SessionFollows, InsertionIsSound, Insertion, Row
  <2>2. \A d, e \in Connections \ {c} : d # e => Apart(connection[d], connection[e])'
    BY DEF ServerIsSound, ConnectionsAreSound, Apart
  <2>3. \A d \in Connections \ {c} :
          Apart(connection[c], connection[d])' /\ Apart(connection[d], connection[c])'
    BY NoneIsNothing DEF ServerIsSound, ConnectionsAreSound, Apart
  <2> QED
    BY <2>1, <2>2, <2>3 DEF ConnectionsAreSound
<1>6. RowsAreSound'
  <2>1. ASSUME NEW t \in Tasks, rows[t] # None, rows'[t].by \in Requests
        PROVE  RowIsSound(t)'
    <3>1. RowIsSound(t) /\ rows'[t] = rows[t] /\ rows[t].by \in Requests
      BY <1>1, <2>1 DEF ServerIsSound, RowsAreSound
    <3> QED
      BY <3>1 DEF RowIsSound, Row
  <2>2. ASSUME NEW t \in Tasks, rows[t] = None, rows'[t] # None
        PROVE  RowIsSound(t)'
    <3>1. PICK q \in Requests : q = connection[c].inserts.by
      BY <1>1, <1>2, <2>2 DEF Sessions, Insertions
    <3>2. /\ connection[c].phase = "committing" /\ InsertionIsSound(connection[c])
          /\ connection[c].inserts = Insertion(q) /\ t = job[q].task
          /\ rows'[t] = Row(q)
      BY <1>1, <1>2, <2>2, <3>1 DEF SessionIsSound, InsertionIsSound, Insertion
    <3>3. Row(q) = [org |-> job[q].org, by |-> q]
      BY DEF Row
    <3>4. job[q].kind = "create" /\ job[q].ceiling >= 0
      BY <3>1, <3>2 DEF InsertionIsSound
    <3>5. CASE connection[c].holder = q
      <4>1. at[q] = "committing"
        BY <1>2, <3>2, <3>5, NoneIsNothing DEF SessionIsSound, SessionFollows, Working
      <4> QED
        BY <3>2, <3>3, <3>4, <3>5, <4>1 DEF RowIsSound, Row
    <3>6. CASE connection[c].holder # q
      <4>1. at[q] = "gone" /\ at'[q] = "gone"
        BY <3>1, <3>2, <3>6 DEF InsertionIsSound
      <4> QED
        BY <3>2, <3>3, <3>4, <4>1 DEF RowIsSound, Row
    <3> QED
      BY <3>5, <3>6
  <2> QED
    BY <2>1, <2>2 DEF RowsAreSound
<1>7. RequestsAreSound'
  <2>1. ASSUME NEW p \in Requests, p # connection[c].holder
        PROVE  (RequestIsSound(p) /\ AnswerIsFounded(p))'
    <3>1. /\ RequestIsSound(p) /\ AnswerIsFounded(p)
          /\ at'[p] = at[p] /\ answer'[p] = answer[p] /\ fetched'[p] = fetched[p]
      BY <2>1 DEF ServerIsSound, RequestsAreSound
    <3>2. \A d \in Connections : connection[d].holder = p => connection'[d].holder = p
      BY <2>1
    <3>3. /\ before[p] # None => rows'[job[p].task] = before[p]
          /\ fetched[p] # None => rows'[job[p].task] = fetched[p]
          /\ job[p].kind # "health" /\ rows[job[p].task] # None =>
               rows'[job[p].task] = rows[job[p].task]
      <4>1. job[p].kind # "health" => job[p].task \in Tasks
        BY DEF ServerTypes, Works
      <4> QED
        BY <1>1, <3>1, <4>1 DEF RequestIsSound
    <3>4. Row(p)' = Row(p) /\ (job[p].kind # "health" => Row(p) # None)
      BY NoneIsNothing DEF Row, Rows, ServerTypes, Works
    <3>5. RequestIsSound(p)'
      BY <3>1, <3>2, <3>3 DEF RequestIsSound
    <3>6. answer[p].error = "taken" => job[p].kind # "health"
      BY <3>1 DEF AnswerIsFounded
    <3>7. AnswerIsFounded(p)'
      BY <3>1, <3>3, <3>4, <3>6 DEF AnswerIsFounded
    <3> QED
      BY <3>5, <3>7
  <2> QED
    BY <2>1 DEF RequestsAreSound
<1> QED
  BY <1>4, <1>5, <1>6, <1>7 DEF ServerIsSound
\* COMMIT is executed.
LEMMA ExecuteCommitSound ==
  ASSUME ServerTypes, ServerIsSound, NEW c \in Connections, ExecuteCommit(c)
  PROVE  ServerIsSound'
<1>1. /\ connection[c].phase = "committing" /\ rows' = RowsWith(connection[c])
      /\ UNCHANGED <<serving, at, job, fetched, answer, before>>
      /\ connection' = [connection EXCEPT ![c] = AfterCommit(@)]
  BY DEF ExecuteCommit
<1>2. connection[c] \in Sessions /\ SessionIsSound(connection[c])
  BY DEF ServerTypes, ServerIsSound, ConnectionsAreSound
<1>3. /\ connection'[c] = AfterCommit(connection[c])
      /\ \A d \in Connections \ {c} : connection'[d] = connection[d]
  BY <1>1 DEF ServerTypes
<1>4. /\ connection'[c].phase = "committed" /\ connection'[c].holder = connection[c].holder
      /\ connection'[c].org = None /\ connection'[c].locked = None
      /\ connection'[c].inserts = None
  BY <1>2, <1>3 DEF AfterCommit, AfterCommitOfSession, Sessions
<1>5. ASSUME NEW q \in Requests, q = connection[c].holder
      PROVE  /\ at[q] = "committing"
             /\ job[q].kind = "create" => connection[c].inserts = Insertion(q)
             /\ job[q].kind # "create" => connection[c].inserts = None
  <2>1. at[q] \in Working /\ SessionFollows(connection[c], q)
    BY <1>2, <1>5, NoneIsNothing DEF SessionIsSound
  <2> QED
    BY <1>1, <2>1 DEF SessionFollows, Working
<1>6. ASSUME NEW q \in Requests, q = connection[c].holder, job[q].kind = "create"
      PROVE  rows'[job[q].task] = Row(q)
  <2>1. connection[c].inserts = Insertion(q) /\ Insertion(q) # None
    BY <1>5, <1>6, NoneIsNothing DEF Insertion, Insertions, ServerTypes, Works
  <2>2. job[q].task \in Tasks
    BY <1>6 DEF ServerTypes, Works
  <2> QED
    BY <1>1, <2>1, <2>2 DEF RowsWith, Insertion, Row, ServerTypes
<1>7. SessionIsSound(connection[c])'
  <2>1. SessionIsClean(connection[c])'
    BY <1>4 DEF SessionIsClean
  <2>2. ASSUME connection[c].holder # None
        PROVE  (at[connection[c].holder] \in Working
                  /\ SessionFollows(connection[c], connection[c].holder))'
    <3>1. PICK q \in Requests : q = connection[c].holder
      BY <1>2, <2>2 DEF Sessions
    <3>2. /\ at'[q] = "committing" /\ connection'[c].phase = "committed"
          /\ connection'[c].holder = q
          /\ job'[q].kind = "create" => rows'[job'[q].task] = Row(q)'
      BY <1>1, <1>4, <1>5, <1>6, <3>1 DEF Row
    <3> QED
      BY <3>2 DEF SessionFollows, Working
  <2> QED
    BY <1>4, <2>1, <2>2 DEF SessionIsSound
<1>8. ASSUME NEW q \in Requests, q = connection[c].holder
      PROVE  (RequestIsSound(q) /\ AnswerIsFounded(q))'
  <2>1. RequestIsSound(q) /\ AnswerIsFounded(q)
    BY DEF ServerIsSound, RequestsAreSound
  <2>2. at[q] = "committing" /\ answer[q] = Unanswered
    BY <1>5, <1>8, <2>1 DEF RequestIsSound
  <2>3. job[q].kind \in {"create", "read"} /\ job[q].task \in Tasks
    BY <2>1, <2>2 DEF RequestIsSound, ServerTypes, Works
  <2>4. rows[job[q].task] # None => rows'[job[q].task] = rows[job[q].task]
    BY <1>1, <2>3, RowsGrow
  <2>5. RequestIsSound(q)'
    BY <1>1, <1>4, <1>8, <2>1, <2>2, <2>4 DEF RequestIsSound
  <2>6. AnswerIsFounded(q)'
    BY <1>1, <2>2 DEF AnswerIsFounded, Unanswered
  <2> QED
    BY <2>5, <2>6
<1>9. connection[c] # Closed
  BY <1>1 DEF Closed
<1>10. \A q \in Requests : q = connection[c].holder => at'[q] # "answered"
  BY <1>1, <1>5
<1> QED
  BY <1>1, <1>3, <1>4, <1>7, <1>8, <1>9, <1>10, SessionFrame

\* A connection that nobody holds is put in order.
LEMMA GiveBackSound ==
  ASSUME ServerTypes, ServerIsSound, NEW c \in Connections, GiveBack(c)
  PROVE  ServerIsSound'
<1>1. /\ connection[c].holder = None
      /\ connection[c].phase \in {"open", "plain", "committed"}
      /\ UNCHANGED <<serving, rows, at, job, fetched, answer, before>>
      /\ \A d \in Connections \ {c} : connection'[d] = connection[d]
      /\ connection'[c] = IF connection[c].phase = "open" THEN Idle
                          ELSE [connection[c] EXCEPT !.phase = "idle"]
  BY DEF GiveBack, ServerTypes
<1>2. connection[c] \in Sessions /\ SessionIsClean(connection[c])
  BY DEF ServerTypes, ServerIsSound, ConnectionsAreSound, SessionIsSound
<1>3. connection'[c] = Idle
  BY <1>1, <1>2, RestTypes DEF SessionIsClean, Sessions
<1>4. SessionIsSound(connection[c])'
  BY <1>3, RestTypes DEF SessionIsSound, SessionIsClean
<1>5. connection[c] # Closed
  BY <1>1 DEF Closed
<1>6. connection'[c].inserts = None /\ connection'[c].holder = None
  BY <1>3, RestTypes
<1>7. \A p \in Requests : p # connection[c].holder
  BY <1>1, NoneIsNothing
<1> QED
  BY <1>1, <1>4, <1>5, <1>6, <1>7, SessionFrame

\* A connection is lost, before or after its COMMIT.
LEMMA LoseConnectionSound ==
  ASSUME ServerTypes, ServerIsSound, NEW c \in Connections, LoseConnection(c)
  PROVE  ServerIsSound'
<1>1. /\ connection[c].phase \notin {"closed", "idle"}
      /\ UNCHANGED <<serving, job, before>>
      /\ \/ rows' = rows
         \/ connection[c].phase = "committing" /\ rows' = RowsWith(connection[c])
      /\ connection'[c] = Closed
      /\ \A d \in Connections \ {c} : connection'[d] = connection[d]
  BY DEF LoseConnection, ServerTypes
<1>2. SessionIsSound(connection[c])' /\ Closed.holder = None /\ Closed.inserts = None
  BY <1>1 DEF SessionIsSound, SessionIsClean, Closed
<1>3. connection[c] # Closed
  BY <1>1 DEF Closed
<1>4. CASE connection[c].holder = None
  <2>1. UNCHANGED <<at, answer, fetched>> /\ \A p \in Requests : p # connection[c].holder
    BY <1>4, NoneIsNothing DEF LoseConnection
  <2> QED
    BY <1>1, <1>2, <1>3, <2>1, SessionFrame
<1>5. CASE connection[c].holder # None
  <2>1. PICK q \in Requests : q = connection[c].holder
    BY <1>5 DEF ServerTypes, Sessions
  <2>2. /\ at' = [at EXCEPT ![q] = "answered"]
        /\ answer' = [answer EXCEPT ![q] = [code |-> ErrorCode(q), error |-> "lost"]]
        /\ fetched' = [fetched EXCEPT ![q] = None]
    BY <1>5, <2>1 DEF LoseConnection, Answers, Reaches
  <2>3. ErrorCode(q) \in {422, 500, 503}
    BY ErrorCodeType DEF ServerTypes
  <2>4. /\ at'[q] = "answered" /\ answer'[q] = [code |-> ErrorCode(q), error |-> "lost"]
        /\ fetched'[q] = None
        /\ \A p \in Requests \ {q} :
             at'[p] = at[p] /\ answer'[p] = answer[p] /\ fetched'[p] = fetched[p]
    BY <2>2 DEF ServerTypes
  <2>5. at[q] \in Working
    BY <2>1, NoneIsNothing DEF ServerIsSound, ConnectionsAreSound, SessionIsSound
  <2>6. RequestIsSound(q)'
    <3>1. RequestIsSound(q)
      BY DEF ServerIsSound, RequestsAreSound
    <3>2. before[q] # None => rows'[job[q].task] = before[q]
      <4>1. job[q].kind = "read" => job[q].task \in Tasks
        BY DEF ServerTypes, Works
      <4>2. \A t \in Tasks : rows[t] # None => rows'[t] = rows[t]
        BY <1>1, RowsGrow
      <4> QED
        BY <3>1, <4>1, <4>2 DEF RequestIsSound
    <3> QED
      BY <1>1, <2>4, <3>1, <3>2 DEF RequestIsSound, Working
  <2>7. AnswerIsFounded(q)'
    BY <2>3, <2>4 DEF AnswerIsFounded
  <2> QED
    BY <1>1, <1>2, <1>3, <2>1, <2>4, <2>6, <2>7, SessionFrame
<1> QED
  BY <1>4, <1>5
\* A request is accepted.
LEMMA AcceptSound ==
  ASSUME ServerTypes, ServerIsSound, NEW q \in Requests, Accept(q)
  PROVE  ServerIsSound'
<1>1. PICK j \in Jobs[q] :
        /\ job' = [job EXCEPT ![q] = j]
        /\ before' = [before EXCEPT ![q] = IF j.kind = "read" THEN rows[j.task] ELSE None]
  BY DEF Accept
<1>2. j \in Works
  BY JobsAreWorks
<1>3. /\ serving = "running" /\ at[q] = "absent"
      /\ UNCHANGED <<serving, rows, connection, fetched, answer>>
      /\ at'[q] = "acquiring" /\ \A p \in Requests \ {q} : at'[p] = at[p]
  BY DEF Accept, Reaches, ServerTypes
<1>4. /\ job'[q] = j /\ before'[q] = IF j.kind = "read" THEN rows[j.task] ELSE None
      /\ \A p \in Requests \ {q} : job'[p] = job[p] /\ before'[p] = before[p]
  BY <1>1 DEF ServerTypes
<1>5. RequestIsSound(q)
  BY DEF ServerIsSound, RequestsAreSound
<1>6. answer[q] = Unanswered /\ fetched[q] = None
  BY <1>3, <1>5 DEF RequestIsSound
<1>7. \A t \in Tasks : rows[t] # None => rows[t].by # q
  BY <1>3 DEF ServerIsSound, RowsAreSound, RowIsSound
<1>8. ServingIsSound'
  BY <1>3 DEF ServingIsSound
<1>9. ConnectionsAreSound'
  <2>1. ASSUME NEW d \in Connections
        PROVE  SessionIsSound(connection[d])'
    <3>1. connection[d] \in Sessions /\ SessionIsSound(connection[d])
      BY DEF ServerTypes, ServerIsSound, ConnectionsAreSound
    <3>2. connection[d].holder # None => connection[d].holder \in Requests \ {q}
      BY <1>3, <3>1 DEF Sessions, SessionIsSound, Working
    <3>3. connection[d].inserts # None => connection[d].inserts.by \in Requests \ {q}
      <4>1. connection[d].inserts # None => connection[d].inserts.by \in Requests
        BY <3>1 DEF Sessions, Insertions
      <4> QED
        BY <1>3, <3>1, <3>2, <4>1, NoneIsNothing DEF SessionIsSound, InsertionIsSound
    <3>4. SessionIsClean(connection[d])'
      BY <1>3, <3>1 DEF SessionIsSound, SessionIsClean
    <3>5. connection[d].inserts # None => InsertionIsSound(connection[d])'
      BY <1>3, <1>4, <3>1, <3>3 DEF SessionIsSound, InsertionIsSound, Insertion
    <3>6. connection[d].holder # None =>
            (at[connection[d].holder] \in Working
               /\ SessionFollows(connection[d], connection[d].holder))'
      BY <1>3, <1>4, <3>1, <3>2 DEF SessionIsSound, SessionFollows, Insertion, Row
    <3> QED
      BY <1>3, <3>4, <3>5, <3>6 DEF SessionIsSound
  <2> QED
    BY <1>3, <2>1 DEF ServerIsSound, ConnectionsAreSound, Apart
<1>10. RowsAreSound'
  BY <1>3, <1>4, <1>7 DEF ServerIsSound, RowsAreSound, RowIsSound, Row
<1>11. RequestsAreSound'
  <2>1. ASSUME NEW p \in Requests \ {q}
        PROVE  (RequestIsSound(p) /\ AnswerIsFounded(p))'
    BY <1>3, <1>4 DEF ServerIsSound, RequestsAreSound, RequestIsSound, AnswerIsFounded, Row
  <2>2. RequestIsSound(q)'
    BY <1>3, <1>4, <1>6 DEF RequestIsSound, Working
  <2>3. AnswerIsFounded(q)'
    BY <1>3, <1>6 DEF AnswerIsFounded, Unanswered
  <2> QED
    BY <2>1, <2>2, <2>3 DEF RequestsAreSound
<1> QED
  BY <1>8, <1>9, <1>10, <1>11 DEF ServerIsSound

\* The process starts with one connection, or does not.
LEMMA StartServingSound ==
  ASSUME ServerTypes, ServerIsSound, StartServing
  PROVE  ServerIsSound'
<1>1. /\ UNCHANGED <<rows, at, job, fetched, answer, before>>
      /\ serving = "absent" /\ serving' # "absent"
  BY DEF StartServing
<1>2. /\ \A c \in Connections : connection[c] = Closed
      /\ \A q \in Requests : at[q] = "absent"
  BY <1>1 DEF ServerIsSound, ServingIsSound
<1>3. \A c \in Connections : connection'[c] \in {Closed, Idle}
  BY <1>2 DEF StartServing, ServerTypes
<1>4. \A c \in Connections :
        /\ connection'[c] = Closed \/ connection'[c] = Idle
        /\ connection'[c].holder = None /\ connection'[c].inserts = None
  BY <1>3, RestTypes DEF Closed
<1>5. ConnectionsAreSound'
  <2>1. ASSUME NEW c \in Connections
        PROVE  SessionIsSound(connection[c])'
    <3>1. CASE connection'[c] = Closed
      BY <3>1 DEF SessionIsSound, SessionIsClean, Closed
    <3>2. CASE connection'[c] = Idle
      BY <3>2, RestTypes DEF SessionIsSound, SessionIsClean
    <3> QED
      BY <1>4, <3>1, <3>2
  <2> QED
    BY <1>4, <2>1 DEF ConnectionsAreSound, Apart
<1>6. RowsAreSound'
  BY <1>1 DEF ServerIsSound, RowsAreSound, RowIsSound, Row
<1>7. RequestsAreSound'
  BY <1>1, <1>2
     DEF ServerIsSound, RequestsAreSound, RequestIsSound, AnswerIsFounded, Row, Working
<1> QED
  BY <1>1, <1>5, <1>6, <1>7 DEF ServerIsSound, ServingIsSound

\* Nothing that the server keeps changes when it is interrupted, or stops.
LEMMA ShutdownSound ==
  ASSUME ServerIsSound, serving' = "absent" => serving = "absent",
         UNCHANGED <<rows, connection, at, job, fetched, answer, before>>
  PROVE  ServerIsSound'
BY DEF ServerIsSound, ServingIsSound, ConnectionsAreSound, SessionIsSound, SessionIsClean,
       SessionFollows, InsertionIsSound, Insertion, Row, Apart, RowsAreSound, RowIsSound,
       RequestsAreSound, RequestIsSound, AnswerIsFounded

\* Every step of the server keeps it sound.
LEMMA ServerStepSound ==
  ASSUME ServerTypes, ServerIsSound, ServerStep
  PROVE  ServerIsSound'
<1>1. CASE StartServing
  BY <1>1, StartServingSound
<1>2. CASE Interrupt \/ Exit
  BY <1>2, ShutdownSound DEF Interrupt, Exit
<1>3. ASSUME NEW q \in Requests, Accept(q) \/ Leave(q)
      PROVE  ServerIsSound'
  BY <1>3, AcceptSound, LeaveSound
<1>4. ASSUME NEW q \in Requests, Handle(q)
      PROVE  ServerIsSound'
  BY <1>4, BeginSound, NoConnectionSound, PingSound, LockBalanceSound, InsertTaskSound,
     SelectTaskSound, SendCommitSound, ConcludeSound DEF Handle
<1>5. ASSUME NEW c \in Connections, ExecuteCommit(c) \/ GiveBack(c) \/ LoseConnection(c)
      PROVE  ServerIsSound'
  BY <1>5, ExecuteCommitSound, GiveBackSound, LoseConnectionSound
<1> QED
  BY <1>1, <1>2, <1>3, <1>4, <1>5 DEF ServerStep

-----------------------------------------------------------------------------
(***************************************************************************)
(* Migrations                                                              *)
(***************************************************************************)
\* A step of kollega migrate keeps the migrations in order.
LEMMA MigrateOrderly ==
  ASSUME TypeOK, MigrationIsOrderly, NEW m \in Migrators, Migrate(m) \/ CrashMigration(m),
         UNCHANGED connection
  PROVE  MigrationIsOrderly'
<1> USE DEF MigrationIsOrderly, TypeOK, MigrationTypes, Goes
<1>1. CASE LockSchema(m)
  BY <1>1 DEF LockSchema
<1>2. CASE Apply(m)
  BY <1>2, MigrationAssumption DEF Apply
<1>3. CASE Migrated(m)
  BY <1>3 DEF Migrated
<1>4. CASE AlterRole(m)
  BY <1>4 DEF AlterRole, Holds
<1>5. CASE CommitRole(m)
  BY <1>5 DEF CommitRole
<1>6. CASE CrashMigration(m)
  BY <1>6 DEF CrashMigration
<1>7. CASE Refuse(m)
  BY <1>7 DEF Refuse
<1> QED
  BY <1>1, <1>2, <1>3, <1>4, <1>5, <1>6, <1>7 DEF Migrate

\* The server opens a session only once the role has its password.
LEMMA ServerKeepsMigrations ==
  ASSUME TypeOK, MigrationIsOrderly, ServerIsSound, ServerStep, UNCHANGED migration
  PROVE  MigrationIsOrderly'
<1>1. ASSUME NEW c \in Connections, connection'[c].phase # "closed"
      PROVE  \/ \E d \in Connections : connection[d].phase # "closed"
             \/ role.password = OwnSecret
  <2>1. CASE StartServing
    BY <1>1, <2>1 DEF StartServing, TypeOK, ServerTypes
  <2>2. CASE Interrupt \/ Exit
    BY <1>1, <2>2 DEF Interrupt, Exit
  <2>3. ASSUME NEW q \in Requests, Accept(q) \/ NoConnection(q)
        PROVE  \E d \in Connections : connection[d].phase # "closed"
    BY <1>1, <2>3 DEF Accept, NoConnection
  <2>4. ASSUME NEW q \in Requests, Begin(q)
        PROVE  \/ \E d \in Connections : connection[d].phase # "closed"
               \/ role.password = OwnSecret
    BY <2>4 DEF Begin, Usable, InPhase
  <2>5. ASSUME NEW q \in Requests, at[q] \in Working
        PROVE  \E d \in Connections : connection[d].phase # "closed"
    <3>1. PICK d \in Connections : connection[d].holder = q
      BY <2>5, OwnConnectionIsHeld DEF TypeOK
    <3>2. connection[d] # Closed
      BY <3>1, NoneIsNothing DEF Closed
    <3> QED
      BY <3>2 DEF ServerIsSound, ConnectionsAreSound, SessionIsSound, SessionIsClean
  <2>6. ASSUME NEW q \in Requests,
               \/ Ping(q) \/ LockBalance(q) \/ InsertTask(q)
               \/ SelectTask(q) \/ SendCommit(q) \/ Conclude(q)
        PROVE  at[q] \in Working
    BY <2>6 DEF Ping, LockBalance, InsertTask, SelectTask, SendCommit, Conclude, Creating, Working
  <2>7. ASSUME NEW q \in Requests, Leave(q)
        PROVE  \E d \in Connections : connection[d].phase # "closed"
    <3>1. CASE HeldBy(q) = {}
      BY <1>1, <2>7, <3>1 DEF Leave
    <3>2. CASE HeldBy(q) # {}
      BY <2>5, <3>2, NothingIsHeld DEF HeldBy, TypeOK
    <3> QED
      BY <3>1, <3>2
  <2>8. ASSUME NEW d \in Connections, ExecuteCommit(d) \/ GiveBack(d) \/ LoseConnection(d)
        PROVE  connection[d].phase # "closed"
    BY <2>8 DEF ExecuteCommit, GiveBack, LoseConnection
  <2> QED
    BY <2>1, <2>2, <2>3, <2>4, <2>5, <2>6, <2>7, <2>8 DEF ServerStep, Handle
<1>2. (\E c \in Connections : connection'[c].phase # "closed") =>
        applied = Latest \/ role = [password |-> OwnSecret, version |-> 0]
  <2>1. role = [password |-> role.password, version |-> role.version] /\ role.version \in Nat
    BY DEF TypeOK, MigrationTypes
  <2>2. role.version = 0 \/ role.version > 0
    BY <2>1
  <2> QED
    BY <1>1, <2>1, <2>2 DEF MigrationIsOrderly
<1> QED
  BY <1>2 DEF MigrationIsOrderly, migration
-----------------------------------------------------------------------------
(***************************************************************************)
(* The inductive invariant                                                 *)
(***************************************************************************)
\* A step is one of kollega migrate or one of the server.
LEMMA StepsOfTheDeployment ==
  ASSUME Next
  PROVE  \/ /\ \E m \in Migrators : Migrate(m) \/ CrashMigration(m)
            /\ UNCHANGED server
         \/ ServerStep /\ UNCHANGED migration
BY DEF Next, ServerStep

\* The initial state satisfies the inductive invariant.
LEMMA InitInv == Init => IInv
<1> SUFFICES ASSUME Init PROVE IInv
  OBVIOUS
<1>1. TypeOK
  BY InitTypes
<1>2. MigrationIsOrderly
  BY DEF Init, InitMigration, InitServer, MigrationIsOrderly, Closed
<1>3. ServingIsSound
  BY DEF Init, InitServer, ServingIsSound
<1>4. ConnectionsAreSound
  BY DEF Init, InitServer, ConnectionsAreSound, SessionIsSound, SessionIsClean, Apart, Closed
<1>5. RowsAreSound
  <2>1. 0 \notin Requests
    BY ServerAssumption DEF Requests
  <2>2. \A t \in Tasks : rows[t] # None => rows[t].by = 0
    BY DEF Init, InitServer
  <2> QED
    BY <2>1, <2>2 DEF RowsAreSound
<1>6. RequestsAreSound
  BY DEF Init, InitServer, RequestsAreSound, RequestIsSound, AnswerIsFounded,
         Working, Unanswered
<1> QED
  BY <1>1, <1>2, <1>3, <1>4, <1>5, <1>6 DEF IInv, ServerIsSound

\* Every step keeps the inductive invariant.
LEMMA NextInv == IInv /\ [Next]_vars => IInv'
<1> SUFFICES ASSUME IInv, [Next]_vars PROVE IInv'
  OBVIOUS
<1> USE DEF IInv
<1>1. ASSUME NEW m \in Migrators, Migrate(m) \/ CrashMigration(m), UNCHANGED server
      PROVE  IInv'
  <2>1. MigrationTypes' /\ MigrationIsOrderly'
    BY <1>1, MigrateTypes, MigrateOrderly DEF server
  <2>2. ServerTypes' /\ ServerIsSound'
    BY <1>1, ShutdownSound DEF server, TypeOK, ServerTypes
  <2> QED
    BY <2>1, <2>2 DEF TypeOK
<1>2. CASE ServerStep /\ UNCHANGED migration
  <2>1. ServerTypes' /\ ServerIsSound'
    BY <1>2, ServerStepTypes, ServerStepSound DEF TypeOK
  <2>2. MigrationTypes' /\ MigrationIsOrderly'
    BY <1>2, ServerKeepsMigrations DEF migration, TypeOK, MigrationTypes
  <2> QED
    BY <2>1, <2>2 DEF TypeOK
<1>3. CASE UNCHANGED vars
  <2>1. UNCHANGED migration /\ UNCHANGED server
    BY <1>3 DEF vars
  <2>2. ServerTypes' /\ ServerIsSound'
    BY <2>1, ShutdownSound DEF server, TypeOK, ServerTypes
  <2>3. MigrationTypes' /\ MigrationIsOrderly'
    BY <2>1 DEF migration, server, TypeOK, MigrationTypes, MigrationIsOrderly
  <2> QED
    BY <2>2, <2>3 DEF TypeOK
<1> QED
  BY <1>1, <1>2, <1>3, StepsOfTheDeployment

\* Migration, Server, Deployment: every reachable state has its type, a session
\* of PostgreSQL is where its request is, and what a request knows or was told
\* stands in the table.
THEOREM DeploymentInvariant == Spec => []IInv
<1> QED
  BY InitInv, NextInv, PTL DEF Spec

-----------------------------------------------------------------------------
(***************************************************************************)
(* The properties                                                          *)
(***************************************************************************)
\* set_app_role_password and run_migrations (lib.rs): however many instances of
\* kollega migrate run at once and stop anywhere, on whatever database, none
\* fails another, none ends well nor gives kollega_app its password before the
\* whole schema is there, and a session on an unfinished one was opened with a
\* password that none of them gave.
THEOREM DeploymentOrderly == Spec => []DeploymentIsOrderly
<1>1. ASSUME IInv
      PROVE  DeploymentIsOrderly
  <2> USE <1>1 DEF IInv, MigrationIsOrderly
  <2>1. Holds("failed") = {}
    BY DEF Holds
  <2>2. Holds("done") # {} \/ role.version > 0 => applied = Latest
    BY DEF Holds
  <2>3. \A c \in Connections : connection[c].phase # "closed" =>
          applied = Latest \/ role = [password |-> OwnSecret, version |-> 0]
    OBVIOUS
  <2> QED
    BY <2>1, <2>2, <2>3 DEF DeploymentIsOrderly
<1> QED
  BY <1>1, DeploymentInvariant, PTL

\* org_transaction (lib.rs): with any number of organisations, requests and
\* connections, a handler works under the organisation of its request on a
\* connection of its own, and an idle connection keeps nothing of anybody.
THEOREM OrganisationsStayApart == Spec => []RequestsStayInTheirOrganisation
<1>1. ASSUME IInv
      PROVE  RequestsStayInTheirOrganisation
  <2> USE <1>1 DEF IInv, TypeOK
  <2>1. ASSUME NEW q \in Requests
        PROVE  Cardinality(HeldBy(q)) <= 1
    <3>1. CASE at[q] \in Working
      <4>1. HeldBy(q) = {OwnConnection(q)}
        BY <3>1, OwnConnectionIsHeld DEF HeldBy
      <4>2. Cardinality({OwnConnection(q)}) = 1
        BY FS_Singleton
      <4> QED
        BY <4>1, <4>2
    <3>2. CASE at[q] \notin Working
      <4>1. HeldBy(q) = {}
        BY <3>2, NothingIsHeld DEF HeldBy
      <4> QED
        BY <4>1, FS_EmptySet
    <3> QED
      BY <3>1, <3>2
  <2>2. ASSUME NEW q \in Requests, at[q] \in {"begun", "charged", "worked"}
        PROVE  connection[OwnConnection(q)].org = job[q].org
    BY <2>2, OwnConnectionIsHeld DEF SessionFollows, Working
  <2>3. ASSUME NEW q \in Requests, answer[q].code = 200, job[q].kind = "read"
        PROVE  rows[job[q].task].org = job[q].org
    BY <2>3 DEF ServerIsSound, RequestsAreSound, AnswerIsFounded
  <2>4. ASSUME NEW c \in InPhase("idle")
        PROVE  connection[c] = Idle
    BY <2>4 DEF InPhase, ServerIsSound, ConnectionsAreSound, SessionIsSound, SessionIsClean
  <2>5. ASSUME NEW t \in Tasks, rows[t] # None, rows[t].by # 0
        PROVE  rows[t].org = job[rows[t].by].org
    <3>2. rows[t].by \in Requests
      BY <2>5 DEF ServerTypes, Rows
    <3>1. rows[t] = [org |-> job[rows[t].by].org, by |-> rows[t].by]
      BY <2>5, <3>2 DEF ServerIsSound, RowsAreSound, RowIsSound, Row
    <3> QED
      BY <3>1
  <2> QED
    BY <2>1, <2>2, <2>3, <2>4, <2>5 DEF RequestsStayInTheirOrganisation
<1> QED
  BY <1>1, DeploymentInvariant, PTL

\* create_task and read_task (lib.rs): a request that is told that its row was
\* created made it, one that is told otherwise made none unless its connection
\* was lost, and one that is told that a task is unknown was right when it was
\* accepted, whatever races for the identifier, leaves or loses its connection.
THEOREM AnswersAreTrue == Spec => []AnswersTellTheTruth
<1>1. ASSUME IInv
      PROVE  AnswersTellTheTruth
  <2> USE <1>1 DEF IInv, TypeOK
  <2>1. SUFFICES ASSUME NEW q \in Requests
                 PROVE  LET made == \E t \in Tasks : rows[t] # None /\ rows[t].by = q IN
                        /\ answer[q].code = 201 => made
                        /\ answer[q].code = 422 /\ made => answer[q].error = "lost"
                        /\ answer[q].error = "taken" => rows[job[q].task] # None
                        /\ answer[q].code = 404 => before[q] = None \/ before[q].org # job[q].org
                        /\ made => job[q].kind = "create" /\ job[q].ceiling >= 0
    BY DEF AnswersTellTheTruth
  <2>2. RequestIsSound(q) /\ AnswerIsFounded(q)
    BY DEF ServerIsSound, RequestsAreSound
  <2>3. ASSUME answer[q].code = 201
        PROVE  \E t \in Tasks : rows[t] # None /\ rows[t].by = q
    <3>1. job[q].task \in Tasks /\ job[q].org \in Orgs /\ rows[job[q].task] = Row(q)
      BY <2>2, <2>3 DEF AnswerIsFounded, ServerTypes, Works
    <3>2. Row(q) # None /\ Row(q).by = q
      BY <3>1, NoneIsNothing DEF Row, Rows
    <3> QED
      BY <3>1, <3>2
  <2>4. ASSUME NEW t \in Tasks, rows[t] # None, rows[t].by = q
        PROVE  /\ job[q].kind = "create" /\ job[q].ceiling >= 0
               /\ answer[q].code = 422 => answer[q].error = "lost"
    <3>1. /\ job[q].kind = "create" /\ job[q].ceiling >= 0
          /\ at[q] = "answered" => answer[q].code = 201 \/ answer[q].error = "lost"
      BY <2>4 DEF ServerIsSound, RowsAreSound, RowIsSound
    <3>2. at[q] # "answered" => answer[q].code = 0
      BY <2>2 DEF RequestIsSound, Unanswered
    <3> QED
      BY <3>1, <3>2
  <2> QED
    BY <2>2, <2>3, <2>4 DEF AnswerIsFounded
<1> QED
  BY <1>1, DeploymentInvariant, PTL
=============================================================================
