----------------------------- MODULE Deployment -----------------------------
(***************************************************************************)
(* A first deployment and a redeployment: instances of `kollega migrate`   *)
(* and the process of `kollega serve`, which share the role kollega_app    *)
(* and its password, and the schema.  Nothing orders them but the password *)
(* (compose.yaml: both depend on the database alone).                      *)
(***************************************************************************)
EXTENDS Server

vars == <<migration, server, accidents>>

Init == InitMigration /\ InitServer /\ accidents = 0

Next ==
  \/ \E m \in Migrators : (Migrate(m) \/ CrashMigration(m)) /\ UNCHANGED server
  \/ /\ \/ StartServing \/ Interrupt \/ Exit
        \/ \E q \in Requests : Accept(q) \/ Handle(q) \/ Leave(q)
        \/ \E c \in Connections : ExecuteCommit(c) \/ GiveBack(c) \/ LoseConnection(c)
     /\ UNCHANGED migration

\* Whoever works goes on working: an instance of migrate that has begun, a
\* handler (a pool that gives nothing answers an error in the end), PostgreSQL,
\* the pool, a server without requests that was asked to stop.  One of those who
\* can go on does; as none of them works without end, that is all that is
\* assumed.  Nobody has to deploy, to ask for anything or to stop the server.
Progress ==
  \/ \E m \in Migrators : step[m] # "absent" /\ Migrate(m) /\ UNCHANGED server
  \/ /\ \/ \E q \in Requests : Handle(q)
        \/ \E c \in Connections : ExecuteCommit(c) \/ GiveBack(c)
        \/ Exit
     /\ UNCHANGED migration

Spec == Init /\ [][Next]_vars /\ WF_vars(Progress)

-----------------------------------------------------------------------------
\* org_transaction (lib.rs, invariant 1): whatever handlers are dropped,
\* connections lost or given back, a handler works under the organisation of
\* its own request, on a connection of its own; a connection that serves nobody
\* keeps no organisation, no lock and no row, and what is stored or told never
\* comes from another organisation.
RequestsStayInTheirOrganisation ==
  /\ \A q \in Requests :
       /\ Cardinality(HeldBy(q)) <= 1
       /\ at[q] \in {"begun", "charged", "worked"} => connection[OwnConnection(q)].org = job[q].org
       /\ answer[q].code = 200 /\ job[q].kind = "read" => rows[job[q].task].org = job[q].org
  /\ \A c \in InPhase("idle") : connection[c] = Idle
  /\ \A t \in Tasks : rows[t] # None /\ rows[t].by # 0 => rows[t].org = job[rows[t].by].org

\* The answers of the routes against the table, in races for one identifier,
\* clients that leave and commits whose answer is lost (create_task, read_task
\* of lib.rs): created means that this very request made the row; not created
\* means that it made none, unless the connection was lost; unknown means that
\* no row of the organisation was there when the request was accepted.
AnswersTellTheTruth ==
  \A q \in Requests :
    LET made == \E t \in Tasks : rows[t] # None /\ rows[t].by = q IN
    /\ answer[q].code = 201 => made
    /\ answer[q].code = 422 /\ made => answer[q].error = "lost"
    /\ answer[q].error = "taken" => rows[job[q].task] # None
    /\ answer[q].code = 404 => before[q] = None \/ before[q].org # job[q].org
    /\ made => job[q].kind = "create" /\ job[q].ceiling >= 0

\* Instances of migrate at once never fail each other (set_app_role_password of
\* lib.rs), whatever the database they find and wherever one of them stops: none
\* gives kollega_app its password, and none ends well, before the whole schema is
\* there.  So the password is what keeps a server out of an unfinished schema:
\* whoever opens a session on one did it with a password that was there before.
DeploymentIsOrderly ==
  /\ Holds("failed") = {}
  /\ Holds("done") # {} \/ role.version > 0 => applied = Latest
  /\ \A c \in Connections : connection[c].phase # "closed" =>
       applied = Latest \/ role = [password |-> OwnSecret, version |-> 0]

\* Every request that was accepted is answered, unless its client leaves, every
\* instance of migrate comes to an end, and a server that was asked to stop
\* stops: no lock, of a balance, of an identifier, of the pool or of a
\* migration, keeps anybody for ever.
EverythingEnds ==
  []<>(/\ InFlight = {}
       /\ Holds("migrating") \cup Holds("migrated") \cup Holds("altering") = {}
       /\ serving # "stopping")

=============================================================================
