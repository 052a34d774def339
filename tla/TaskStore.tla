----------------------------- MODULE TaskStore -----------------------------
(***************************************************************************)
(* kollega-store/src/driver.rs: the machine meets PostgreSQL.  One         *)
(* organisation (row-level security keeps the others apart): its tasks,    *)
(* its credits, its audit chain, the audit content and the memory of the   *)
(* effects, read and written by concurrent transactions:                   *)
(*                                                                         *)
(*   - Workers run run_task_step: a step per attempt (try_task_step), an   *)
(*     attestation of abandonment after a chain conflict, a retry;         *)
(*   - one purger runs purge_org_content;                                  *)
(*   - create_task only takes the lock of the credits, in one action.      *)
(*                                                                         *)
(* What a transaction wrote stays in its record of tx until it commits;    *)
(* committed tables are the variables tasks, credits, chain, content and   *)
(* effects.  PostgreSQL is modelled by what the code asks of it: READ      *)
(* COMMITTED statements, FOR UPDATE row locks re-reading the row once      *)
(* granted, unique keys whose insertion waits for the transaction that     *)
(* holds the key, a victim chosen when two transactions wait for each      *)
(* other.  Digests are injective: a content stands for its own digest.     *)
(***************************************************************************)
EXTENDS Machine, FiniteSets, FiniteSetsExt, SequenceVerifier

CONSTANTS
  Tasks,           \* task identifiers create_task may be called with
  NoTask,          \* no row in table tasks
  Workers,         \* concurrent callers of run_task_step
  Purger,          \* the caller of purge_org_content, "system" in the chain
  ChainRetries,    \* CHAIN_RETRIES
  Ceiling,         \* cost ceiling of every task
  InitialBalance,  \* balance of the organisation at the beginning
  CallRules,       \* rule sets a caller may pass
  MaxInvocations,  \* bound: calls to run_task_step
  MaxPurges,       \* bound: calls to purge_org_content
  MaxCrashes,      \* bound: transactions lost to a crash or a database error
  MaxRestores      \* bound: tasks put back to their previous envelope

ASSUME TaskStoreAssumption ==
  /\ NoTask \notin TaskStates
  /\ Purger \notin Workers \cup Tasks
  /\ ChainRetries \in Nat \ {0}
  /\ Ceiling \in Amounts
  /\ InitialBalance \in Amounts
  /\ CallRules \subseteq RuleSets
  /\ {MaxInvocations, MaxPurges, MaxCrashes, MaxRestores} \subseteq Nat

VARIABLES
  tasks,     \* table tasks: the envelope of each task
  previous,  \* the envelope each task had before its last step
  credits,   \* table credits: balance_cents
  chain,     \* table audit_chain
  content,   \* table audit_content: the digests whose content is there
  effects,   \* table tool_call_effects
  tx,        \* what each open transaction wrote
  worker,    \* each caller of run_task_step
  purge,     \* where purge_org_content is
  world,     \* how many times the effect of each call happened
  fuel       \* what is left of the bounds

database == <<tasks, previous, credits, chain, content, effects>>

vars == <<database, tx, worker, purge, world, fuel>>

-----------------------------------------------------------------------------
(***************************************************************************)
(* Contents.  The JSON of an event does not name its task, the abandonment *)
(* names only the attempt: equal contents of two tasks are one row.  What  *)
(* a tool returns is abstracted to the tool.                               *)
(***************************************************************************)
EventContent(event) == <<"event", event>>
ResultContent(tool) == <<"result", tool>>
AbandonContent(attempt) == <<"abandoned", attempt>>
PurgeContent(rows) == <<"purged", rows>>

\* derive_tool_call_id: a function of the task and of the iteration.
Call(task, iteration) == <<task, iteration>>

NoCall == <<>>

Calls == Tasks \X (0 .. MaxIterations)

Attestation(actor, action, call, digest) ==
  [actor |-> actor, action |-> action, call |-> call, content |-> digest]

EventAttestation(task, event) ==
  Attestation(task, event.action,
              IF event.action \in CallActions
              THEN Call(task, event.iteration) ELSE NoCall,
              EventContent(event))

-----------------------------------------------------------------------------
(***************************************************************************)
(* Transactions                                                            *)
(***************************************************************************)
Transactions == Workers \cup {Purger}

\* The tip of an empty chain; the first entry has height 0.
EmptyTail == -1

NoTx == [puts |-> {}, deleted |-> {}, entries |-> {}, traces |-> {}, tail |-> EmptyTail]

\* An INSERT of a digest another transaction has inserted or deleted waits for
\* the end of that transaction; a committed row is not locked by the INSERT.
MayPut(x, digest) ==
  \A y \in Transactions \ {x} : digest \notin tx[y].puts \cup tx[y].deleted

\* Mutated: the content is not stored beside its attestation.
PutInNothing(t, digest) == t

\* ON CONFLICT (org_id, digest) DO NOTHING
PutIn(t, digest) ==
  IF digest \in content \ t.deleted THEN t ELSE [t EXCEPT !.puts = @ \cup {digest}]

\* SELECT height ... ORDER BY height DESC LIMIT 1: committed rows and its own.
ReadTail(x) == Max({EmptyTail} \cup {e.height : e \in chain \cup tx[x].entries})

NextHeight(x) == tx[x].tail + 1

\* The constraint audit_chain_one_attestation_per_call_action of migration
\* 0005: DO NOTHING.  NULLs do not conflict.
AlreadyAttested(x, att) ==
  /\ att.call # NoCall
  /\ \E e \in chain \cup tx[x].entries : e.call = att.call /\ e.action = att.action

\* Mutated: the primary key (org_id, height) is missing.
HeightTakenNever(x) == FALSE

\* 23505 on the primary key (org_id, height): a ChainConflict.
HeightTaken(x) == \E e \in chain : e.height = NextHeight(x)

\* The key is held by a transaction in progress: the INSERT waits.
HeightHeld(x) ==
  \E y \in Transactions \ {x} : \E e \in tx[y].entries : e.height = NextHeight(x)

Entry(x, att) ==
  [height |-> NextHeight(x), actor |-> att.actor, action |-> att.action,
   call |-> att.call, content |-> att.content]

InsertIn(t, entry) == [t EXCEPT !.entries = @ \cup {entry}]

\* COMMIT of what the transaction wrote in the three tables of the audit.
Publish(t) ==
  /\ chain' = chain \cup t.entries
  /\ content' = (content \ t.deleted) \cup t.puts
  /\ effects' = effects \cup t.traces

Rollback(x) == tx' = [tx EXCEPT ![x] = NoTx]

-----------------------------------------------------------------------------
(***************************************************************************)
(* Callers of run_task_step.  A caller is idle, in an attempt of its step  *)
(* (phase "step"), or attesting the abandonment of one ("abandonment").    *)
(***************************************************************************)
NoRules == [r \in Requests |-> "deny"]

Idle == [pc |-> "idle", task |-> NoTask, approval |-> "none", rules |-> NoRules,
         phase |-> "step", attempt |-> 0, tries |-> 0,
         state |-> NoTask, next |-> 0, known |-> {}, performed |-> <<>>]

\* The beginning of an attempt: nothing is left of the one before.
Attempt(caller, n) ==
  [Idle EXCEPT !.pc = "lock_task", !.task = caller.task, !.attempt = n,
               !.approval = caller.approval, !.rules = caller.rules]

At(w, label) == worker[w].pc = label

Goto(w, label) == worker' = [worker EXCEPT ![w].pc = label]

\* The row of the task, then the row of the credits, are locked until the end
\* of the transaction.
OwnsTask(w) == worker[w].phase = "step" /\ worker[w].pc \notin {"idle", "lock_task"}

OwnsCredits(w) == OwnsTask(w) /\ worker[w].pc # "lock_credits"

\* Mutated: SELECT state without FOR UPDATE.
TaskRowFreeAlways(t) == TRUE

TaskRowFree(t) == ~\E v \in Workers : OwnsTask(v) /\ worker[v].task = t

CreditsFree == ~\E v \in Workers : OwnsCredits(v)

\* The `return` of run_task_step; an error drops the transaction, which rolls
\* it back.
Leave(w) ==
  /\ worker' = [worker EXCEPT ![w] = Idle]
  /\ Rollback(w)
  /\ UNCHANGED database

Init ==
  /\ tasks = [t \in Tasks |-> NoTask]
  /\ previous = tasks
  /\ credits = InitialBalance
  /\ chain = {}
  /\ content = {}
  /\ effects = {}
  /\ tx = [x \in Transactions |-> NoTx]
  /\ worker = [w \in Workers |-> Idle]
  /\ purge = "idle"
  /\ world = [c \in Calls |-> 0]
  /\ fuel = [invocations |-> MaxInvocations, purges |-> MaxPurges,
             crashes |-> MaxCrashes, restores |-> MaxRestores]

-----------------------------------------------------------------------------
(***************************************************************************)
(* create_task, one transaction: the balance read under its lock, the      *)
(* envelope of a new task inserted.                                        *)
(***************************************************************************)
CreateTask(t) ==
  /\ tasks[t] = NoTask
  /\ CreditsFree
  /\ tasks' = [tasks EXCEPT ![t] = NewTask(Ceiling, credits)]
  /\ UNCHANGED <<previous, credits, chain, content, effects, tx, worker, purge, world, fuel>>

(***************************************************************************)
(* run_task_step is called, by anybody and for any task; a decision is     *)
(* given for a task that its caller read as suspended.                     *)
(***************************************************************************)
ReadAsSuspended(t) == tasks[t] # NoTask /\ tasks[t].status = "waiting_approval"

Invoke(w, t, approval, rules) ==
  /\ At(w, "idle")
  /\ fuel.invocations > 0
  /\ approval # "none" => ReadAsSuspended(t)
  /\ worker' = [worker EXCEPT ![w] =
                  Attempt([task |-> t, approval |-> approval, rules |-> rules], 0)]
  /\ fuel' = [fuel EXCEPT !.invocations = @ - 1]
  /\ UNCHANGED <<database, tx, purge, world>>

-----------------------------------------------------------------------------
(***************************************************************************)
(* try_task_step: the envelope, locked; then the balance, locked.          *)
(***************************************************************************)
TaskNotFound(w) ==
  /\ At(w, "lock_task")
  /\ tasks[worker[w].task] = NoTask
  /\ Leave(w)
  /\ UNCHANGED <<purge, world, fuel>>

LockTask(w) ==
  /\ At(w, "lock_task")
  /\ tasks[worker[w].task] # NoTask
  /\ TaskRowFree(worker[w].task)
  /\ worker' = [worker EXCEPT ![w].pc = "lock_credits",
                              ![w].state = tasks[worker[w].task]]
  /\ UNCHANGED <<database, tx, purge, world, fuel>>

\* The effects already recorded for the task, joined to their results.
Recorded(t) == {e \in effects : e.call[1] = t}

\* Mutated: the recorded effects are not loaded.
LoadedNothing(t) == {}

Loaded(t) == {e.call[2] : e \in Recorded(t)}

ResultsKept(t) == \A e \in Recorded(t) : ResultContent(e.tool) \in content

LockCredits(w) ==
  LET c == worker[w] IN
  /\ At(w, "lock_credits")
  /\ CreditsFree
  /\ ResultsKept(c.task)
  /\ worker' = [worker EXCEPT ![w].pc = "entry",
                              ![w].state.budget = Refreshed(@, credits),
                              ![w].next = Len(c.state.audit) + 1,
                              ![w].known = Loaded(c.task)]
  /\ UNCHANGED <<database, tx, purge, world, fuel>>

\* CorruptState: an effect is recorded and its result was purged.
ResultPurged(w) ==
  /\ At(w, "lock_credits")
  /\ CreditsFree
  /\ ~ResultsKept(worker[w].task)
  /\ Leave(w)
  /\ UNCHANGED <<purge, world, fuel>>

-----------------------------------------------------------------------------
(***************************************************************************)
(* drive, on the copy of the state: each of its branches is one action,    *)
(* because the effect of a tool happens in the world when the tool runs,   *)
(* whatever becomes of the transaction.                                    *)
(***************************************************************************)
\* The branches of the entry and of one pass of the loop, as in TaskMachine.
Entered(t, approval) ==
  CASE t.status = "pending" -> {Started(t)}
    [] t.status \in Terminal \cup {"running"} -> {t}
    [] t.status = "waiting_approval" /\ approval = "none" -> {t}
    [] t.status = "waiting_approval" /\ approval # "none" /\ Incoherent(t) ->
         {ClosedIncoherent(t)}
    [] t.status = "waiting_approval" /\ approval = "reject" /\ ~Incoherent(t) ->
         {Rejected(t)}
    [] t.status = "waiting_approval" /\ approval = "approve" /\ ~Incoherent(t) ->
         {IF Affords(t, Total(t.pending)) THEN Approved(t) ELSE ApprovedButStopped(t)}

Passed(t, rules) ==
  IF Spent(t) THEN {Exhausted(t)}
  ELSE Conclusions(t) \cup StoppedConclusions(t) \cup Denials(t, rules)
         \cup Suspensions(t, rules) \cup StoppedExecutions(t, rules)
         \cup Executions(t, rules)

\* The calls run between two states: run() follows the charge.
RunBetween(t, u) ==
  {e \in {u.audit[k] : k \in DOMAIN u.audit \ DOMAIN t.audit} :
     e.action = "tool_call_completed"}

\* IdempotentTools::run: a known effect is answered, not performed.
Unknown(events, known) == {e \in events : e.iteration \notin known}

Trace(e) == [iteration |-> e.iteration, tool |-> e.tool]

DriveTo(w, state) ==
  LET c   == worker[w]
      new == Unknown(RunBetween(c.state, state), c.known)
  IN  /\ worker' = [worker EXCEPT
           ![w].state = state,
           ![w].pc = IF state.status = "running" THEN "loop" ELSE "effects",
           ![w].performed = @ \o SetToSeq({Trace(e) : e \in new})]
      /\ world' = [k \in Calls |->
           world[k] + IF \E e \in new : k = Call(c.task, e.iteration) THEN 1 ELSE 0]
      /\ UNCHANGED <<database, tx, purge, fuel>>

Enter(w) ==
  /\ At(w, "entry")
  /\ \E state \in Entered(worker[w].state, worker[w].approval) : DriveTo(w, state)

Loop(w) ==
  /\ At(w, "loop")
  /\ \E state \in Passed(worker[w].state, worker[w].rules) : DriveTo(w, state)

-----------------------------------------------------------------------------
(***************************************************************************)
(* The effects performed, in their order: the result, then its trace, of   *)
(* which nothing is written twice (ON CONFLICT DO NOTHING).                *)
(***************************************************************************)
\* Mutated: the iteration the machine has moved to, instead of that of the call.
EffectOfNext(task, trace) ==
  [call |-> Call(task, trace.iteration + 1), tool |-> trace.tool]

EffectOf(task, trace) == [call |-> Call(task, trace.iteration), tool |-> trace.tool]

KeepTrace(w) ==
  LET c == worker[w]
      p == Head(c.performed)
      t == PutIn(tx[w], ResultContent(p.tool))
      e == EffectOf(c.task, p)
  IN  /\ At(w, "effects")
      /\ c.performed # <<>>
      /\ MayPut(w, ResultContent(p.tool))
      /\ tx' = [tx EXCEPT ![w] =
                  IF \E f \in effects \cup t.traces : f.call = e.call
                  THEN t ELSE [t EXCEPT !.traces = @ \cup {e}]]
      /\ worker' = [worker EXCEPT ![w].performed = Tail(@)]
      /\ UNCHANGED <<database, purge, world, fuel>>

\* The loop on the new events, from `next` on: one more, or none left.
AfterEvent(caller) == IF caller.next <= Len(caller.state.audit) THEN "put" ELSE "commit"

TracesKept(w) ==
  /\ At(w, "effects")
  /\ worker[w].performed = <<>>
  /\ Goto(w, AfterEvent(worker[w]))
  /\ UNCHANGED <<database, tx, purge, world, fuel>>

-----------------------------------------------------------------------------
(***************************************************************************)
(* append_attestation, for an event of the step or for the abandonment of  *)
(* the attempt: the content, the tail, the entry, one statement each.      *)
(***************************************************************************)
Writing(w) ==
  LET c == worker[w] IN
  IF c.phase = "step"
  THEN EventAttestation(c.task, c.state.audit[c.next])
  ELSE Attestation(c.task, "step_abandoned", NoCall, AbandonContent(c.attempt))

PutContent(w) ==
  /\ At(w, "put")
  /\ MayPut(w, Writing(w).content)
  /\ tx' = [tx EXCEPT ![w] = PutIn(@, Writing(w).content)]
  /\ Goto(w, "tail")
  /\ UNCHANGED <<database, purge, world, fuel>>

FindTail(w) ==
  /\ At(w, "tail")
  /\ tx' = [tx EXCEPT ![w].tail = ReadTail(w)]
  /\ Goto(w, "insert")
  /\ UNCHANGED <<database, purge, world, fuel>>

Attested(w) ==
  LET next == [worker[w] EXCEPT !.next = @ + 1]
  IN  worker' = [worker EXCEPT ![w] = [next EXCEPT !.pc = AfterEvent(next)]]

\* Mutated: the abandonment is not attested before the step is played again.
LoseHeightSilently(w) ==
  /\ At(w, "insert")
  /\ worker[w].phase = "step"
  /\ ~AlreadyAttested(w, Writing(w))
  /\ HeightTaken(w)
  /\ Rollback(w)
  /\ worker' = [worker EXCEPT ![w] = Attempt(@, worker[w].attempt + 1)]
  /\ UNCHANGED <<database, purge, world, fuel>>

\* ChainConflict: the whole step is lost, its abandonment will be attested.
LoseHeight(w) ==
  /\ At(w, "insert")
  /\ worker[w].phase = "step"
  /\ ~AlreadyAttested(w, Writing(w))
  /\ HeightTaken(w)
  /\ Rollback(w)
  /\ worker' = [worker EXCEPT ![w] =
                  [Attempt(@, worker[w].attempt) EXCEPT !.pc = "put", !.phase = "abandonment"]]
  /\ UNCHANGED <<database, purge, world, fuel>>

InsertEvent(w) ==
  /\ At(w, "insert")
  /\ worker[w].phase = "step"
  /\ ~AlreadyAttested(w, Writing(w))
  /\ ~HeightTaken(w)
  /\ ~HeightHeld(w)
  /\ tx' = [tx EXCEPT ![w] = InsertIn(@, Entry(w, Writing(w)))]
  /\ Attested(w)
  /\ UNCHANGED <<database, purge, world, fuel>>

SkipEvent(w) ==
  /\ At(w, "insert")
  /\ worker[w].phase = "step"
  /\ AlreadyAttested(w, Writing(w))
  /\ Attested(w)
  /\ UNCHANGED <<database, tx, purge, world, fuel>>

\* The state, the status and the balance are written, and all is committed.
Commit(w) ==
  LET c == worker[w] IN
  /\ At(w, "commit")
  /\ tasks' = [tasks EXCEPT ![c.task] = c.state]
  /\ previous' = [previous EXCEPT ![c.task] = tasks[c.task]]
  /\ credits' = c.state.budget.org_balance
  /\ Publish(tx[w])
  /\ Rollback(w)
  /\ worker' = [worker EXCEPT ![w] = Idle]
  /\ UNCHANGED <<purge, world, fuel>>

-----------------------------------------------------------------------------
(***************************************************************************)
(* attest_step_abandoned holds no lock, may lose the height in its turn,   *)
(* and is then tried again as often as a step is.  Its INSERT and its      *)
(* COMMIT are one action: nothing it holds between them can be waited for  *)
(* by what it waits for.                                                   *)
(***************************************************************************)
AttestAbandonment(w) ==
  LET c == worker[w] IN
  /\ At(w, "insert")
  /\ c.phase = "abandonment"
  /\ ~HeightTaken(w)
  /\ ~HeightHeld(w)
  /\ Publish(InsertIn(tx[w], Entry(w, Writing(w))))
  /\ Rollback(w)
  /\ worker' = [worker EXCEPT ![w] =
                  IF c.attempt + 1 < ChainRetries THEN Attempt(@, c.attempt + 1) ELSE Idle]
  /\ UNCHANGED <<tasks, previous, credits, purge, world, fuel>>

RetryAbandonment(w) ==
  LET c == worker[w] IN
  /\ At(w, "insert")
  /\ c.phase = "abandonment"
  /\ HeightTaken(w)
  /\ c.tries + 1 < ChainRetries
  /\ Rollback(w)
  /\ worker' = [worker EXCEPT ![w].pc = "put", ![w].tries = @ + 1]
  /\ UNCHANGED <<database, purge, world, fuel>>

GiveUpAbandonment(w) ==
  /\ At(w, "insert")
  /\ worker[w].phase = "abandonment"
  /\ HeightTaken(w)
  /\ worker[w].tries + 1 >= ChainRetries
  /\ Leave(w)
  /\ UNCHANGED <<purge, world, fuel>>

-----------------------------------------------------------------------------
(***************************************************************************)
(* purge_org_content.  DELETE sees the committed rows; the attestation of  *)
(* the purge is put with it, which nothing else can tell; its conflict on  *)
(* the height is not tried again.                                          *)
(***************************************************************************)
PurgeAttestation ==
  Attestation(Purger, "content_purged", NoCall,
              PurgeContent(Cardinality(tx[Purger].deleted)))

DeleteContent ==
  /\ purge = "idle"
  /\ fuel.purges > 0
  /\ fuel' = [fuel EXCEPT !.purges = @ - 1]
  /\ tx' = [tx EXCEPT ![Purger].deleted = content,
                      ![Purger].puts = {PurgeContent(Cardinality(content))}]
  /\ purge' = "tail"
  /\ UNCHANGED <<database, worker, world>>

PurgeFindTail ==
  /\ purge = "tail"
  /\ tx' = [tx EXCEPT ![Purger].tail = ReadTail(Purger)]
  /\ purge' = "insert"
  /\ UNCHANGED <<database, worker, world, fuel>>

AttestPurge ==
  /\ purge = "insert"
  /\ ~HeightTaken(Purger)
  /\ ~HeightHeld(Purger)
  /\ Publish(InsertIn(tx[Purger], Entry(Purger, PurgeAttestation)))
  /\ Rollback(Purger)
  /\ purge' = "idle"
  /\ UNCHANGED <<tasks, previous, credits, worker, world, fuel>>

\* Mutated: the same height is asked for again, as often as it takes.
LosePurgeNever ==
  /\ purge = "insert"
  /\ HeightTaken(Purger)
  /\ UNCHANGED vars

LosePurge ==
  /\ purge = "insert"
  /\ HeightTaken(Purger)
  /\ Rollback(Purger)
  /\ purge' = "idle"
  /\ UNCHANGED <<database, worker, world, fuel>>

-----------------------------------------------------------------------------
(***************************************************************************)
(* A step holds the height the purger wants, the purger holds the deletion *)
(* of a content the step wants to put: PostgreSQL fails one of the two     *)
(* with an error that is not a ChainConflict, so nothing is attested and   *)
(* nothing is tried again.                                                 *)
(***************************************************************************)
WaitForEachOther(w) ==
  /\ At(w, "put")
  /\ Writing(w).content \in tx[Purger].deleted
  /\ purge = "insert"
  /\ \E e \in tx[w].entries : e.height = NextHeight(Purger)

AbortStep(w) ==
  /\ WaitForEachOther(w)
  /\ Leave(w)
  /\ UNCHANGED <<purge, world, fuel>>

AbortPurge ==
  /\ \E w \in Workers : WaitForEachOther(w)
  /\ Rollback(Purger)
  /\ purge' = "idle"
  /\ UNCHANGED <<database, worker, world, fuel>>

-----------------------------------------------------------------------------
(***************************************************************************)
(* The process stops, the connection is lost, a statement fails, the       *)
(* caller gives up its request: the transaction is rolled back by          *)
(* PostgreSQL and nothing else is done.                                    *)
(***************************************************************************)
Crash(w) ==
  /\ fuel.crashes > 0
  /\ ~At(w, "idle")
  /\ Leave(w)
  /\ fuel' = [fuel EXCEPT !.crashes = @ - 1]
  /\ UNCHANGED <<purge, world>>

CrashPurge ==
  /\ fuel.crashes > 0
  /\ purge # "idle"
  /\ Rollback(Purger)
  /\ purge' = "idle"
  /\ fuel' = [fuel EXCEPT !.crashes = @ - 1]
  /\ UNCHANGED <<database, worker, world>>

(***************************************************************************)
(* The row of a task goes back to its previous envelope while the effects, *)
(* the chain and the credits stay: what tests/vertical_slice.rs does to    *)
(* play a step again.                                                      *)
(***************************************************************************)
RestoreTask(t) ==
  /\ fuel.restores > 0
  /\ previous[t] # NoTask
  /\ TaskRowFree(t)
  /\ tasks' = [tasks EXCEPT ![t] = previous[t]]
  /\ fuel' = [fuel EXCEPT !.restores = @ - 1]
  /\ UNCHANGED <<previous, credits, chain, content, effects, tx, worker, purge, world>>

-----------------------------------------------------------------------------
Step(w) ==
  \/ TaskNotFound(w) \/ LockTask(w) \/ LockCredits(w) \/ ResultPurged(w)
  \/ Enter(w) \/ Loop(w)
  \/ KeepTrace(w) \/ TracesKept(w)
  \/ PutContent(w) \/ FindTail(w) \/ InsertEvent(w) \/ SkipEvent(w) \/ LoseHeight(w)
  \/ Commit(w)
  \/ AttestAbandonment(w) \/ RetryAbandonment(w) \/ GiveUpAbandonment(w)

Purging == PurgeFindTail \/ AttestPurge \/ LosePurge

Deadlock == AbortPurge \/ \E w \in Workers : AbortStep(w)

Next ==
  \/ \E t \in Tasks : CreateTask(t) \/ RestoreTask(t)
  \/ \E w \in Workers, t \in Tasks, a \in Approvals, r \in CallRules : Invoke(w, t, a, r)
  \/ \E w \in Workers : Step(w) \/ Crash(w)
  \/ DeleteContent \/ Purging \/ CrashPurge
  \/ Deadlock

\* A call that has begun goes on, and PostgreSQL breaks deadlocks.  Nobody has
\* to call anything, and nothing has to fail.
Fairness ==
  /\ \A w \in Workers : WF_vars(Step(w))
  /\ WF_vars(Purging)
  /\ WF_vars(Deadlock)

Spec == Init /\ [][Next]_vars /\ Fairness

-----------------------------------------------------------------------------
(***************************************************************************)
(* Properties                                                              *)
(***************************************************************************)
Created == {t \in Tasks : tasks[t] # NoTask}

Labels == {"idle", "lock_task", "lock_credits", "entry", "loop", "effects",
           "put", "tail", "insert", "commit"}

\* Type invariant: rows, transactions and callers.
TypeOK ==
  /\ \A t \in Created : tasks[t] \in TaskStates
  /\ credits \in Amounts
  /\ \A e \in effects : e.call \in Calls /\ e.tool \in Requests
  /\ \A w \in Workers :
       /\ worker[w].pc \in Labels
       /\ worker[w].attempt \in 0 .. ChainRetries - 1
       /\ worker[w].tries \in 0 .. ChainRetries - 1
       /\ worker[w].pc \notin {"idle", "lock_task"} /\ worker[w].phase = "step" =>
            worker[w].state \in TaskStates
  /\ purge \in {"idle", "tail", "insert"}
  /\ \A c \in Calls : world[c] \in Nat

\* What each task consumed of the credits.
SpentBy == [t \in Tasks |-> IF t \in Created THEN tasks[t].budget.consumed ELSE 0]

\* Invariant 5 of the project, under concurrency: what the tasks consumed and
\* what is left of the credits is what there was.  Two steps that read the
\* same balance, or a balance taken from the serialised snapshot, break it.
MoneyConserved ==
  credits + MapThenSumSet(LAMBDA t : SpentBy[t], Created) = InitialBalance

\* No two entries at a height, none missing: the chain never forks and never
\* has a hole, whoever appends.
ChainIsLinear ==
  /\ {e.height : e \in chain} = 0 .. Cardinality(chain) - 1
  /\ \A w \in Workers : tx[w].entries # {} =>
       LET heights == {e.height : e \in tx[w].entries}
       IN  heights = Min(heights) .. Min(heights) + Cardinality(tx[w].entries) - 1

\* The entries of the chain, in its order.
InOrder == [h \in 1 .. Cardinality(chain) |-> CHOOSE e \in chain : e.height = h - 1]

\* What the chain tells of the steps of a task, and the same in its order.
Told(t) == {e \in chain : e.actor = t /\ e.action # "step_abandoned"}

Rank(e, entries) == Cardinality({f \in entries : f.height <= e.height})

Journal(t) ==
  [k \in 1 .. Cardinality(Told(t)) |-> CHOOSE e \in Told(t) : Rank(e, Told(t)) = k]

Contents(entries) == [k \in DOMAIN entries |-> entries[k].content]

\* No envelope went back in time.
NeverRestored == fuel.restores = MaxRestores

\* The chain tells of a task exactly what its envelope tells: every event
\* once, in its order, with its content and the identity of its call, however
\* many attempts were lost.
JournalTellsTheState ==
  NeverRestored => \A t \in Tasks :
    LET told   == Journal(t)
        events == IF t \in Created THEN tasks[t].audit ELSE <<>>
    IN  /\ Len(told) = Len(events)
        /\ \A k \in DOMAIN told :
             Attestation(told[k].actor, told[k].action, told[k].call, told[k].content)
               = EventAttestation(t, events[k])

\* verify_org_sequence: the records of the calls, in the order of the chain.
ChainRecords ==
  LET rows == Increasing({h \in DOMAIN InOrder : InOrder[h].call # NoCall})
  IN  [k \in DOMAIN rows |-> Record(KindOf[InOrder[rows[k]].action], InOrder[rows[k]].call)]

\* verify_org_sequence accepts the chain at any time, and what it reports open
\* is the call of a suspended task or of a task stopped before its execution.
VerifierAcceptsTheChain ==
  NeverRestored =>
    /\ Violations(ChainRecords) = {}
    /\ \A c \in OpenCalls(ChainRecords) :
         LET t == tasks[c[1]]
         IN  /\ c[2] = t.iteration
             /\ t.status \in {"waiting_approval", "failed", "aborted_cost_ceiling"}

\* An executed call has its effect in memory and happened at least once; no
\* effect is in memory for a call the envelope does not know as executed.
EffectsAreRemembered ==
  /\ \A e \in effects : world[e.call] > 0
  /\ NeverRestored => \A t \in Created :
       {e.call[2] : e \in Recorded(t)} = 0 .. tasks[t].iteration - 1

\* A call whose effect is in memory is never performed again, even when the
\* envelope went back in time.
RecordedEffectNeverReplayed ==
  [][\A e \in effects : world'[e.call] = world[e.call]]_vars

\* Before an attempt is made again, the abandonment of each attempt lost
\* before it is in the chain.
LostAttemptsAreAttested ==
  \A w \in Workers : worker[w].pc # "idle" =>
    \A n \in 0 .. worker[w].attempt - 1 :
      \E e \in chain : /\ e.actor = worker[w].task
                       /\ e.action = "step_abandoned"
                       /\ e.content = AbandonContent(n)

\* As long as nothing was purged, the original of every attestation and the
\* result of every recorded effect are there.
NothingIsMissingBeforeAPurge ==
  (\A e \in chain : e.action # "content_purged") =>
    {e.content : e \in chain} \cup {ResultContent(e.tool) : e \in effects} \subseteq content

\* The persisted steps implement the ledger of the organisation, where a step
\* is atomic: the money, the journal and the state of one task move together,
\* and a closed task never moves.
Ledger ==
  INSTANCE OrgLedger WITH
    Capital <- InitialBalance,
    balance <- credits,
    spent   <- SpentBy,
    journal <- [t \in Tasks |-> Contents(Journal(t))],
    closed  <- {t \in Created : tasks[t].status \in Terminal}

LedgerSpec == Ledger!Spec

\* run_task_step always returns and a purge always ends, done or refused: no
\* deadlock but the one PostgreSQL breaks, no endless retry.
EverythingReturns ==
  /\ \A w \in Workers : ~At(w, "idle") ~> At(w, "idle")
  /\ purge # "idle" ~> purge = "idle"

-----------------------------------------------------------------------------
(***************************************************************************)
(* What the documentation says and the code does not do                    *)
(***************************************************************************)
\* README.md: a step played again after a failure does not send a second mail.
EffectsHappenOnce == \A c \in Calls : world[c] <= 1

\* append_attestation: the content first, for an attestation whose content is
\* missing would be a digest without original.  The contents attested after
\* the last purge are there.
LastPurge == Max({EmptyTail} \cup {e.height : e \in {f \in chain : f.action = "content_purged"}})

NoDigestWithoutOriginal ==
  \A e \in chain : e.height >= LastPurge => e.content \in content

\* docs/matrice-invariants.md: a double closure cannot be expressed.
NoDoubleClosure == \A v \in Violations(ChainRecords) : v.kind # "duplicate_closure"

=============================================================================
