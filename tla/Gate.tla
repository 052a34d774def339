-------------------------------- MODULE Gate --------------------------------
(***************************************************************************)
(* kollega-api/src/auth.rs: passwords are hashed and checked by argon2id   *)
(* behind a counting semaphore, a Mutex around the number of permits and a *)
(* Condvar for those who find none.                                        *)
(*                                                                         *)
(* One action is one holding of the mutex, from lock() to its release by   *)
(* the end of the scope or by wait().  A waiting thread may be woken by    *)
(* notify_one or for no reason (std allows it); it then takes the mutex    *)
(* again like anybody, and finds the counter as it has become.  A password *)
(* is a value, a stored hash a record that tells which one it hashes.      *)
(***************************************************************************)
EXTENDS Integers, FiniteSets, FiniteSetsExt

CONSTANTS
  Threads,      \* threads of the server that handle a password
  Permits,      \* MAX_CONCURRENT_ARGON2
  MaxCalls,     \* bound: passwords each thread handles
  MaxSpurious   \* bound: wakeups for no reason

ASSUME GateAssumption ==
  /\ IsFiniteSet(Threads)
  /\ Permits \in Nat \ {0}
  /\ {MaxCalls, MaxSpurious} \subseteq Nat

-----------------------------------------------------------------------------
(***************************************************************************)
(* Profiles: memory in KiB, iterations, parallelism                        *)
(***************************************************************************)
CurrentProfile == <<19456, 2, 1>>

Floor == <<8192, 1, 1>>
Ceiling == <<65536, 64, 16>>

\* A PHC string.
Stored(algorithm, profile, secret) ==
  [algorithm |-> algorithm, version |-> 19, profile |-> profile, secret |-> secret]

\* A string without a hash, or that cannot be parsed.
Unreadable == [algorithm |-> "none", version |-> 0, profile |-> CurrentProfile, secret |-> "none"]

\* What check_password demands before the gate.
Acceptable(stored) ==
  /\ stored.algorithm = "argon2id" /\ stored.version = 19
  /\ \A k \in 1 .. 3 : stored.profile[k] \in Floor[k] .. Ceiling[k]

\* A call: hash_password has nothing stored to compare with.
Hashing(password) == [password |-> password, against |-> Stored("argon2id", CurrentProfile, password)]
Checking(password, stored) == [password |-> password, against |-> stored]

\* Mutated: another profile than the current one is taken for another password.
CheckOfCurrentOnly(call) ==
  IF call.against = Hashing(call.password).against THEN "valid" ELSE "invalid"

\* What verify_password answers, and the profile that decides on a new hash.
Check(call) ==
  CASE call.against.secret # call.password -> "invalid"
    [] call.against.secret = call.password /\ call.against.profile = CurrentProfile -> "valid"
    [] OTHER -> "valid_needs_rehash"

\* The calls that are told apart: the current profile, a weaker one with a wrong
\* password, the dearest one that is taken; a foreign algorithm, broken and
\* absurd parameters, a corrupt string.
NoCall == Hashing("none")

Calls ==
  {Hashing("right")}
    \cup {Checking("wrong", Stored("argon2id", <<12288, 1, 1>>, "right")),
          Checking("right", Stored("argon2id", Ceiling, "right"))}
    \cup {Checking("right", s) :
             s \in {Stored("argon2i", CurrentProfile, "right"), Stored("argon2id", <<4096, 1, 1>>, "right"),
                    Stored("argon2id", <<4194304, 1, 1>>, "right"), Unreadable}}

-----------------------------------------------------------------------------
VARIABLES
  available,    \* the counter in the mutex
  pc,           \* "idle", "asking", "waiting", "woken" or "working"
  call,         \* the call each thread is in
  answer,       \* the last call that returned, and what it answered
  calls,        \* passwords each thread may still handle
  spurious      \* wakeups for no reason still allowed

vars == <<available, pc, call, answer, calls, spurious>>

In(label) == {t \in Threads : pc[t] = label}

Move(t, label) == pc' = [pc EXCEPT ![t] = label]

Init ==
  /\ available = Permits
  /\ pc = [t \in Threads |-> "idle"]
  /\ call = [t \in Threads |-> NoCall]
  /\ answer = [call |-> NoCall, result |-> "none"]
  /\ calls = [t \in Threads |-> MaxCalls]
  /\ spurious = MaxSpurious

Enter(t) ==
  /\ pc[t] = "idle"
  /\ calls[t] > 0
  /\ calls' = [calls EXCEPT ![t] = @ - 1]
  /\ UNCHANGED <<available, spurious>>

\* hash_password, or check_password once what is stored is accepted.
Ask(t) ==
  /\ Enter(t)
  /\ Move(t, "asking")
  /\ \E c \in Calls : Acceptable(c.against) /\ call' = [call EXCEPT ![t] = c]
  /\ UNCHANGED answer

\* check_password on anything else: InvalidStoredHash, without a permit.
Refuse(t) ==
  /\ Enter(t)
  /\ \E c \in Calls : ~Acceptable(c.against) /\ answer' = [call |-> c, result |-> "error"]
  /\ UNCHANGED <<pc, call>>

-----------------------------------------------------------------------------
\* acquire: the `while` around wait(), for who arrives and for who wakes up.
Wait(t) ==
  /\ pc[t] \in {"asking", "woken"}
  /\ available = 0
  /\ Move(t, "waiting")
  /\ UNCHANGED <<available, call, answer, calls, spurious>>

\* Mutated: `if` instead of `while`: who wakes up does not look again.
TakeTrusting(t) ==
  /\ pc[t] = "woken" \/ (pc[t] = "asking" /\ available > 0)
  /\ available' = available - 1
  /\ Move(t, "working")
  /\ UNCHANGED <<call, answer, calls, spurious>>

Take(t) ==
  /\ pc[t] \in {"asking", "woken"}
  /\ available > 0
  /\ available' = available - 1
  /\ Move(t, "working")
  /\ UNCHANGED <<call, answer, calls, spurious>>

\* The work ends: with its answer, or with an error of the engine or a panic.
Finish(t) ==
  /\ \E result \in {Check(call[t]), "error"} : answer' = [call |-> call[t], result |-> result]
  /\ call' = [call EXCEPT ![t] = NoCall]

\* Mutated: Drop does not notify.
DropSilently(t) ==
  /\ pc[t] = "working"
  /\ Finish(t)
  /\ available' = available + 1
  /\ Move(t, "idle")
  /\ UNCHANGED <<calls, spurious>>

\* Drop for GatePermit, at the end of the scope or of a panic: one waiting
\* thread is notified, if there is one.
Drop(t) ==
  /\ pc[t] = "working"
  /\ Finish(t)
  /\ available' = available + 1
  /\ \/ In("waiting") = {} /\ Move(t, "idle")
     \/ \E u \in In("waiting") : pc' = [pc EXCEPT ![t] = "idle", ![u] = "woken"]
  /\ UNCHANGED <<calls, spurious>>

WakeForNothing(t) ==
  /\ pc[t] = "waiting"
  /\ spurious > 0
  /\ spurious' = spurious - 1
  /\ Move(t, "woken")
  /\ UNCHANGED <<available, call, answer, calls>>

Next ==
  \E t \in Threads :
    Ask(t) \/ Refuse(t) \/ Wait(t) \/ Take(t) \/ Drop(t) \/ WakeForNothing(t)

\* A thread that runs goes on: it takes the mutex in the end, and its work
\* ends.  Nobody has to ask, and no wakeup comes without a reason.
Spec ==
  /\ Init
  /\ [][Next]_vars
  /\ \A t \in Threads : WF_vars(Wait(t) \/ Take(t)) /\ WF_vars(Drop(t))

-----------------------------------------------------------------------------
\* What argon2 allocates for the call of each thread.
Allocated == [t \in Threads |-> call[t].against.profile[1]]

\* The memory bound of ADR-0006: what argon2 works on at any time fits in
\* MAX_CONCURRENT_ARGON2 profiles of the ceiling, whatever is stored, whoever
\* wakes up and whoever overtakes; no permit is lost or made.
MemoryIsBounded ==
  /\ MapThenSumSet(LAMBDA t : Allocated[t], In("working")) <= Permits * Ceiling[1]
  /\ Cardinality(In("working")) + available = Permits

\* ADR-0006, "personne n'est verrouillé": under load, failures and retries, a
\* call that answers about a password tells the right one from a wrong one
\* whatever the profile it was hashed with, asks for a new hash only from who
\* proved the password and would get another profile; a string the server
\* never made is an error, never a wrong password.
AnswersAreSound ==
  LET asked == answer.call
      right == asked.against.secret = asked.password
  IN  /\ answer.result \in {"valid", "valid_needs_rehash"} => right
      /\ answer.result = "invalid" => ~right /\ Acceptable(asked.against)
      /\ answer.result = "valid_needs_rehash" => Hashing(asked.password).against # asked.against
      /\ asked.against = Unreadable => answer.result = "error"

\* A free permit is always on its way to somebody: as long as a thread waits,
\* no more permits are free than threads were woken to look at the counter,
\* even though newcomers may overtake them.
NoLostWakeup ==
  In("waiting") # {} => available <= Cardinality(In("woken"))

\* "Les appels attendent, ils n'échouent pas": in a burst of logins of any
\* order, every thread gets its turn.
EveryCallIsServed ==
  \A t \in Threads : pc[t] = "asking" ~> pc[t] = "working"

=============================================================================
