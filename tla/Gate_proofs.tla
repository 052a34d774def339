----------------------------- MODULE Gate_proofs -----------------------------
(***************************************************************************)
(* Theorems about Gate, for every number of threads and of permits.        *)
(***************************************************************************)
EXTENDS Gate, Foundations

\* The calls that reach the gate.
GateCalls == {c \in Calls \cup {NoCall} : Acceptable(c.against)}

TypeOK ==
  /\ available \in Nat
  /\ pc \in [Threads -> {"idle", "asking", "waiting", "woken", "working"}]
  /\ call \in [Threads -> GateCalls]
  /\ calls \in [Threads -> Nat]
  /\ spurious \in Nat

\* No permit is lost or made.
PermitsAreKept == Cardinality(In("working")) + available = Permits

\* The inductive invariant.
IInv == TypeOK /\ PermitsAreKept /\ NoLostWakeup /\ AnswersAreSound

-----------------------------------------------------------------------------
\* The dummy call of a thread that has none is one that the gate would take.
LEMMA NoCallType == NoCall \in GateCalls
BY DEF GateCalls, NoCall, Hashing, Stored, Acceptable, CurrentProfile, Floor, Ceiling

\* Threads under a label are finitely many.
LEMMA LabelsAreFinite ==
  ASSUME NEW label
  PROVE  /\ IsFiniteSet(In(label)) /\ Cardinality(In(label)) \in Nat
         /\ Cardinality(In(label))' \in Nat
BY GateAssumption, FS_Subset, FS_CardinalityType DEF In

\* A thread that takes a label, and one that leaves it.
LEMMA OneMore ==
  ASSUME NEW S, NEW t \in Threads, S \subseteq Threads
  PROVE  /\ t \notin S => Cardinality(S \cup {t}) = Cardinality(S) + 1
         /\ t \in S => Cardinality(S \ {t}) = Cardinality(S) - 1
BY GateAssumption, FS_Subset, FS_AddElement, FS_RemoveElement

\* The threads under each label once one of them has moved.
LEMMA MoveLabels ==
  ASSUME TypeOK, NEW t \in Threads, NEW label, NEW from, pc[t] = from, from # label,
         Move(t, label)
  PROVE  /\ In(label)' = In(label) \cup {t} /\ t \notin In(label)
         /\ In(from)' = In(from) \ {t} /\ t \in In(from)
         /\ \A other : other \notin {from, label} => In(other)' = In(other)
BY DEF TypeOK, Move, In

\* A call that arrives.
LEMMA AskInv == ASSUME IInv, NEW t \in Threads, Ask(t) PROVE IInv'
<1> USE DEF IInv
<1>1. /\ pc[t] = "idle" /\ Move(t, "asking") /\ UNCHANGED <<available, spurious, answer>>
      /\ \E c \in Calls : Acceptable(c.against) /\ call' = [call EXCEPT ![t] = c]
      /\ calls[t] > 0 /\ calls' = [calls EXCEPT ![t] = @ - 1]
  BY DEF Ask, Enter
<1>2. TypeOK'
  BY <1>1 DEF TypeOK, Move, GateCalls
<1>3. In("working")' = In("working") /\ In("waiting")' = In("waiting") /\ In("woken")' = In("woken")
  BY <1>1, MoveLabels
<1>4. PermitsAreKept' /\ NoLostWakeup'
  BY <1>1, <1>3 DEF PermitsAreKept, NoLostWakeup
<1> QED
  BY <1>1, <1>2, <1>4 DEF AnswersAreSound

\* A stored hash that is refused.
LEMMA RefuseInv == ASSUME IInv, NEW t \in Threads, Refuse(t) PROVE IInv'
<1> USE DEF IInv
<1>1. /\ UNCHANGED <<available, spurious, pc, call>>
      /\ calls[t] > 0 /\ calls' = [calls EXCEPT ![t] = @ - 1]
      /\ answer'.result = "error"
  BY DEF Refuse, Enter
<1>2. TypeOK' /\ PermitsAreKept' /\ NoLostWakeup'
  BY <1>1 DEF TypeOK, PermitsAreKept, NoLostWakeup, In
<1> QED
  BY <1>1, <1>2 DEF AnswersAreSound

\* A thread that finds no permit.
LEMMA WaitInv == ASSUME IInv, NEW t \in Threads, Wait(t) PROVE IInv'
<1> USE DEF IInv
<1>1. /\ pc[t] \in {"asking", "woken"} /\ available = 0 /\ Move(t, "waiting")
      /\ UNCHANGED <<available, call, answer, calls, spurious>>
  BY DEF Wait
<1>2. TypeOK'
  BY <1>1 DEF TypeOK, Move
<1>3. In("working")' = In("working")
  BY <1>1, MoveLabels
<1>4. Cardinality(In("woken"))' >= 0
  BY LabelsAreFinite
<1> QED
  BY <1>1, <1>2, <1>3, <1>4 DEF PermitsAreKept, NoLostWakeup, AnswersAreSound

\* A thread that takes a permit, whether it was woken for it or overtakes.
LEMMA TakeInv == ASSUME IInv, NEW t \in Threads, Take(t) PROVE IInv'
<1> USE DEF IInv
<1>1. /\ pc[t] \in {"asking", "woken"} /\ available > 0 /\ Move(t, "working")
      /\ available' = available - 1
      /\ UNCHANGED <<call, answer, calls, spurious>>
  BY DEF Take
<1>2. TypeOK'
  BY <1>1 DEF TypeOK, Move
<1>3. /\ In("working")' = In("working") \cup {t} /\ t \notin In("working")
      /\ In("waiting")' = In("waiting")
      /\ IF pc[t] = "woken" THEN In("woken")' = In("woken") \ {t} /\ t \in In("woken")
                            ELSE In("woken")' = In("woken")
  BY <1>1, MoveLabels
<1>4. In("working") \subseteq Threads /\ In("woken") \subseteq Threads
  BY DEF In
<1>5. Cardinality(In("working"))' = Cardinality(In("working")) + 1
  BY <1>3, <1>4, OneMore
<1>6. Cardinality(In("woken"))' >= Cardinality(In("woken")) - 1
  BY <1>3, <1>4, OneMore, LabelsAreFinite
<1>7. /\ Cardinality(In("working")) \in Nat /\ Cardinality(In("woken")) \in Nat
      /\ Cardinality(In("woken"))' \in Nat /\ available \in Nat
  BY LabelsAreFinite DEF TypeOK
<1>8. PermitsAreKept'
  BY <1>1, <1>5, <1>7, GateAssumption DEF PermitsAreKept
<1>9. NoLostWakeup'
  BY <1>1, <1>3, <1>6, <1>7 DEF NoLostWakeup
<1> QED
  BY <1>1, <1>2, <1>8, <1>9 DEF AnswersAreSound
\* What a work answers is sound, for any call that reached the gate.
LEMMA FinishSound ==
  ASSUME IInv, NEW t \in Threads, Finish(t)
  PROVE  AnswersAreSound' /\ call' \in [Threads -> GateCalls]
<1>1. call[t] \in GateCalls
  BY DEF IInv, TypeOK
<1>2. PICK result \in {Check(call[t]), "error"} : answer' = [call |-> call[t], result |-> result]
  BY DEF Finish
<1>3. Acceptable(call[t].against)
  BY <1>1 DEF GateCalls
<1>4. call[t].against # Unreadable
  BY <1>3 DEF Acceptable, Unreadable
<1>5. Hashing(call[t].password).against.profile = CurrentProfile
  BY DEF Hashing, Stored
<1>6. AnswersAreSound'
  BY <1>2, <1>3, <1>4, <1>5 DEF AnswersAreSound, Check
<1>7. call' \in [Threads -> GateCalls]
  BY NoCallType DEF Finish, IInv, TypeOK
<1> QED
  BY <1>6, <1>7

\* A permit that is given back, and who is told.
LEMMA DropInv == ASSUME IInv, NEW t \in Threads, Drop(t) PROVE IInv'
<1> USE DEF IInv
<1>1. /\ pc[t] = "working" /\ Finish(t) /\ available' = available + 1
      /\ UNCHANGED <<calls, spurious>>
  BY DEF Drop
<1>2. AnswersAreSound' /\ call' \in [Threads -> GateCalls]
  BY <1>1, FinishSound
<1>3. /\ Cardinality(In("working")) \in Nat /\ Cardinality(In("woken")) \in Nat
      /\ available \in Nat
      /\ In("working") \subseteq Threads /\ In("woken") \subseteq Threads
  BY LabelsAreFinite DEF TypeOK, In
<1>4. CASE In("waiting") = {} /\ Move(t, "idle")
  <2>1. TypeOK'
    BY <1>1, <1>2, <1>4 DEF TypeOK, Move
  <2>2. /\ In("working")' = In("working") \ {t} /\ t \in In("working")
        /\ In("waiting")' = In("waiting")
    BY <1>1, <1>4, MoveLabels
  <2>3. Cardinality(In("working"))' = Cardinality(In("working")) - 1
    BY <1>3, <2>2, OneMore
  <2>4. PermitsAreKept'
    BY <1>1, <1>3, <2>3, GateAssumption DEF PermitsAreKept
  <2>5. NoLostWakeup'
    BY <1>4, <2>2 DEF NoLostWakeup
  <2> QED
    BY <1>2, <2>1, <2>4, <2>5
<1>5. ASSUME NEW u \in In("waiting"), pc' = [pc EXCEPT ![t] = "idle", ![u] = "woken"]
      PROVE  IInv'
  <2>1. u \in Threads /\ pc[u] = "waiting" /\ u # t
    BY <1>1, <1>5 DEF In
  <2>2. TypeOK'
    BY <1>1, <1>2, <1>5, <2>1 DEF TypeOK
  <2>3. /\ In("working")' = In("working") \ {t} /\ t \in In("working")
        /\ In("woken")' = In("woken") \cup {u} /\ u \notin In("woken")
    BY <1>1, <1>5, <2>1 DEF In, TypeOK
  <2>4. /\ Cardinality(In("working"))' = Cardinality(In("working")) - 1
        /\ Cardinality(In("woken"))' = Cardinality(In("woken")) + 1
    BY <1>3, <2>1, <2>3, OneMore
  <2>5. PermitsAreKept'
    BY <1>1, <1>3, <2>4, GateAssumption DEF PermitsAreKept
  <2>6. NoLostWakeup'
    BY <1>1, <1>3, <1>5, <2>4 DEF NoLostWakeup
  <2> QED
    BY <1>2, <2>2, <2>5, <2>6
<1> QED
  BY <1>4, <1>5 DEF Drop

\* A wakeup for no reason.
LEMMA WakeForNothingInv == ASSUME IInv, NEW t \in Threads, WakeForNothing(t) PROVE IInv'
<1> USE DEF IInv
<1>1. /\ pc[t] = "waiting" /\ Move(t, "woken") /\ spurious > 0 /\ spurious' = spurious - 1
      /\ UNCHANGED <<available, call, answer, calls>>
  BY DEF WakeForNothing
<1>2. TypeOK'
  BY <1>1 DEF TypeOK, Move
<1>3. /\ In("working")' = In("working")
      /\ In("woken")' = In("woken") \cup {t} /\ t \notin In("woken")
      /\ t \in In("waiting")
  BY <1>1, MoveLabels
<1>4. In("woken") \subseteq Threads
  BY DEF In
<1>5. Cardinality(In("woken"))' = Cardinality(In("woken")) + 1
  BY <1>3, <1>4, OneMore
<1>6. Cardinality(In("woken")) \in Nat /\ available \in Nat
  BY LabelsAreFinite DEF TypeOK
<1>7. NoLostWakeup'
  BY <1>1, <1>3, <1>5, <1>6 DEF NoLostWakeup
<1> QED
  BY <1>1, <1>2, <1>3, <1>7 DEF PermitsAreKept, AnswersAreSound

-----------------------------------------------------------------------------
\* The initial state satisfies the inductive invariant.
LEMMA InitInv == Init => IInv
<1> SUFFICES ASSUME Init PROVE IInv
  OBVIOUS
<1>1. In("working") = {} /\ In("waiting") = {}
  BY DEF Init, In
<1>2. Cardinality({}) = 0
  BY FS_EmptySet
<1>3. TypeOK
  BY NoCallType, GateAssumption DEF Init, TypeOK
<1>4. PermitsAreKept /\ NoLostWakeup
  BY <1>1, <1>2, GateAssumption DEF Init, PermitsAreKept, NoLostWakeup
<1>5. NoCall.against # Unreadable
  BY DEF NoCall, Hashing, Stored, Unreadable
<1>6. AnswersAreSound
  BY <1>5 DEF Init, AnswersAreSound
<1> QED
  BY <1>3, <1>4, <1>6 DEF IInv

\* Every step keeps the inductive invariant.
LEMMA NextInv == IInv /\ [Next]_vars => IInv'
<1> SUFFICES ASSUME IInv, [Next]_vars PROVE IInv'
  OBVIOUS
<1>1. CASE UNCHANGED vars
  BY <1>1 DEF vars, IInv, TypeOK, PermitsAreKept, NoLostWakeup, AnswersAreSound, In
<1>2. CASE Next
  BY <1>2, AskInv, RefuseInv, WaitInv, TakeInv, DropInv, WakeForNothingInv DEF Next
<1> QED
  BY <1>1, <1>2

\* Gate: every reachable state has its type, keeps its permits and loses no
\* wakeup.
THEOREM GateInvariant == Spec => []IInv
<1> QED
  BY InitInv, NextInv, PTL DEF Spec

\* acquire and Drop for GatePermit (auth.rs): as long as a thread waits, no more
\* permits are free than threads were woken for them, for any number of threads
\* and permits, whoever overtakes and whatever wakes up for no reason.
THEOREM WakeupsAreNotLost == Spec => []NoLostWakeup
<1>1. IInv => NoLostWakeup
  BY DEF IInv
<1> QED
  BY <1>1, GateInvariant, PTL

\* check_password (auth.rs): what is answered about a password is right whatever
\* is stored, asked and failed before.
THEOREM AnswersSound == Spec => []AnswersAreSound
<1>1. IInv => AnswersAreSound
  BY DEF IInv
<1> QED
  BY <1>1, GateInvariant, PTL

\* GATE (auth.rs, ADR-0006): the permits are kept, and what argon2 allocates at
\* any time fits in MAX_CONCURRENT_ARGON2 profiles of the ceiling.
THEOREM MemoryBounded == Spec => []MemoryIsBounded
<1>1. ASSUME IInv
      PROVE  MemoryIsBounded
  <2> USE <1>1 DEF IInv
  <2>1. /\ IsFiniteSet(In("working")) /\ Cardinality(In("working")) \in Nat
        /\ In("working") \subseteq Threads
    BY LabelsAreFinite DEF In
  <2>2. Ceiling[1] = 65536 /\ Floor[1] = 8192
    BY DEF Ceiling, Floor
  <2>3. \A t \in In("working") : Allocated[t] \in Int /\ Allocated[t] <= Ceiling[1]
    <3>1. SUFFICES ASSUME NEW t \in Threads
                   PROVE  Allocated[t] \in Int /\ Allocated[t] <= Ceiling[1]
      BY <2>1
    <3>2. Acceptable(call[t].against)
      BY DEF TypeOK, GateCalls
    <3>3. call[t].against.profile[1] \in Floor[1] .. Ceiling[1]
      BY <3>2 DEF Acceptable
    <3>4. \A lo, hi \in Int : \A k \in lo .. hi : k \in Int /\ k <= hi
      OBVIOUS
    <3>5. Floor[1] \in Int /\ Ceiling[1] \in Int
      BY <2>2
    <3>6. Allocated[t] = call[t].against.profile[1]
      BY DEF Allocated
    <3> QED
      BY <3>3, <3>4, <3>5, <3>6
  <2>4. SumOf(Allocated, In("working")) <= Ceiling[1] * Cardinality(In("working"))
    BY <2>1, <2>2, <2>3, SumIsBounded
  <2>5. SumOf(Allocated, In("working")) \in Int
    BY <2>1, <2>3, SumType
  <2>6. Cardinality(In("working")) + available = Permits /\ available \in Nat
    BY DEF PermitsAreKept, TypeOK
  <2>7. 65536 * Cardinality(In("working")) <= Permits * 65536
    BY <2>1, <2>6, GateAssumption
  <2>8. MapThenSumSet(LAMBDA t : Allocated[t], In("working")) = SumOf(Allocated, In("working"))
    BY DEF MapThenSumSet, MapThenFoldSet, SumOf, Table, IsTable, SumUpTo, Chosen
  <2> QED
    BY <2>1, <2>2, <2>4, <2>5, <2>6, <2>7, <2>8, GateAssumption DEF MemoryIsBounded
<1> QED
  BY <1>1, GateInvariant, PTL
=============================================================================
