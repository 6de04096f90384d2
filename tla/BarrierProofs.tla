---------------------------- MODULE BarrierProofs ----------------------------
(***************************************************************************)
(* The barrier of m5threads keeps any number of threads together, and is a *)
(* Rendezvous, however often it is used again.                             *)
(***************************************************************************)
EXTENDS Barrier, FiniteSetTheorems, TLAPS

(***************************************************************************)
(* The inductive invariant                                                 *)
(***************************************************************************)

\* a thread between spin_lock and spin_unlock
Inside(t) == pc[t] \in {"count679", "store679", "test680", "unlock684"}

\* a thread that has called pthread_barrier_wait and is not counted yet
Arriving(t) == pc[t] \in {"lock678", "count679", "store679"}

\* a thread that is counted in the current round of the barrier
Counted(t) ==
  /\ pc[t] \in {"test680", "unlock684", "spin696"}
  /\ initial_direction[t] = direction

\* how many rounds of the barrier are over for a thread: the one it waits in
\* is, as soon as the direction is reversed
Over(t) ==
  IF pc[t] \in {"unlock684", "spin696"} /\ initial_direction[t] # direction
  THEN round[t] + 1 ELSE round[t]

CountedSet == {t \in Threads : Counted(t)}

\* counter++ and counter-- are done one at a time
SpinlockInv ==
  /\ \A t \in Threads : Inside(t) => spinlock
  /\ \A t, u \in Threads : Inside(t) /\ Inside(u) => t = u
  /\ \A t \in Threads : pc[t] = "store679" => loaded[t] = counter

\* A thread that has not reversed the direction, or may still do so, has read
\* the current one, and the same rounds are over for everybody.
RoundInv ==
  /\ \A t \in Threads : Arriving(t) \/ pc[t] = "test680" => initial_direction[t] = direction
  /\ \A t, u \in Threads : Over(t) = Over(u)

\* The counter counts the threads of the current round, and they are not all
\* counted unless the last of them is about to reverse the direction.
CounterInv ==
  /\ counter = IF direction = 0 THEN Cardinality(CountedSet)
                                ELSE num_threads - Cardinality(CountedSet)
  /\ CountedSet = Threads => \E t \in Threads : pc[t] = "test680"

\* a thread in a wait has not done all of its waits
BoundInv == \A t \in Threads : pc[t] # "out" => round[t] < Rounds

Inv == TypeOK /\ SpinlockInv /\ RoundInv /\ CounterInv /\ BoundInv

(***************************************************************************)
(* Lemmas                                                                  *)
(***************************************************************************)

\* the threads that are counted are finitely many, at most all of them
LEMMA CountedFacts ==
  /\ num_threads \in Nat \ {0}
  /\ IsFiniteSet(CountedSet)
  /\ Cardinality(CountedSet) \in 0..num_threads
  /\ Cardinality(CountedSet) = num_threads <=> CountedSet = Threads
<1>1. IsFiniteSet(Threads) /\ Threads # {}
  BY BarrierAssumption
<1>2. num_threads \in Nat \ {0}
  BY <1>1, FS_CardinalityType, FS_EmptySet DEF num_threads
<1>3. CountedSet \in SUBSET Threads
  BY DEF CountedSet
<1>4. /\ IsFiniteSet(CountedSet)
      /\ Cardinality(CountedSet) <= num_threads
      /\ num_threads = Cardinality(CountedSet) => Threads = CountedSet
  BY <1>1, <1>3, FS_Subset DEF num_threads
<1>5. Cardinality(CountedSet) \in Nat
  BY <1>4, FS_CardinalityType
<1> QED BY <1>2, <1>4, <1>5 DEF num_threads

\* a step that counts nobody, loads nothing and leaves barrier and rounds
\* alone keeps the invariants about them
LEMMA CounterKept ==
  ASSUME CounterInv, CountedSet' = CountedSet,
         counter' = counter, direction' = direction,
         \A t \in Threads : pc[t] = "test680" => pc'[t] = "test680"
  PROVE  CounterInv'
BY DEF CounterInv

\* the initial states satisfy the invariant
LEMMA InitInv == Init => Inv
<1> SUFFICES ASSUME Init PROVE Inv
  OBVIOUS
<1>1. num_threads \in Nat \ {0}
  BY CountedFacts
<1>2. TypeOK
  <2>1. Rounds \in Nat
    BY BarrierAssumption
  <2>2. counter \in 0..num_threads /\ direction \in {0, 1}
    BY <1>1 DEF Init
  <2>3. spinlock \in BOOLEAN
    BY Zenon DEF Init
  <2>4. /\ pc \in [Threads -> {"out", "lock678", "count679", "store679", "test680",
                              "unlock684", "spin696"}]
        /\ initial_direction \in [Threads -> {0, 1}]
    BY DEF Init
  <2>5. loaded \in [Threads -> 0..num_threads] /\ round \in [Threads -> 0..Rounds]
    BY <1>1, <2>1 DEF Init
  <2> QED BY <2>2, <2>3, <2>4, <2>5 DEF TypeOK
<1>3. CountedSet = {}
  BY DEF Init, CountedSet, Counted
<1>4. CounterInv
  BY <1>3, FS_EmptySet, BarrierAssumption DEF Init, CounterInv
<1>5. SpinlockInv /\ RoundInv /\ BoundInv
  BY DEF Init, SpinlockInv, RoundInv, BoundInv, Inside, Arriving, Over
<1> QED BY <1>2, <1>4, <1>5 DEF Inv

\* the direction is read before the spinlock is taken
LEMMA WaitInv ==
  ASSUME Inv, NEW t \in Threads, Wait(t)
  PROVE  Inv'
<1> USE DEF Wait, Goto, Inv, TypeOK
<1>1. TypeOK'
  OBVIOUS
<1>2. SpinlockInv'
  BY DEF SpinlockInv, Inside
<1>3. RoundInv'
  BY DEF RoundInv, Arriving, Over
<1>4. CountedSet' = CountedSet
  BY DEF CountedSet, Counted
<1>5. CounterInv'
  BY <1>4, CounterKept
<1>6. BoundInv'
  BY DEF BoundInv
<1> QED BY <1>1, <1>2, <1>3, <1>5, <1>6

\* one thread gets the spinlock
LEMMA LockInv ==
  ASSUME Inv, NEW t \in Threads, Lock(t)
  PROVE  Inv'
<1> USE DEF Lock, Goto, Inv, TypeOK
<1>1. TypeOK'
  OBVIOUS
<1>2. SpinlockInv'
  BY DEF SpinlockInv, Inside
<1>3. RoundInv'
  BY DEF RoundInv, Arriving, Over
<1>4. CountedSet' = CountedSet
  BY DEF CountedSet, Counted
<1>5. CounterInv'
  BY <1>4, CounterKept
<1>6. BoundInv'
  BY DEF BoundInv
<1> QED BY <1>1, <1>2, <1>3, <1>5, <1>6

\* the counter is read under the spinlock
LEMMA LoadInv ==
  ASSUME Inv, NEW t \in Threads, Load(t)
  PROVE  Inv'
<1> USE DEF Load, Goto, Inv, TypeOK
<1>1. TypeOK'
  OBVIOUS
<1>2. SpinlockInv'
  BY DEF SpinlockInv, Inside
<1>3. RoundInv'
  BY DEF RoundInv, Arriving, Over
<1>4. CountedSet' = CountedSet
  BY DEF CountedSet, Counted
<1>5. CounterInv'
  BY <1>4, CounterKept
<1>6. BoundInv'
  BY DEF BoundInv
<1> QED BY <1>1, <1>2, <1>3, <1>5, <1>6

\* The store counts one more thread: the counter has not changed since it was
\* loaded, and the current round was not complete.
LEMMA StoreInv ==
  ASSUME Inv, NEW t \in Threads, Store(t)
  PROVE  Inv'
<1> USE DEF Store, Goto
<1> USE DEF Inv
<1>1. pc[t] = "store679" /\ initial_direction[t] = direction /\ loaded[t] = counter
  BY DEF RoundInv, Arriving, SpinlockInv
<1>2. CountedSet' = CountedSet \cup {t} /\ t \notin CountedSet
  BY <1>1 DEF CountedSet, Counted, TypeOK
<1>3. /\ Cardinality(CountedSet) \in 0..num_threads
      /\ Cardinality(CountedSet') = Cardinality(CountedSet) + 1
      /\ Cardinality(CountedSet') <= num_threads
      /\ num_threads \in Nat
  <2>1. IsFiniteSet(CountedSet) /\ Cardinality(CountedSet) \in 0..num_threads
        /\ num_threads \in Nat /\ CountedSet # Threads
    BY <1>2, CountedFacts
  <2>2. Cardinality(CountedSet') = Cardinality(CountedSet) + 1
    BY <1>2, <2>1, FS_AddElement
  <2>3. Cardinality(CountedSet) # num_threads
    BY <2>1, CountedFacts
  <2> QED BY <2>1, <2>2, <2>3
<1>4. CounterInv'
  <2>1. counter' = IF direction' = 0 THEN Cardinality(CountedSet')
                                    ELSE num_threads - Cardinality(CountedSet')
    BY <1>1, <1>3 DEF CounterInv, TypeOK
  <2>2. pc'[t] = "test680"
    BY DEF TypeOK
  <2> QED BY <2>1, <2>2 DEF CounterInv, num_threads
<1>5. counter' \in 0..num_threads
  BY <1>1, <1>3 DEF CounterInv, TypeOK
<1>6. TypeOK'
  BY <1>5 DEF TypeOK, num_threads
<1>7. SpinlockInv'
  BY DEF SpinlockInv, Inside, TypeOK
<1>8. RoundInv'
  BY <1>1 DEF RoundInv, Arriving, Over, TypeOK
<1>9. BoundInv'
  BY DEF BoundInv, TypeOK
<1> QED BY <1>4, <1>6, <1>7, <1>8, <1>9

\* The thread that finds the counter at its end has everybody in the round
\* with it: nobody is arriving, and the round is over for all of them.
LEMMA ReverseInv ==
  ASSUME Inv, NEW t \in Threads, Up(t) \/ Down(t)
  PROVE  Inv'
<1> USE DEF Inv
<1>1. /\ pc[t] = "test680" /\ pc' = [pc EXCEPT ![t] = "unlock684"]
      /\ initial_direction[t] = direction
      /\ UNCHANGED <<spinlock, counter, initial_direction, loaded, round>>
      /\ direction' = IF counter = (IF direction = 0 THEN num_threads ELSE 0)
                      THEN 1 - direction ELSE direction
  BY DEF Up, Down, ReverseAt, Goto, RoundInv, TypeOK
<1>2. num_threads \in Nat \ {0} /\ Cardinality(CountedSet) \in 0..num_threads
  BY CountedFacts
<1>3. SpinlockInv'
  BY <1>1 DEF SpinlockInv, Inside, TypeOK
<1>4. BoundInv'
  BY <1>1 DEF BoundInv, TypeOK
<1>5. TypeOK'
  BY <1>1 DEF TypeOK, num_threads
<1>6. CASE counter = IF direction = 0 THEN num_threads ELSE 0
  <2>1. direction' = 1 - direction /\ direction' # direction
    BY <1>1, <1>6 DEF TypeOK
  <2>2. Cardinality(CountedSet) = num_threads
    BY <1>2, <1>6 DEF CounterInv, TypeOK
  <2>3. \A u \in Threads : Counted(u)
    BY <2>2, CountedFacts DEF CountedSet
  <2>4. \A u \in Threads : pc[u] = "test680" => u = t
    BY <1>1 DEF SpinlockInv, Inside
  <2>5. \A u \in Threads : /\ pc'[u] \in {"unlock684", "spin696"}
                           /\ initial_direction'[u] # direction'
    BY <1>1, <2>1, <2>3, <2>4 DEF Counted, TypeOK
  <2>6. CountedSet' = {}
    BY <2>5 DEF CountedSet, Counted
  <2>7. CounterInv'
    <3>1. counter' = IF direction' = 0 THEN 0 ELSE num_threads - 0
      BY <1>1, <1>2, <1>6, <2>1 DEF TypeOK
    <3> QED BY <2>6, <3>1, FS_EmptySet, BarrierAssumption DEF CounterInv, num_threads
  <2>8. RoundInv'
    <3>1. \A u \in Threads : Over(u) = round[u] /\ Over(u)' = round[u] + 1
      BY <1>1, <2>3, <2>5 DEF Over, Counted
    <3> QED BY <2>5, <3>1 DEF RoundInv, Arriving
  <2> QED BY <1>3, <1>4, <1>5, <2>7, <2>8
<1>7. CASE ~(counter = IF direction = 0 THEN num_threads ELSE 0)
  <2>1. direction' = direction
    BY <1>1, <1>7
  <2>2. CountedSet' = CountedSet
    BY <1>1, <2>1 DEF CountedSet, Counted, TypeOK
  <2>3. CountedSet # Threads
    <3>1. Cardinality(CountedSet) # num_threads
      BY <1>2, <1>7 DEF CounterInv, TypeOK
    <3> QED BY <3>1, CountedFacts
  <2>4. CounterInv'
    BY <1>1, <2>1, <2>2, <2>3 DEF CounterInv, num_threads
  <2>5. RoundInv'
    BY <1>1, <2>1 DEF RoundInv, Arriving, Over, TypeOK
  <2> QED BY <1>3, <1>4, <1>5, <2>4, <2>5
<1> QED BY <1>6, <1>7

\* the spinlock is given back by the one that has it
LEMMA UnlockInv ==
  ASSUME Inv, NEW t \in Threads, Unlock(t)
  PROVE  Inv'
<1> USE DEF Unlock, Goto, Inv, TypeOK
<1>1. TypeOK'
  OBVIOUS
<1>2. SpinlockInv'
  BY DEF SpinlockInv, Inside
<1>3. RoundInv'
  BY DEF RoundInv, Arriving, Over
<1>4. CountedSet' = CountedSet
  BY DEF CountedSet, Counted
<1>5. CounterInv'
  BY <1>4, CounterKept
<1>6. BoundInv'
  BY DEF BoundInv
<1> QED BY <1>1, <1>2, <1>3, <1>5, <1>6

\* A thread that returns is not counted in the current round any more.
LEMMA ReturnInv ==
  ASSUME Inv, NEW t \in Threads, Return(t)
  PROVE  Inv'
<1> USE DEF Return, Goto, Inv, TypeOK
<1>1. round[t] + 1 \in 0..Rounds
  BY BarrierAssumption DEF BoundInv
<1>2. TypeOK'
  BY <1>1
<1>3. SpinlockInv'
  BY DEF SpinlockInv, Inside
<1>4. RoundInv'
  BY DEF RoundInv, Arriving, Over
<1>5. CountedSet' = CountedSet
  BY DEF CountedSet, Counted
<1>6. CounterInv'
  BY <1>5, CounterKept
<1>7. BoundInv'
  BY DEF BoundInv
<1> QED BY <1>2, <1>3, <1>4, <1>6, <1>7

\* a step of nobody
LEMMA StutterInv ==
  ASSUME Inv, UNCHANGED vars
  PROVE  Inv'
<1> USE DEF vars
<1>1. CountedSet' = CountedSet
  BY DEF CountedSet, Counted
<1> QED BY <1>1 DEF Inv, TypeOK, SpinlockInv, RoundInv, CounterInv, BoundInv,
                    Inside, Arriving, Over, num_threads

(***************************************************************************)
(* Theorems                                                                *)
(***************************************************************************)

\* Every reachable state of the barrier satisfies the invariant.
THEOREM BarrierInvariant == Spec => []Inv
<1>1. Inv /\ [Next]_vars => Inv'
  <2> SUFFICES ASSUME Inv, [Next]_vars PROVE Inv'
    OBVIOUS
  <2>1. ASSUME NEW t \in Threads, Step(t) PROVE Inv'
    BY <2>1, WaitInv, LockInv, LoadInv, StoreInv, ReverseInv, UnlockInv, ReturnInv DEF Step
  <2>2. CASE UNCHANGED vars
    BY <2>2, StutterInv
  <2> QED BY <2>1, <2>2 DEF Next
<1> QED BY InitInv, <1>1, PTL DEF Spec

\* Threads that use a barrier of m5threads are never more than one round
\* apart, for any number of threads and of rounds: the direction of a wait is
\* not reversed twice before the slowest thread has seen it.
THEOREM BarrierTogether == Spec => []Together
<1>1. Inv => Together
  BY DEF Inv, TypeOK, RoundInv, Over, Together
<1> QED BY BarrierInvariant, <1>1, PTL

\* pthread_barrier_wait returns only after every thread has called it as
\* often: the barrier implements Rendezvous, for any number of threads.
THEOREM BarrierIsRendezvous == Spec => ImplementsRendezvous
<1> DEFINE entered == [t \in Threads |-> IF pc[t] = "out" THEN round[t] ELSE round[t] + 1]
<1>1. Init => Abstract!Init
  BY DEF Init, Abstract!Init
<1>2. Inv /\ [Next]_vars => [Abstract!Next]_<<entered, round>>
  <2> SUFFICES ASSUME Inv, [Next]_vars PROVE [Abstract!Next]_<<entered, round>>
    OBVIOUS
  <2> USE DEF Inv, TypeOK, Goto
  <2>1. ASSUME NEW t \in Threads, Wait(t) PROVE Abstract!Enter(t)
    BY <2>1 DEF Wait, Abstract!Enter
  <2>2. ASSUME NEW t \in Threads, Return(t) PROVE Abstract!Leave(t)
    <3>1. \A u \in Threads : entered[u] >= entered[t]
      BY <2>2 DEF Return, RoundInv, Over
    <3>2. entered' = entered
      BY <2>2 DEF Return
    <3> QED BY <2>2, <3>1, <3>2 DEF Return, Abstract!Leave
  <2>3. ASSUME NEW t \in Threads, Lock(t) \/ Load(t) \/ Store(t) \/ Up(t) \/ Down(t) \/ Unlock(t)
        PROVE  UNCHANGED <<entered, round>>
    BY <2>3 DEF Lock, Load, Store, Up, Down, ReverseAt, Unlock
  <2>4. CASE UNCHANGED vars
    BY <2>4 DEF vars
  <2> QED BY <2>1, <2>2, <2>3, <2>4 DEF Next, Step, Abstract!Next
<1> QED BY BarrierInvariant, <1>1, <1>2, PTL DEF Spec, ImplementsRendezvous, Abstract!Spec
=============================================================================
