------------------------------ MODULE Barrier -------------------------------
(***************************************************************************)
(* The counter barrier of m5threads/pthread.c.  It is used again and again *)
(* without being reset: the counter runs up to the number of threads in    *)
(* one round and down to zero in the next, and the direction tells the     *)
(* waiting threads which round it is.  direction is read outside of the    *)
(* spinlock, once before counting and then until it changes; the counter   *)
(* is read and written under it.                                           *)
(***************************************************************************)
EXTENDS Naturals, FiniteSets

CONSTANTS
  Threads,   \* the threads that use the barrier, as many as it was made for
  Rounds     \* waits each of them does: a bound of the model

ASSUME BarrierAssumption ==
  /\ Threads # {} /\ IsFiniteSet(Threads)
  /\ Rounds \in Nat

VARIABLES
  spinlock,            \* TRUE when locked
  counter, direction,  \* of the barrier: 0 is up, 1 is down
  pc,                  \* where a thread is, by line of pthread.c
  initial_direction,   \* of a thread's current wait
  loaded,              \* the counter as a thread has read it for counter++ or --
  round                \* how many waits a thread has returned from

vars == <<spinlock, counter, direction, pc, initial_direction, loaded, round>>

num_threads == Cardinality(Threads)

TypeOK ==
  /\ spinlock \in BOOLEAN
  /\ counter \in 0..num_threads
  /\ direction \in {0, 1}
  /\ pc \in [Threads -> {"out", "lock678", "count679", "store679", "test680",
                      "unlock684", "spin696"}]
  /\ initial_direction \in [Threads -> {0, 1}]
  /\ loaded \in [Threads -> 0..num_threads]
  /\ round \in [Threads -> 0..Rounds]

\* pthread_barrier_init(barrier, NULL, num_threads)
Init ==
  /\ spinlock = FALSE
  /\ counter = 0
  /\ direction = 0
  /\ pc = [t \in Threads |-> "out"]
  /\ initial_direction = [t \in Threads |-> 0]
  /\ loaded = [t \in Threads |-> 0]
  /\ round = [t \in Threads |-> 0]

Goto(t, from, to) == pc[t] = from /\ pc' = [pc EXCEPT ![t] = to]

-----------------------------------------------------------------------------
(* pthread_barrier_wait *)

Wait(t) ==
  /\ Goto(t, "out", "lock678")
  /\ round[t] < Rounds
  /\ initial_direction' = [initial_direction EXCEPT ![t] = direction]
  /\ UNCHANGED <<spinlock, counter, direction, loaded, round>>

\* mutant: the spinlock is not waited for
LockBlind(t) ==
  /\ Goto(t, "lock678", "count679")
  /\ spinlock' = TRUE
  /\ UNCHANGED <<counter, direction, initial_direction, loaded, round>>

Lock(t) ==
  /\ Goto(t, "lock678", "count679")
  /\ ~spinlock
  /\ spinlock' = TRUE
  /\ UNCHANGED <<counter, direction, initial_direction, loaded, round>>

Load(t) ==
  /\ Goto(t, "count679", "store679")
  /\ loaded' = [loaded EXCEPT ![t] = counter]
  /\ UNCHANGED <<spinlock, counter, direction, initial_direction, round>>

\* counter++ on the way up, counter-- on the way down
Store(t) ==
  /\ Goto(t, "store679", "test680")
  /\ counter' = IF initial_direction[t] = 0 THEN loaded[t] + 1 ELSE loaded[t] - 1
  /\ UNCHANGED <<spinlock, direction, initial_direction, loaded, round>>

\* The thread that brings the counter to the end reverses the direction, and
\* that store is what the other threads see.
ReverseAt(t, from, end, reversed) ==
  /\ Goto(t, "test680", "unlock684")
  /\ initial_direction[t] = from
  /\ direction' = IF counter = end THEN reversed ELSE direction
  /\ UNCHANGED <<spinlock, counter, initial_direction, loaded, round>>

\* mutant: the direction is reversed one thread too early
UpEarly(t) == ReverseAt(t, 0, num_threads - 1, 1)

Up(t) == ReverseAt(t, 0, num_threads, 1)

Down(t) == ReverseAt(t, 1, 0, 0)

Unlock(t) ==
  /\ Goto(t, "unlock684", "spin696")
  /\ spinlock' = FALSE
  /\ UNCHANGED <<counter, direction, initial_direction, loaded, round>>

\* mutant: the wait ends without a look at the direction
ReturnBlind(t) ==
  /\ Goto(t, "spin696", "out")
  /\ round' = [round EXCEPT ![t] = @ + 1]
  /\ UNCHANGED <<spinlock, counter, direction, initial_direction, loaded>>

Return(t) ==
  /\ Goto(t, "spin696", "out")
  /\ direction # initial_direction[t]
  /\ round' = [round EXCEPT ![t] = @ + 1]
  /\ UNCHANGED <<spinlock, counter, direction, initial_direction, loaded>>

-----------------------------------------------------------------------------
Step(t) ==
  \/ Wait(t) \/ Lock(t) \/ Load(t) \/ Store(t) \/ Up(t) \/ Down(t)
  \/ Unlock(t) \/ Return(t)

Next == \E t \in Threads : Step(t)

Spec == Init /\ [][Next]_vars

\* Every thread runs, and calls the barrier as often as it should.
FairSpec == Spec /\ \A t \in Threads : WF_vars(Step(t))

-----------------------------------------------------------------------------
(* Properties *)

\* A thread is ahead of another one by at most one round, and then the other
\* one has been counted and is on its way out of the wait.
Together ==
  \A t, u \in Threads : round[t] > round[u] =>
    /\ round[t] = round[u] + 1
    /\ pc[u] \in {"unlock684", "spin696"}
    /\ direction # initial_direction[u]

\* The barrier keeps the promise of Rendezvous: nobody returns from its k-th
\* pthread_barrier_wait before everybody has called it for the k-th time.
Abstract == INSTANCE Rendezvous WITH
  entered <- [t \in Threads |-> IF pc[t] = "out" THEN round[t] ELSE round[t] + 1],
  left <- round

ImplementsRendezvous == Abstract!Spec

\* Nobody is left behind in the spin of lines 696-699: the direction a thread
\* waits for is not reversed again before the thread has seen it.
AllReturn == <>(\A t \in Threads : pc[t] = "out" /\ round[t] = Rounds)
=============================================================================
