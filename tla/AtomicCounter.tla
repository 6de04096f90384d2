---------------------------- MODULE AtomicCounter ----------------------------
(***************************************************************************)
(* What the benchmark sync/myapp.c promises with a correct lock: the count *)
(* goes up one at a time, each thread adds one in each of its rounds, and  *)
(* main prints the count once all threads are through.                     *)
(***************************************************************************)
EXTENDS Naturals

CONSTANTS Cpus, None, Iters

VARIABLES count, done, printed

Init ==
  /\ count = 0
  /\ done = [c \in Cpus |-> 0]
  /\ printed = None

Increment(c) ==
  /\ done[c] < Iters
  /\ done' = [done EXCEPT ![c] = @ + 1]
  /\ count' = count + 1
  /\ UNCHANGED printed

PrintTotal ==
  /\ printed = None
  /\ \A c \in Cpus : done[c] = Iters
  /\ printed' = count
  /\ UNCHANGED <<count, done>>

Next == (\E c \in Cpus : Increment(c)) \/ PrintTotal

Spec == Init /\ [][Next]_<<count, done, printed>>
=============================================================================
